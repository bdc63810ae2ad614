---------------------------- MODULE Program_proofs ----------------------------
(***************************************************************************)
(* Proofs about Program and KernelExecution, for every number of programs, *)
(* devices, inputs, jobs, kernels and tasks: m_BuildStatus keeps the       *)
(* builds of a program apart, the pending links of what is built for a     *)
(* device are what has been counted and not yet released, and what kernels *)
(* and their executions refer to stays while they do.                      *)
(***************************************************************************)
EXTENDS KernelExecution, FiniteSetTheorems, SequenceTheorems, TLAPS

-----------------------------------------------------------------------------
(* Types, and what the jobs have at each step.                             *)

Handles  == {"none", "inside", "open", "gone"}
Statuses == {"IN_PROGRESS", "NONE", "SUCCESS", "ERROR"}
BinaryKinds == {"NONE", "COMPILED_OBJECT", "LIBRARY", "EXECUTABLE"}

DataRecord ==
  [status : Statuses, type : BinaryKinds, object : BOOLEAN,
   kernel : KernelResults, pendingLinks : Int]

BuildPcs == {"object", "link", "failed", "finish"}
EarlyPcs == {"validate", "count", "start"}
LatePcs  == {"gather", "link_inputs", "release"}
Pcs == BuildPcs \cup {"relink"} \cup EarlyPcs \cup LatePcs \cup {"done"}

JobRecord ==
  [op : {"build", "compile", "relink", "link"}, prog : Programs,
   devices : SUBSET Devices, data : Nat,
   pc : Pcs,
   inputs : Seq(Programs), pos : Nat, valid : Nat, async : BOOLEAN,
   library : BOOLEAN, same : BOOLEAN, nullObject : BOOLEAN]

TypeInv ==
  /\ kind \in [Programs -> {"source", "il", "binary", "linked"}]
  /\ handle \in [Programs -> Handles]
  /\ data \in Seq(DataRecord)
  /\ buildData \in [Programs -> [Devices -> 0 .. Len(data)]]
  /\ jobs \in Seq(JobRecord)

Active(j)   == jobs[j].pc # "done"
Linking(j)  == Active(j) /\ jobs[j].op = "link"
Building(j) == Active(j) /\ jobs[j].op # "link"

\* The steps of each kind of job, and where a link is in its loops.
StepOf(r) ==
  /\ r.op \in {"build", "compile"} => r.pc \in BuildPcs \cup {"done"}
  /\ r.op = "relink" => r.pc = "relink"
  /\ r.op = "link" =>
       /\ r.pc \in EarlyPcs \cup LatePcs
       /\ r.pc = "validate" => Len(r.inputs) > 0
       /\ r.pc = "count" => r.pos < Len(r.inputs)
       /\ r.pc = "start" => r.pos \in 1 .. Len(r.inputs)
       /\ r.pc \in LatePcs => r.devices = Devices /\ r.pos \in 1 .. Len(AssociatedDevices)

StepsInv == \A j \in DOMAIN jobs : StepOf(jobs[j])

\* Only clLinkProgram links, and it makes a program of its own.
LinkInv ==
  /\ \A j \in DOMAIN jobs : Linking(j) => kind[jobs[j].prog] = "linked"
  /\ \A i, j \in DOMAIN jobs :
       Linking(i) /\ Linking(j) /\ jobs[i].prog = jobs[j].prog => i = j

\* Nothing is under way for a program that does not exist.
NoneInv == \A j \in DOMAIN jobs : Active(j) => handle[jobs[j].prog] # "none"

CoreInv == TypeInv /\ StepsInv /\ LinkInv /\ NoneInv

-----------------------------------------------------------------------------
(* Builds.                                                                 *)

XOf(j, d) == buildData[jobs[j].prog][d]

\* A PerDeviceData belongs to one program.
OwnedInv ==
  \A p, q \in Programs : \A d, e \in Devices :
    buildData[p][d] # 0 /\ buildData[p][d] = buildData[q][e] => p = q

\* What a build has to fill is in progress, and it is the program's.
BuildInv ==
  \A j \in DOMAIN jobs : Building(j) =>
    /\ jobs[j].devices # {}
    /\ \A d \in jobs[j].devices :
         /\ XOf(j, d) # 0
         /\ data[XOf(j, d)].status = "IN_PROGRESS"
         /\ jobs[j].op # "relink" => XOf(j, d) = jobs[j].data

\* Two builds of one program do not fill the same.
ApartInv ==
  \A i, j \in DOMAIN jobs :
    i # j /\ Building(i) /\ Building(j) /\ jobs[i].prog = jobs[j].prog =>
      \A d \in jobs[i].devices, e \in jobs[j].devices : XOf(i, d) # XOf(j, e)

\* Nothing is built for a program that is being linked.
AloneInv ==
  \A i, j \in DOMAIN jobs :
    Linking(i) /\ Building(j) => jobs[i].prog # jobs[j].prog

BuildsInv == OwnedInv /\ BuildInv /\ ApartInv /\ AloneInv

-----------------------------------------------------------------------------
(* Pending links.                                                          *)

\* What a job has counted and not released.
LinksIn(r) ==
  IF r.op # "link" \/ r.pc \in {"validate", "done"} THEN {}
  ELSE {u \in (DOMAIN r.inputs) \X Devices :
         IF r.pc \in {"count", "start"} THEN u[1] <= r.pos ELSE Position(u[2]) >= r.pos}

\* Every link that is counted and not released, and what it refers to.
LinksAmong(js) == UNION {{j} \X LinksIn(js[j]) : j \in DOMAIN js}
Links == LinksAmong(jobs)
Ref(w) == buildData[jobs[w[1]].inputs[w[2][1]]][w[2][2]]
LinksTo(x) == {w \in Links : Ref(w) = x}

\* The program that a link makes has no build data before LinkPrograms does.
Unbuilt(p) == \A d \in Devices : buildData[p][d] = 0
UnbuiltInv ==
  /\ \A p \in Programs : kind[p] = "linked" /\ handle[p] = "none" => Unbuilt(p)
  /\ \A j \in DOMAIN jobs :
       jobs[j].op = "link" /\ jobs[j].pc \in EarlyPcs => Unbuilt(jobs[j].prog)

\* A counted link refers to something.
RefInv == \A w \in Links : Ref(w) \in DOMAIN data

CountInv == \A x \in DOMAIN data : data[x].pendingLinks = Cardinality(LinksTo(x))

LinksInv == UnbuiltInv /\ RefInv /\ CountInv

-----------------------------------------------------------------------------
(* The devices.                                                            *)

\* The number of associated devices is positive.
LEMMA SomeDevices == Len(AssociatedDevices) \in Nat \ {0}
  BY ProgramAssumption, EmptySeq, LenProperties

\* Every device has its position in the list, and no other.
LEMMA Positions ==
  /\ \A d \in Devices : Position(d) \in 1 .. Len(AssociatedDevices) /\ AssociatedDevices[Position(d)] = d
  /\ \A i \in 1 .. Len(AssociatedDevices) :
       AssociatedDevices[i] \in Devices /\ Position(AssociatedDevices[i]) = i
<1>1. DOMAIN AssociatedDevices = 1 .. Len(AssociatedDevices)
  BY ProgramAssumption, LenProperties
<1>2. \A i, k \in DOMAIN AssociatedDevices : AssociatedDevices[i] = AssociatedDevices[k] => i = k
  BY ProgramAssumption DEF IsInjective
<1>3. Devices = {AssociatedDevices[i] : i \in DOMAIN AssociatedDevices}
  BY DEF Devices, ToSet
<1>4. ASSUME NEW d \in Devices
      PROVE  Position(d) \in DOMAIN AssociatedDevices /\ AssociatedDevices[Position(d)] = d
  <2>1. \E i \in DOMAIN AssociatedDevices : AssociatedDevices[i] = d
    BY <1>3
  <2> QED  BY <2>1 DEF Position
<1>5. ASSUME NEW i \in 1 .. Len(AssociatedDevices)
      PROVE  AssociatedDevices[i] \in Devices /\ Position(AssociatedDevices[i]) = i
  <2>1. AssociatedDevices[i] \in Devices
    BY <1>1, <1>3
  <2>2. Position(AssociatedDevices[i]) \in DOMAIN AssociatedDevices
        /\ AssociatedDevices[Position(AssociatedDevices[i])] = AssociatedDevices[i]
    BY <1>4, <2>1
  <2> QED  BY <1>1, <1>2, <2>1, <2>2
<1> QED  BY <1>1, <1>4, <1>5

\* There are finitely many devices.
LEMMA FiniteDevices == IsFiniteSet(Devices) /\ Cardinality(Devices) \in Nat
<1>1. AssociatedDevices \in Surjection(1 .. Len(AssociatedDevices), Devices)
  <2>1. AssociatedDevices \in [1 .. Len(AssociatedDevices) -> Devices]
    BY ProgramAssumption, LenProperties
  <2>2. \A d \in Devices : \E i \in 1 .. Len(AssociatedDevices) : AssociatedDevices[i] = d
    BY Positions
  <2> QED  BY <2>1, <2>2 DEF Surjection
<1>2. IsFiniteSet(1 .. Len(AssociatedDevices))
  BY SomeDevices, FS_Interval
<1>3. IsFiniteSet(Devices)
  BY <1>1, <1>2, FS_Surjection
<1> QED  BY <1>3, FS_CardinalityType

\* A set of devices has a size.
LEMMA SizeOfDevices ==
  ASSUME NEW D \in SUBSET Devices
  PROVE  IsFiniteSet(D) /\ Cardinality(D) \in Nat
<1>1. IsFiniteSet(D)
  BY FiniteDevices, FS_Subset
<1> QED  BY <1>1, FS_CardinalityType

-----------------------------------------------------------------------------
(* What is done to a PerDeviceData.                                        *)

\* One field at a time.
LEMMA DataFields ==
  ASSUME NEW x \in DataRecord
  PROVE  /\ \A v \in Statuses : [x EXCEPT !.status = v] \in DataRecord
         /\ \A v \in BinaryKinds : [x EXCEPT !.type = v] \in DataRecord
         /\ \A v \in BOOLEAN : [x EXCEPT !.object = v] \in DataRecord
         /\ \A v \in KernelResults : [x EXCEPT !.kernel = v] \in DataRecord
         /\ \A v \in Int : [x EXCEPT !.pendingLinks = v] \in DataRecord
  BY DEF DataRecord

\* What a change of other fields leaves alone.
LEMMA OtherFields ==
  ASSUME NEW x \in DataRecord, NEW v
  PROVE  /\ [x EXCEPT !.status = v].pendingLinks = x.pendingLinks
         /\ [x EXCEPT !.type = v].pendingLinks = x.pendingLinks
         /\ [x EXCEPT !.object = v].pendingLinks = x.pendingLinks
         /\ [x EXCEPT !.kernel = v].pendingLinks = x.pendingLinks
         /\ [x EXCEPT !.object = v].status = x.status
         /\ [x EXCEPT !.pendingLinks = v].status = x.status
         /\ [x EXCEPT !.pendingLinks = v].pendingLinks = v
         /\ [x EXCEPT !.status = v].status = v
  BY DEF DataRecord

\* New data, with or without a binary.
LEMMA NewData ==
  /\ PerDeviceData \in DataRecord /\ PerDeviceData.pendingLinks = 0 /\ PerDeviceData.status = "IN_PROGRESS"
  /\ \A t \in BinaryKinds : StoredBinary(t) \in DataRecord /\ StoredBinary(t).pendingLinks = 0
<1>1. PerDeviceData \in DataRecord /\ PerDeviceData.pendingLinks = 0 /\ PerDeviceData.status = "IN_PROGRESS"
  BY DEF PerDeviceData, DataRecord, Statuses, BinaryKinds, KernelResults
<1>2. ASSUME NEW t \in BinaryKinds
      PROVE  StoredBinary(t) \in DataRecord /\ StoredBinary(t).pendingLinks = 0
  <2>1. PICK x \in DataRecord : x = [PerDeviceData EXCEPT !.status = "NONE"]
    BY <1>1, DataFields DEF Statuses
  <2>2. PICK y \in DataRecord : y = [x EXCEPT !.type = t]
    BY DataFields
  <2>3. StoredBinary(t) = [y EXCEPT !.object = TRUE]
    BY <2>1, <2>2 DEF StoredBinary
  <2>4. x.pendingLinks = 0 /\ y.pendingLinks = x.pendingLinks
    BY <1>1, <2>1, <2>2, OtherFields
  <2>5. [y EXCEPT !.object = TRUE] \in DataRecord
    BY DataFields
  <2>6. [y EXCEPT !.object = TRUE].pendingLinks = 0
    BY <1>1, <2>4, OtherFields
  <2> QED  BY <2>3, <2>5, <2>6
<1> QED  BY <1>1, <1>2

-----------------------------------------------------------------------------
(* The initial states.                                                     *)

\* A function on 1 .. n is a sequence of length n.
LEMMA FunctionIsSeq ==
  ASSUME NEW S, NEW n \in Nat, NEW f \in [1 .. n -> S]
  PROVE  f \in Seq(S) /\ Len(f) = n
<1>1. f \in Seq(S)
  BY SeqDef
<1>2. Len(f) \in Nat /\ DOMAIN f = 1 .. Len(f)
  BY <1>1, LenProperties
<1>3. 1 .. Len(f) = 1 .. n
  BY <1>2
<1>4. Len(f) = n
  BY <1>2, <1>3
<1> QED  BY <1>1, <1>4

\* SetToSeq lists every element of a finite set.
LEMMA ListsEverything ==
  ASSUME NEW S, IsFiniteSet(S)
  PROVE  /\ SetToSeq(S) \in [1 .. Cardinality(S) -> S]
         /\ Cardinality(S) \in Nat
         /\ Len(SetToSeq(S)) = Cardinality(S)
         /\ \A x \in S : \E i \in 1 .. Cardinality(S) : SetToSeq(S)[i] = x
<1> DEFINE I == 1 .. Cardinality(S)
<1>1. Cardinality(S) \in Nat /\ ExistsBijection(I, S)
  BY FS_CardinalityType
<1>2. \E f \in [I -> S] : IsInjective(f)
  BY <1>1 DEF ExistsBijection, Bijection, Injection
<1>3. SetToSeq(S) \in [I -> S] /\ IsInjective(SetToSeq(S))
  BY <1>2 DEF SetToSeq
<1>4. SetToSeq(S) \in Injection(I, S)
  BY <1>3 DEF Injection
<1>5. IsFiniteSet(I) /\ Cardinality(I) = Cardinality(S)
  BY <1>1, FS_Interval
<1>6. SetToSeq(S) \in Surjection(I, S)
  BY <1>4, <1>5, FS_Injection
<1>7. \A x \in S : \E i \in I : SetToSeq(S)[i] = x
  BY <1>6 DEF Surjection
<1>8. Len(SetToSeq(S)) = Cardinality(S)
  BY <1>1, <1>3, FunctionIsSeq
<1> QED  BY <1>1, <1>3, <1>7, <1>8

\* The place of the i-th of n devices of the b-th program.
Place(n, b, i) == n * (b - 1) + i
SeparatePlaces(n, m) ==
  \A b, c \in 1 .. m : \A i, k \in 1 .. n :
    /\ Place(n, b, i) \in 1 .. n * m
    /\ Place(n, b, i) = Place(n, c, k) => b = c

\* The data of a program's devices lie side by side, program by program.
LEMMA SideBySide ==
  ASSUME NEW n \in Nat, NEW m \in Nat
  PROVE  SeparatePlaces(n, m)
<1> SUFFICES ASSUME NEW b \in 1 .. m, NEW c \in 1 .. m, NEW i \in 1 .. n, NEW k \in 1 .. n
             PROVE  /\ Place(n, b, i) \in 1 .. n * m
                    /\ Place(n, b, i) = Place(n, c, k) => b = c
  BY DEF SeparatePlaces
<1>1. \A e \in Nat : n * e \in Nat
  OBVIOUS
<1>2. n * (m - 1) = n * m - n /\ n * (b - 1) \in Nat /\ n * (c - 1) \in Nat /\ n * m \in Nat
  BY <1>1
<1>3. n * (b - 1) <= n * (m - 1)
  <2>1. n * (m - 1) = n * (b - 1) + n * (m - b)
    OBVIOUS
  <2>2. n * (m - b) \in Nat
    BY <1>1
  <2> QED  BY <1>2, <2>1, <2>2
<1>4. ASSUME b < c  PROVE n * (b - 1) + n <= n * (c - 1)
  <2>1. n * (c - 1) = n * (b - 1) + n + n * (c - b - 1)
    OBVIOUS
  <2>2. n * (c - b - 1) \in Nat
    BY <1>1, <1>4
  <2> QED  BY <1>2, <2>1, <2>2
<1>5. ASSUME c < b  PROVE n * (c - 1) + n <= n * (b - 1)
  <2>1. n * (b - 1) = n * (c - 1) + n + n * (b - c - 1)
    OBVIOUS
  <2>2. n * (b - c - 1) \in Nat
    BY <1>1, <1>5
  <2> QED  BY <1>2, <2>1, <2>2
<1>6. Place(n, b, i) \in 1 .. n * m
  BY <1>2, <1>3 DEF Place
<1>7. CASE b = c
  BY <1>6, <1>7
<1>8. CASE b < c
  BY <1>2, <1>4, <1>6, <1>8 DEF Place
<1>9. CASE c < b
  BY <1>2, <1>5, <1>6, <1>9 DEF Place
<1> QED  BY <1>7, <1>8, <1>9

\* The initial data and their owners.
LEMMA InitData ==
  ASSUME Init
  PROVE  /\ TypeInv /\ OwnedInv
         /\ \A x \in DOMAIN data : data[x].pendingLinks = 0
         /\ \A p \in Programs : kind[p] # "binary" => Unbuilt(p)
<1> DEFINE B == {p \in Programs : kind[p] = "binary"}
           binaries == SetToSeq(B)
           n == Len(AssociatedDevices)
           m == Cardinality(B)
           Index(p) == CHOOSE b \in DOMAIN binaries : binaries[b] = p
<1>1. kind \in [Programs -> {"source", "il", "binary", "linked"}]
  BY ProgramAssumption DEF Init
<1>2. IsFiniteSet(B)
  BY ProgramAssumption, FS_Subset
<1>3. /\ binaries \in [1 .. m -> B] /\ m \in Nat /\ Len(binaries) = m
      /\ \A p \in B : \E i \in 1 .. m : binaries[i] = p
  BY <1>2, ListsEverything
<1>4. \A p \in B : Index(p) \in 1 .. m /\ binaries[Index(p)] = p
  BY <1>3
<1>5. n \in Nat
  BY SomeDevices
<1>6. PICK types \in [1 .. n * m -> BinaryTypes] :
        data = [x \in DOMAIN types |-> StoredBinary(types[x])]
  BY <1>3 DEF Init
<1>7. \A t \in BinaryTypes : StoredBinary(t) \in DataRecord /\ StoredBinary(t).pendingLinks = 0
  <2> SUFFICES ASSUME NEW t \in BinaryTypes
               PROVE  StoredBinary(t) \in DataRecord /\ StoredBinary(t).pendingLinks = 0
    OBVIOUS
  <2>1. t \in BinaryKinds
    BY ProgramAssumption DEF BinaryKinds
  <2> QED  BY <2>1, NewData
<1>8. data \in [1 .. n * m -> DataRecord] /\ \A x \in 1 .. n * m : data[x].pendingLinks = 0
  <2>1. DOMAIN types = 1 .. n * m
    BY <1>6
  <2> HIDE DEF n, m
  <2> QED  BY <1>6, <1>7, <2>1
<1>9. n * m \in Nat
  BY <1>3, <1>5
<1>10. data \in Seq(DataRecord) /\ Len(data) = n * m
  <2> HIDE DEF n, m
  <2> QED  BY <1>8, <1>9, FunctionIsSeq
<1>11. buildData = [p \in Programs |-> [d \in Devices |->
         IF p \in B THEN Place(n, Index(p), Position(d)) ELSE 0]]
  BY DEF Init, Place
<1>12. \A d \in Devices : Position(d) \in 1 .. n
  BY Positions
<1> HIDE DEF n, m, B, Index
<1>13. SeparatePlaces(n, m)
  BY <1>3, <1>5, SideBySide
<1>14. \A p, q \in B : \A d, e \in Devices :
         /\ Place(n, Index(p), Position(d)) \in 1 .. n * m
         /\ Place(n, Index(p), Position(d)) = Place(n, Index(q), Position(e)) => Index(p) = Index(q)
  BY <1>4, <1>12, <1>13 DEF SeparatePlaces
<1>15. \A p \in Programs, d \in Devices :
         buildData[p][d] = IF p \in B THEN Place(n, Index(p), Position(d)) ELSE 0
  BY <1>11
<1>16. \A p \in Programs, d \in Devices : buildData[p][d] \in 0 .. Len(data)
  <2> SUFFICES ASSUME NEW p \in Programs, NEW d \in Devices
               PROVE  buildData[p][d] \in 0 .. Len(data)
    OBVIOUS
  <2>1. CASE p \in B
    BY <1>9, <1>10, <1>14, <1>15, <2>1
  <2>2. CASE p \notin B
    BY <1>9, <1>10, <1>15, <2>2
  <2> QED  BY <2>1, <2>2
<1>17. buildData \in [Programs -> [Devices -> 0 .. Len(data)]]
  <2>1. \A p \in Programs : buildData[p] = [d \in Devices |-> buildData[p][d]]
    BY <1>11
  <2>2. \A p \in Programs : buildData[p] \in [Devices -> 0 .. Len(data)]
    BY <1>16, <2>1
  <2> QED  BY <1>11, <2>2
<1>18. handle \in [Programs -> Handles] /\ jobs \in Seq(JobRecord)
  BY EmptySeq DEF Init, Handles
<1>19. TypeInv
  BY <1>1, <1>10, <1>17, <1>18 DEF TypeInv
<1>20. OwnedInv
  <2> SUFFICES ASSUME NEW p \in Programs, NEW q \in Programs, NEW d \in Devices, NEW e \in Devices,
                      buildData[p][d] # 0, buildData[p][d] = buildData[q][e]
               PROVE  p = q
    BY DEF OwnedInv
  <2>1. p \in B /\ q \in B
    BY <1>15
  <2>2. Index(p) = Index(q)
    BY <1>14, <1>15, <2>1
  <2> QED  BY <1>4, <2>1, <2>2
<1>21. \A p \in Programs : kind[p] # "binary" => Unbuilt(p)
  BY <1>15 DEF Unbuilt, B
<1>22. \A x \in DOMAIN data : data[x].pendingLinks = 0
  BY <1>8
<1> QED  BY <1>19, <1>20, <1>21, <1>22

\* The invariants hold at first.
LEMMA InitInv ==
  ASSUME Init
  PROVE  CoreInv /\ BuildsInv /\ LinksInv
<1>1. DOMAIN jobs = {}
  BY DEF Init
<1>2. Links = {}
  BY <1>1 DEF Links, LinksAmong
<1>3. CoreInv /\ BuildsInv
  BY <1>1, InitData DEF CoreInv, BuildsInv, StepsInv, LinkInv, NoneInv, BuildInv, ApartInv, AloneInv
<1>4. \A x : LinksTo(x) = {}
  BY <1>2 DEF LinksTo
<1>5. LinksInv
  BY <1>1, <1>2, <1>4, InitData, FS_EmptySet DEF LinksInv, UnbuiltInv, RefInv, CountInv
<1> QED  BY <1>3, <1>5

-----------------------------------------------------------------------------
(* What a step does to the jobs.                                           *)

\* A step of job j leaves the other jobs alone, and the job stays what it is
\* until it is done.
OneJob(j) ==
  /\ j \in DOMAIN jobs /\ Active(j)
  /\ jobs' \in Seq(JobRecord) /\ DOMAIN jobs' = DOMAIN jobs
  /\ \A i \in DOMAIN jobs : i # j => jobs'[i] = jobs[i]
  /\ StepOf(jobs'[j])
  /\ jobs'[j].pc # "done" => jobs'[j].op = jobs[j].op /\ jobs'[j].prog = jobs[j].prog

\* A call adds the job r.
NewJob(r) ==
  /\ r \in JobRecord /\ StepOf(r) /\ r.pc # "done"
  /\ jobs' = Append(jobs, r)

\* No program ceases to exist, and types are kept.
HandlesKept == \A p \in Programs : handle[p] # "none" => handle'[p] # "none"
Kept == TypeInv' /\ kind' = kind /\ HandlesKept

\* The parts of a job.
LEMMA JobsAre ==
  ASSUME TypeInv
  PROVE  \A j \in DOMAIN jobs :
           /\ jobs[j] \in JobRecord
           /\ jobs[j].prog \in Programs /\ jobs[j].devices \in SUBSET Devices
           /\ jobs[j].inputs \in Seq(Programs)
           /\ jobs[j].pos \in Nat /\ jobs[j].data \in Nat /\ jobs[j].valid \in Nat
<1>1. jobs \in [DOMAIN jobs -> JobRecord]
  BY LenProperties DEF TypeInv
<1> SUFFICES ASSUME NEW j \in DOMAIN jobs
             PROVE  /\ jobs[j] \in JobRecord
                    /\ jobs[j].prog \in Programs /\ jobs[j].devices \in SUBSET Devices
                    /\ jobs[j].inputs \in Seq(Programs)
                    /\ jobs[j].pos \in Nat /\ jobs[j].data \in Nat /\ jobs[j].valid \in Nat
  OBVIOUS
<1>2. jobs[j] \in JobRecord
  BY <1>1
<1> QED  BY <1>2 DEF JobRecord

\* The job after the last, as the others are.
LEMMA NewJobProperties ==
  ASSUME NEW r, TypeInv, NewJob(r)
  PROVE  /\ jobs' \in Seq(JobRecord) /\ Len(jobs) \in Nat
         /\ DOMAIN jobs = 1 .. Len(jobs) /\ DOMAIN jobs' = 1 .. (Len(jobs) + 1)
         /\ \A i \in DOMAIN jobs : jobs'[i] = jobs[i]
         /\ jobs'[Len(jobs) + 1] = r
<1>1. jobs \in Seq(JobRecord) /\ r \in JobRecord /\ jobs' = Append(jobs, r)
  BY DEF TypeInv, NewJob
<1>2. Len(jobs) \in Nat /\ DOMAIN jobs = 1 .. Len(jobs)
  BY <1>1, LenProperties
<1>3. jobs' \in Seq(JobRecord) /\ Len(jobs') = Len(jobs) + 1
  BY <1>1
<1>4. DOMAIN jobs' = 1 .. (Len(jobs) + 1)
  BY <1>3, LenProperties
<1>5. \A i \in 1 .. Len(jobs) : jobs'[i] = jobs[i]
  BY <1>1
<1>6. jobs'[Len(jobs) + 1] = r
  BY <1>1
<1> QED  BY <1>2, <1>3, <1>4, <1>5, <1>6

\* The core invariant after a step of a job.
LEMMA CoreOneJob ==
  ASSUME NEW j, CoreInv, OneJob(j), Kept
  PROVE  CoreInv'
<1>1. TypeInv' /\ TypeInv /\ StepsInv /\ LinkInv /\ NoneInv
  BY DEF CoreInv, Kept
<1>2. \A i \in DOMAIN jobs : i # j => jobs'[i] = jobs[i]
  BY DEF OneJob
<1>3. DOMAIN jobs' = DOMAIN jobs /\ j \in DOMAIN jobs /\ kind' = kind /\ Active(j)
  BY DEF OneJob, Kept
<1>4. StepsInv'
  BY <1>1, <1>2, <1>3 DEF StepsInv, StepOf, OneJob
<1>5. \A i \in DOMAIN jobs : Active(i)' =>
        Active(i) /\ jobs'[i].op = jobs[i].op /\ jobs'[i].prog = jobs[i].prog
  BY <1>2, <1>3 DEF OneJob, Active
<1>6. LinkInv'
  BY <1>1, <1>3, <1>5 DEF LinkInv, Linking
<1>7. \A i \in DOMAIN jobs : jobs[i].prog \in Programs
  BY <1>1, JobsAre
<1>8. NoneInv'
  <2> SUFFICES ASSUME NEW i \in DOMAIN jobs, Active(i)'
               PROVE  handle'[jobs'[i].prog] # "none"
    BY <1>3 DEF NoneInv
  <2>1. Active(i) /\ jobs'[i].prog = jobs[i].prog
    BY <1>5
  <2>2. handle[jobs[i].prog] # "none"
    BY <1>1, <2>1 DEF NoneInv
  <2> QED  BY <1>7, <2>1, <2>2 DEF Kept, HandlesKept
<1> QED  BY <1>1, <1>4, <1>6, <1>8 DEF CoreInv

\* The core invariant after a call that adds a job.
LEMMA CoreNewJob ==
  ASSUME NEW r, CoreInv, NewJob(r), Kept,
         handle'[r.prog] # "none",
         r.op = "link" => handle[r.prog] = "none" /\ kind[r.prog] = "linked"
  PROVE  CoreInv'
<1>1. TypeInv' /\ TypeInv /\ StepsInv /\ LinkInv /\ NoneInv /\ kind' = kind
  BY DEF CoreInv, Kept
<1>0. PICK n : n = Len(jobs) + 1
  OBVIOUS
<1>2. /\ n \notin DOMAIN jobs /\ DOMAIN jobs' = DOMAIN jobs \cup {n}
      /\ jobs'[n] = r /\ \A i \in DOMAIN jobs : jobs'[i] = jobs[i]
  <2>1. Len(jobs) \in Nat /\ DOMAIN jobs = 1 .. Len(jobs) /\ DOMAIN jobs' = 1 .. (Len(jobs) + 1)
    BY <1>1, NewJobProperties
  <2>2. jobs'[n] = r /\ \A i \in DOMAIN jobs : jobs'[i] = jobs[i]
    BY <1>0, <1>1, NewJobProperties
  <2>3. n \notin DOMAIN jobs /\ DOMAIN jobs' = DOMAIN jobs \cup {n}
    BY <1>0, <2>1
  <2> QED  BY <2>2, <2>3
<1>3. StepsInv'
  BY <1>1, <1>2 DEF StepsInv, StepOf, NewJob
<1>4. LinkInv'
  <2>1. \A i \in DOMAIN jobs : Linking(i)' <=> Linking(i)
    BY <1>2 DEF Linking, Active
  <2>2. \A i \in DOMAIN jobs : Linking(i) /\ r.op = "link" => jobs[i].prog # r.prog
    BY <1>1 DEF Linking, NoneInv
  <2>3. Linking(n)' => r.op = "link"
    BY <1>2 DEF Linking
  <2>4. \A i \in DOMAIN jobs' : Linking(i)' => kind'[jobs'[i].prog] = "linked"
    <3> SUFFICES ASSUME NEW i \in DOMAIN jobs', Linking(i)'
                 PROVE  kind'[jobs'[i].prog] = "linked"
      OBVIOUS
    <3>1. CASE i = n
      BY <1>1, <1>2, <2>3, <3>1
    <3>2. CASE i \in DOMAIN jobs
      BY <1>1, <1>2, <2>1, <3>2 DEF LinkInv
    <3> QED  BY <1>2, <3>1, <3>2
  <2>5. ASSUME NEW i \in DOMAIN jobs', NEW k \in DOMAIN jobs',
               Linking(i)', Linking(k)', jobs'[i].prog = jobs'[k].prog
        PROVE  i = k
    <3>1. CASE i \in DOMAIN jobs /\ k \in DOMAIN jobs
      BY <1>1, <1>2, <2>1, <2>5, <3>1 DEF LinkInv
    <3>2. CASE i = n /\ k \in DOMAIN jobs
      BY <1>2, <2>1, <2>2, <2>3, <2>5, <3>2
    <3>3. CASE i \in DOMAIN jobs /\ k = n
      BY <1>2, <2>1, <2>2, <2>3, <2>5, <3>3
    <3> QED  BY <1>2, <3>1, <3>2, <3>3
  <2> QED  BY <2>4, <2>5 DEF LinkInv
<1>5. \A i \in DOMAIN jobs : jobs[i].prog \in Programs
  BY <1>1, JobsAre
<1>6. NoneInv'
  <2> SUFFICES ASSUME NEW i \in DOMAIN jobs', Active(i)'
               PROVE  handle'[jobs'[i].prog] # "none"
    BY DEF NoneInv
  <2>1. CASE i = n
    BY <1>2, <2>1
  <2>2. CASE i \in DOMAIN jobs
    <3>1. handle[jobs[i].prog] # "none"
      BY <1>1, <1>2, <2>2 DEF NoneInv, Active
    <3> QED  BY <1>2, <1>5, <2>2, <3>1 DEF Kept, HandlesKept
  <2> QED  BY <1>2, <2>1, <2>2
<1> QED  BY <1>1, <1>3, <1>4, <1>6 DEF CoreInv

\* A job s that has gone on from r: it is at the step pc, pos devices or
\* inputs on, and is otherwise as it was.
WentOn(r, s, pc, pos) ==
  /\ s \in JobRecord /\ s.op = r.op /\ s.prog = r.prog /\ s.devices = r.devices
  /\ s.data = r.data /\ s.inputs = r.inputs /\ s.pc = pc /\ s.pos = pos

\* What the steps of a job write into it: most go to another step, ...
JobAt(r, pc) == [r EXCEPT !.pc = pc]
LEMMA JobAtGoesOn ==
  ASSUME NEW r \in JobRecord, NEW pc \in Pcs
  PROVE  WentOn(r, JobAt(r, pc), pc, r.pos)
  BY DEF JobRecord, WentOn, JobAt

\* ... ReleasePendingLinks to the next device, ...
NextDevice(r, pos) == [r EXCEPT !.pc = "gather", !.pos = pos]
LEMMA NextDeviceGoesOn ==
  ASSUME NEW r \in JobRecord, NEW pos \in Nat
  PROVE  WentOn(r, NextDevice(r, pos), "gather", pos)
  BY DEF JobRecord, WentOn, NextDevice, Pcs, LatePcs

\* ... ValidateInput to the next input, ...
Validated(r, pc, pos, valid) == [r EXCEPT !.pc = pc, !.pos = pos, !.valid = valid]
LEMMA ValidatedGoesOn ==
  ASSUME NEW r \in JobRecord, NEW pc \in Pcs, NEW pos \in Nat, NEW valid \in Nat
  PROVE  WentOn(r, Validated(r, pc, pos, valid), pc, pos)
  BY DEF JobRecord, WentOn, Validated

\* ... and so does CountPendingLinks, ...
Counted(r, pos, same, pc) == [r EXCEPT !.pos = pos, !.same = same, !.pc = pc]
LEMMA CountedGoesOn ==
  ASSUME NEW r \in JobRecord, NEW pc \in Pcs, NEW pos \in Nat, NEW same \in BOOLEAN
  PROVE  WentOn(r, Counted(r, pos, same, pc), pc, pos)
  BY DEF JobRecord, WentOn, Counted

\* ... and GatherObjects remembers whether a binary is missing.
Gathered(r, nullObject) == [r EXCEPT !.pc = "link_inputs", !.nullObject = nullObject]
LEMMA GatheredGoesOn ==
  ASSUME NEW r \in JobRecord, NEW nullObject \in BOOLEAN
  PROVE  WentOn(r, Gathered(r, nullObject), "link_inputs", r.pos)
  BY DEF JobRecord, WentOn, Gathered, Pcs, LatePcs

\* What remains of a job that has ended.
LEMMA EndedJob ==
  ASSUME NEW p \in Programs
  PROVE  FinishedJob \in JobRecord /\ FinishedJob.pc = "done" /\ FinishedJob.op = "build"
<1>1. AnyProgram \in Programs
  BY DEF AnyProgram
<1> QED  BY <1>1, EmptySeq DEF FinishedJob, Job, JobRecord, Pcs

\* One job is replaced.
LEMMA JobUpdate ==
  ASSUME NEW j \in DOMAIN jobs, NEW s \in JobRecord, TypeInv, jobs' = [jobs EXCEPT ![j] = s]
  PROVE  /\ jobs' \in Seq(JobRecord) /\ DOMAIN jobs' = DOMAIN jobs
         /\ jobs'[j] = s /\ \A i \in DOMAIN jobs : i # j => jobs'[i] = jobs[i]
<1>1. jobs \in Seq(JobRecord)
  BY DEF TypeInv
<1>2. DOMAIN jobs = 1 .. Len(jobs)
  BY <1>1, LenProperties
<1>3. jobs' \in Seq(JobRecord)
  BY <1>1, <1>2, ExceptSeq
<1> QED  BY <1>3

\* The data of a type-correct state.
LEMMA DataAre ==
  ASSUME TypeInv
  PROVE  /\ Len(data) \in Nat /\ DOMAIN data = 1 .. Len(data)
         /\ \A x \in DOMAIN data : data[x] \in DataRecord
         /\ \A p \in Programs, d \in Devices : buildData[p][d] \in 0 .. Len(data)
         /\ \A p \in Programs, d \in Devices : buildData[p][d] # 0 => buildData[p][d] \in DOMAIN data
<1>1. Len(data) \in Nat /\ DOMAIN data = 1 .. Len(data) /\ data \in [DOMAIN data -> DataRecord]
  BY LenProperties DEF TypeInv
<1>2. \A p \in Programs, d \in Devices : buildData[p][d] \in 0 .. Len(data)
  BY DEF TypeInv
<1>3. \A p \in Programs, d \in Devices : buildData[p][d] # 0 => buildData[p][d] \in DOMAIN data
  BY <1>1, <1>2
<1> QED  BY <1>1, <1>2, <1>3

\* Each PerDeviceData stays one.
DataStay ==
  /\ DOMAIN data' = DOMAIN data
  /\ \A x \in DOMAIN data : data'[x] \in DataRecord
  /\ \E S : data' \in [DOMAIN data -> S]

\* Types are kept when the data stay and nothing else but jobs and handles
\* changes.
LEMMA TypeStays ==
  ASSUME TypeInv, DataStay, jobs' \in Seq(JobRecord), handle' \in [Programs -> Handles],
         kind' = kind, buildData' = buildData
  PROVE  TypeInv' /\ Len(data') = Len(data)
<1>1. data' \in [DOMAIN data -> DataRecord]
  BY DEF DataStay
<1>2. Len(data) \in Nat /\ DOMAIN data = 1 .. Len(data)
  BY DataAre
<1>3. data' \in Seq(DataRecord) /\ Len(data') = Len(data)
  BY <1>1, <1>2, FunctionIsSeq
<1> QED  BY <1>3 DEF TypeInv

\* One PerDeviceData is replaced.
LEMMA DataUpdate ==
  ASSUME NEW x, NEW v, TypeInv, x \in DOMAIN data => v \in DataRecord,
         data' = [data EXCEPT ![x] = v]
  PROVE  DataStay /\ \A y \in DOMAIN data : data'[y] = IF y = x THEN v ELSE data[y]
<1>1. \A y \in DOMAIN data : data'[y] = IF y = x THEN v ELSE data[y]
  OBVIOUS
<1>2. \A y \in DOMAIN data : data'[y] \in DataRecord
  BY <1>1, DataAre
<1>3. data \in [DOMAIN data -> DataRecord] /\ DOMAIN data' = DOMAIN data
  BY LenProperties DEF TypeInv
<1>4. data' \in [DOMAIN data -> DataRecord]
  BY <1>2, <1>3
<1> QED  BY <1>1, <1>2, <1>3, <1>4 DEF DataStay

-----------------------------------------------------------------------------
(* What a step does to the data.                                           *)

\* What a job that is not a link writes at its end is its own, and it writes
\* no status before.  A link writes those of its program.  No job begins to
\* build what another has built.
StatusRule(j) ==
  \A x \in DOMAIN data : data'[x].status # data[x].status =>
    /\ data'[x].status # "IN_PROGRESS"
    /\ \/ Linking(j) /\ \E d \in Devices : x = XOf(j, d)
       \/ /\ Building(j) /\ jobs'[j].pc = "done"
          /\ \/ jobs[j].op # "relink" /\ x = jobs[j].data
             \/ \E d \in jobs[j].devices : x = XOf(j, d)

\* A step of job j that gives no program new build data.
GoesOn(j) ==
  /\ OneJob(j) /\ Kept /\ buildData' = buildData /\ DOMAIN data' = DOMAIN data
  /\ StatusRule(j)
  /\ jobs'[j].pc \in EarlyPcs => jobs[j].pc \in EarlyPcs
  /\ jobs'[j].pc # "done" => jobs'[j].devices = jobs[j].devices /\ jobs'[j].data = jobs[j].data

PendingSame == \A x \in DOMAIN data : data'[x].pendingLinks = data[x].pendingLinks

\* A step of job j that neither counts nor releases anything.
LinksSame(j) ==
  /\ LinksIn(jobs'[j]) = LinksIn(jobs[j])
  /\ \A u \in LinksIn(jobs[j]) : jobs'[j].inputs[u[1]] = jobs[j].inputs[u[1]]
  /\ PendingSame

\* A step that leaves the status of the data and their pending links alone.
DataQuiet ==
  /\ DataStay /\ PendingSame
  /\ \A x \in DOMAIN data : data'[x].status = data[x].status

LEMMA UnchangedData ==
  ASSUME TypeInv, data' = data
  PROVE  DataQuiet
<1>1. data \in [DOMAIN data -> DataRecord]
  BY LenProperties DEF TypeInv
<1>2. DataStay
  BY <1>1 DEF DataStay
<1> QED  BY <1>2 DEF DataQuiet, PendingSame

\* What the code calls LinksOf.
LEMMA LinksOfJob == \A j : LinksOf(j) = LinksIn(jobs[j])
  BY DEF LinksOf, LinksIn

\* A build or a compilation goes on to its next step.
LEMMA BuildMoves ==
  ASSUME CoreInv, NEW j \in DOMAIN jobs, NEW pc \in BuildPcs,
         jobs[j].op \in {"build", "compile"}, Active(j), Goto(j, pc), DataQuiet,
         UNCHANGED <<kind, handle, buildData>>
  PROVE  GoesOn(j) /\ LinksSame(j)
<1>1. TypeInv
  BY DEF CoreInv
<1>2. PICK r \in JobRecord : r = jobs[j]
  BY <1>1, JobsAre
<1>3. PICK s : WentOn(r, s, pc, r.pos) /\ s = JobAt(r, pc)
  <2>1. pc \in Pcs
    BY DEF Pcs
  <2>2. WentOn(r, JobAt(r, pc), pc, r.pos)
    BY <2>1, JobAtGoesOn
  <2> QED  BY <2>2
<1>4. jobs' = [jobs EXCEPT ![j] = s]
  BY <1>2, <1>3 DEF Goto, JobAt
<1>5. /\ jobs' \in Seq(JobRecord) /\ DOMAIN jobs' = DOMAIN jobs
      /\ jobs'[j] = s /\ \A i \in DOMAIN jobs : i # j => jobs'[i] = jobs[i]
  BY <1>1, <1>2, <1>3, <1>4, JobUpdate DEF WentOn
<1>6. StepOf(s)
  BY <1>2, <1>3 DEF WentOn, StepOf
<1>7. OneJob(j)
  BY <1>2, <1>3, <1>5, <1>6 DEF OneJob, WentOn
<1>8. Kept
  <2>1. TypeInv'
    BY <1>1, <1>5, TypeStays DEF DataQuiet, TypeInv
  <2> QED  BY <2>1 DEF Kept, HandlesKept
<1>0. jobs'[j].pc \notin EarlyPcs
  BY <1>3, <1>5 DEF WentOn, BuildPcs, EarlyPcs
<1>9. GoesOn(j)
  BY <1>0, <1>2, <1>3, <1>5, <1>7, <1>8 DEF GoesOn, StatusRule, DataQuiet, DataStay, WentOn
<1>10. LinksIn(jobs'[j]) = {} /\ LinksIn(jobs[j]) = {}
  BY <1>2, <1>3, <1>5 DEF LinksIn, WentOn
<1>11. LinksSame(j)
  BY <1>10 DEF LinksSame, DataQuiet
<1> QED  BY <1>9, <1>11

\* A job that is not a link, or a link that has counted nothing, ends.
LEMMA JobEnds ==
  ASSUME CoreInv, NEW j \in DOMAIN jobs, Active(j), Finish(j), DataStay, StatusRule(j),
         kind' = kind, buildData' = buildData,
         handle' \in [Programs -> Handles], HandlesKept
  PROVE  GoesOn(j) /\ LinksIn(jobs'[j]) = {}
<1>1. TypeInv
  BY DEF CoreInv
<1>2. jobs[j].prog \in Programs
  BY <1>1, JobsAre
<1>3. FinishedJob \in JobRecord /\ FinishedJob.pc = "done" /\ FinishedJob.op = "build"
  BY <1>2, EndedJob
<1>4. jobs' = [jobs EXCEPT ![j] = FinishedJob]
  BY DEF Finish
<1>5. /\ jobs' \in Seq(JobRecord) /\ DOMAIN jobs' = DOMAIN jobs
      /\ jobs'[j] = FinishedJob /\ \A i \in DOMAIN jobs : i # j => jobs'[i] = jobs[i]
  BY <1>1, <1>3, <1>4, JobUpdate
<1>6. OneJob(j)
  BY <1>3, <1>5 DEF OneJob, StepOf
<1>7. Kept
  <2>1. TypeInv'
    BY <1>1, <1>5, TypeStays
  <2> QED  BY <2>1 DEF Kept
<1>0. jobs'[j].pc \notin EarlyPcs
  BY <1>3, <1>5 DEF EarlyPcs
<1>8. GoesOn(j)
  BY <1>0, <1>3, <1>5, <1>6, <1>7 DEF GoesOn, DataStay
<1>9. LinksIn(jobs'[j]) = {}
  BY <1>3, <1>5 DEF LinksIn
<1> QED  BY <1>8, <1>9

\* The last step of a build, whatever it writes.
LEMMA BuildEnds ==
  ASSUME CoreInv, NEW j \in DOMAIN jobs, Building(j), Finish(j),
         DataStay, StatusRule(j), PendingSame, UNCHANGED <<kind, handle, buildData>>
  PROVE  GoesOn(j) /\ LinksSame(j)
<1>1. handle' \in [Programs -> Handles] /\ HandlesKept
  BY DEF CoreInv, TypeInv, HandlesKept
<1>2. GoesOn(j) /\ LinksIn(jobs'[j]) = {}
  BY <1>1, JobEnds DEF Building
<1>3. LinksIn(jobs[j]) = {}
  BY DEF Building, LinksIn
<1> QED  BY <1>2, <1>3 DEF LinksSame

-----------------------------------------------------------------------------
(* The steps of builds and compilations.                                   *)

\* Where a job is says what kind of job it is.
LEMMA KindOfStep ==
  ASSUME CoreInv, NEW j \in DOMAIN jobs
  PROVE  /\ jobs[j].pc \in BuildPcs => jobs[j].op \in {"build", "compile"} /\ Building(j)
         /\ jobs[j].pc = "relink" => jobs[j].op = "relink" /\ Building(j)
         /\ jobs[j].pc \in EarlyPcs \cup LatePcs => jobs[j].op = "link" /\ Linking(j)
<1>1. StepOf(jobs[j]) /\ jobs[j].op \in {"build", "compile", "relink", "link"}
  BY JobsAre DEF CoreInv, StepsInv, JobRecord
<1> QED  BY <1>1 DEF StepOf, BuildPcs, EarlyPcs, LatePcs, Building, Linking, Active

\* What the last steps write, v in place of r: no build goes on.
Written(v, r) ==
  v \in DataRecord /\ v.pendingLinks = r.pendingLinks /\ v.status # "IN_PROGRESS"
LEMMA DataWritten ==
  ASSUME NEW r \in DataRecord
  PROVE  /\ \A k \in KernelResults : Written(Executable(r, k), r)
         /\ Written(Failed(r), r)
<1>1. ASSUME NEW k \in KernelResults
      PROVE  Written(Executable(r, k), r)
  BY <1>1 DEF Written, Executable, DataRecord, Statuses, BinaryKinds
<1>2. Written(Failed(r), r)
  BY DEF Written, Failed, DataRecord, Statuses
<1> QED  BY <1>1, <1>2

\* Compiling or specialising changes no data.
LEMMA ProduceStep ==
  ASSUME CoreInv, NEW j, ProduceObject(j) \/ ProduceNoObject(j)
  PROVE  (GoesOn(j) /\ LinksSame(j)) \/ UNCHANGED <<kind, handle, buildData, data, jobs>>
<1>1. j \in DOMAIN jobs /\ jobs[j].pc = "object"
  BY DEF ProduceObject, ProduceNoObject, At
<1>2. jobs[j].op \in {"build", "compile"} /\ Active(j)
  BY <1>1, KindOfStep DEF BuildPcs, Active
<1>3. CASE ProduceObject(j)
  <2>1. PICK pc \in BuildPcs : Goto(j, pc)
    BY <1>3 DEF ProduceObject, BuildPcs
  <2>2. UNCHANGED <<kind, handle, buildData, data>>
    BY <1>3 DEF ProduceObject
  <2> QED  BY <1>1, <1>2, <2>1, <2>2, UnchangedData, BuildMoves DEF CoreInv
<1>4. CASE ProduceNoObject(j)
  <2>1. CASE Fault("compiled_object")
    BY <2>1 DEF Fault
  <2>2. CASE Goto(j, "failed") /\ UNCHANGED <<kind, handle, buildData, data>>
    <3>1. "failed" \in BuildPcs
      BY DEF BuildPcs
    <3> QED  BY <1>1, <1>2, <2>2, <3>1, UnchangedData, BuildMoves DEF CoreInv
  <2> QED  BY <1>4, <2>1, <2>2 DEF ProduceNoObject
<1> QED  BY <1>3, <1>4

\* Linking a build writes its binary.
LEMMA LinkObjectStep ==
  ASSUME CoreInv, NEW j, LinkObject(j)
  PROVE  GoesOn(j) /\ LinksSame(j)
<1>1. j \in DOMAIN jobs /\ jobs[j].pc = "link" /\ TypeInv
  BY DEF LinkObject, At, CoreInv
<1>2. jobs[j].op \in {"build", "compile"} /\ Active(j)
  BY <1>1, KindOfStep DEF BuildPcs, Active
<1>3. UNCHANGED <<kind, handle, buildData>>
  BY DEF LinkObject
<1>4. CASE data' = [data EXCEPT ![jobs[j].data].object = TRUE] /\ Goto(j, "finish")
  <2>1. PICK x : x = jobs[j].data
    OBVIOUS
  <2>2. data' = [data EXCEPT ![x] = [data[x] EXCEPT !.object = TRUE]]
    BY <1>4, <2>1
  <2>3. x \in DOMAIN data => data[x] \in DataRecord
    BY <1>1, DataAre
  <2>4. x \in DOMAIN data =>
          /\ [data[x] EXCEPT !.object = TRUE] \in DataRecord
          /\ [data[x] EXCEPT !.object = TRUE].status = data[x].status
          /\ [data[x] EXCEPT !.object = TRUE].pendingLinks = data[x].pendingLinks
    BY <2>3 DEF DataRecord
  <2>5. DataStay /\ \A y \in DOMAIN data :
          data'[y] = IF y = x THEN [data[x] EXCEPT !.object = TRUE] ELSE data[y]
    <3>1. PICK v : v = [data[x] EXCEPT !.object = TRUE]
      OBVIOUS
    <3>2. x \in DOMAIN data => v \in DataRecord
      BY <2>4, <3>1
    <3>3. data' = [data EXCEPT ![x] = v]
      BY <2>2, <3>1
    <3> QED  BY <1>1, <3>1, <3>2, <3>3, DataUpdate
  <2>6. DataQuiet
    BY <2>4, <2>5 DEF DataQuiet, PendingSame
  <2>7. "finish" \in BuildPcs
    BY DEF BuildPcs
  <2> QED  BY <1>1, <1>2, <1>3, <1>4, <2>6, <2>7, BuildMoves
<1>5. CASE Goto(j, "failed") /\ UNCHANGED data
  <2>1. "failed" \in BuildPcs
    BY DEF BuildPcs
  <2> QED  BY <1>1, <1>2, <1>3, <1>5, <2>1, UnchangedData, BuildMoves
<1> QED  BY <1>4, <1>5 DEF LinkObject

\* Builds and compilations end with writing their own data.
LEMMA FinishStep ==
  ASSUME CoreInv, NEW j, FinishBuild(j) \/ FinishCompile(j) \/ FinishFailed(j)
  PROVE  GoesOn(j) /\ LinksSame(j)
<1>1. j \in DOMAIN jobs /\ jobs[j].pc \in BuildPcs /\ TypeInv
  BY DEF FinishBuild, FinishCompile, FinishFailed, At, CoreInv, BuildPcs
<1>2. jobs[j].op \in {"build", "compile"} /\ Building(j)
  BY <1>1, KindOfStep
<1>3. UNCHANGED <<kind, handle, buildData>> /\ Finish(j)
  BY DEF FinishBuild, FinishCompile, FinishFailed
<1>4. PICK x : x = jobs[j].data
  OBVIOUS
<1>5. \E v : /\ data' = [data EXCEPT ![x] = v]
             /\ x \in DOMAIN data => Written(v, data[x])
  <2>1. CASE FinishBuild(j)
    <3>1. PICK kernel \in KernelResults : data' = [data EXCEPT ![x] = Executable(data[x], kernel)]
      BY <1>4, <2>1 DEF FinishBuild
    <3> QED  BY <1>1, <3>1, DataAre, DataWritten
  <2>2. CASE FinishCompile(j)
    <3>1. data' = [data EXCEPT ![x] =
            [data[x] EXCEPT !.object = TRUE, !.type = "COMPILED_OBJECT", !.status = "SUCCESS"]]
      BY <1>4, <2>2 DEF FinishCompile
    <3>2. PICK v : v = [data[x] EXCEPT !.object = TRUE, !.type = "COMPILED_OBJECT", !.status = "SUCCESS"]
      OBVIOUS
    <3>3. x \in DOMAIN data => data[x] \in DataRecord
      BY <1>1, DataAre
    <3>4. x \in DOMAIN data => Written(v, data[x])
      BY <3>2, <3>3 DEF Written, DataRecord, Statuses, BinaryKinds
    <3> QED  BY <3>1, <3>2, <3>4
  <2>3. CASE FinishFailed(j)
    <3>1. data' = [data EXCEPT ![x] = Failed(data[x])]
      BY <1>4, <2>3 DEF FinishFailed
    <3> QED  BY <1>1, <3>1, DataAre, DataWritten
  <2> QED  BY <2>1, <2>2, <2>3
<1>6. PICK v : /\ data' = [data EXCEPT ![x] = v]
               /\ x \in DOMAIN data => Written(v, data[x])
  BY <1>5
<1>7. DataStay /\ \A y \in DOMAIN data : data'[y] = IF y = x THEN v ELSE data[y]
  BY <1>1, <1>6, DataUpdate DEF Written
<1>8. PendingSame
  BY <1>6, <1>7 DEF PendingSame, Written
<1>9. jobs'[j].pc = "done"
  BY <1>1, <1>3 DEF Finish, FinishedJob, Job
<1>10. StatusRule(j)
  BY <1>2, <1>4, <1>6, <1>7, <1>9 DEF StatusRule, Written
<1> QED  BY <1>1, <1>2, <1>3, <1>7, <1>8, <1>10, BuildEnds

\* A second build writes what the program has for its devices.
LEMMA RelinkStep ==
  ASSUME CoreInv, NEW j, Relink(j)
  PROVE  (GoesOn(j) /\ LinksSame(j)) \/ UNCHANGED <<kind, handle, buildData, data, jobs>>
<1> DEFINE p == jobs[j].prog
           D == jobs[j].devices
           x(d) == buildData[p][d]
<1>1. j \in DOMAIN jobs /\ jobs[j].pc = "relink" /\ TypeInv
  BY DEF Relink, At, CoreInv
<1>2. Building(j)
  BY <1>1, KindOfStep
<1>3. p \in Programs /\ D \subseteq Devices
  BY <1>1, JobsAre
<1>4. PICK broken \in SUBSET D, kernel \in [DataOf(p, D) -> KernelResults] :
        \/ Fault("owned_binary")
        \/ /\ data' = [y \in DOMAIN data |->
                IF \E e \in broken : y = x(e)
                THEN [Failed(data[y]) EXCEPT !.object = FALSE]
                ELSE IF \E d \in D : y = x(d)
                THEN Executable(data[y], KeptKernel(data[y], kernel[y]))
                ELSE data[y]]
           /\ Finish(j)
           /\ UNCHANGED <<kind, handle, buildData, kernels, numLiveKernels, fault>>
  BY DEF Relink
<1>5. CASE Fault("owned_binary")
  BY <1>5 DEF Fault
<1>6. CASE /\ data' = [y \in DOMAIN data |->
                IF \E e \in broken : y = x(e)
                THEN [Failed(data[y]) EXCEPT !.object = FALSE]
                ELSE IF \E d \in D : y = x(d)
                THEN Executable(data[y], KeptKernel(data[y], kernel[y]))
                ELSE data[y]]
           /\ Finish(j)
           /\ UNCHANGED <<kind, handle, buildData, kernels, numLiveKernels, fault>>
  <2>1. \A y \in DOMAIN data : data[y] \in DataRecord
    BY <1>1, DataAre
  <2>2. \A y \in DOMAIN data :
          /\ data'[y] \in DataRecord
          /\ data'[y].pendingLinks = data[y].pendingLinks
          /\ data'[y] # data[y] => data'[y].status # "IN_PROGRESS" /\ \E d \in D : y = x(d)
    <3> SUFFICES ASSUME NEW y \in DOMAIN data
                 PROVE  /\ data'[y] \in DataRecord
                        /\ data'[y].pendingLinks = data[y].pendingLinks
                        /\ data'[y] # data[y] => data'[y].status # "IN_PROGRESS" /\ \E d \in D : y = x(d)
      OBVIOUS
    <3>1. CASE \E e \in broken : y = x(e)
      <4>1. data'[y] = [Failed(data[y]) EXCEPT !.object = FALSE]
        BY <1>6, <3>1
      <4>2. PICK f \in DataRecord : f = Failed(data[y]) /\ Written(f, data[y])
        BY <2>1, DataWritten DEF Written
      <4>3. data'[y] \in DataRecord /\ data'[y].pendingLinks = f.pendingLinks /\ data'[y].status = f.status
        BY <4>1, <4>2 DEF DataRecord
      <4> QED  BY <3>1, <4>2, <4>3 DEF Written
    <3>2. CASE ~(\E e \in broken : y = x(e)) /\ \E d \in D : y = x(d)
      <4>1. data'[y] = Executable(data[y], KeptKernel(data[y], kernel[y]))
        BY <1>6, <3>2
      <4>2. y \in DataOf(p, D)
        <5>1. y # 0
          BY <1>1, DataAre
        <5> QED  BY <3>2, <5>1 DEF DataOf
      <4>3. kernel[y] \in KernelResults /\ data[y].kernel \in KernelResults
        BY <2>1, <4>2 DEF DataRecord
      <4>4. KeptKernel(data[y], kernel[y]) \in KernelResults
        BY <4>3 DEF KeptKernel
      <4> QED  BY <2>1, <3>2, <4>1, <4>4, DataWritten DEF Written
    <3>3. CASE ~(\E e \in broken : y = x(e)) /\ ~(\E d \in D : y = x(d))
      <4>1. data'[y] = data[y]
        BY <1>6, <3>3
      <4> QED  BY <2>1, <4>1
    <3> QED  BY <3>1, <3>2, <3>3
  <2>3. DataStay
    <3>1. DOMAIN data' = DOMAIN data
      BY <1>6
    <3>2. data' \in [DOMAIN data -> DataRecord]
      <4>1. data' = [y \in DOMAIN data |-> data'[y]]
        BY <1>6
      <4> QED  BY <2>2, <4>1
    <3> QED  BY <2>2, <3>1, <3>2 DEF DataStay
  <2>4. PendingSame
    BY <2>2 DEF PendingSame
  <2>5. jobs'[j].pc = "done"
    BY <1>1, <1>6 DEF Finish, FinishedJob, Job
  <2>6. StatusRule(j)
    <3> SUFFICES ASSUME NEW y \in DOMAIN data, data'[y].status # data[y].status
                 PROVE  data'[y].status # "IN_PROGRESS" /\ \E d \in jobs[j].devices : y = XOf(j, d)
      BY <1>2, <2>5 DEF StatusRule
    <3> QED  BY <2>2 DEF XOf
  <2> QED  BY <1>1, <1>2, <1>6, <2>3, <2>4, <2>6, BuildEnds
<1> QED  BY <1>4, <1>5, <1>6

-----------------------------------------------------------------------------
(* The steps of links.                                                     *)

\* A link goes on, with its inputs and devices as they are.
LEMMA LinkMoves ==
  ASSUME CoreInv, NEW j \in DOMAIN jobs, Linking(j), NEW pc, NEW pos, NEW s,
         WentOn(jobs[j], s, pc, pos), StepOf(s), jobs' = [jobs EXCEPT ![j] = s],
         pc \in LatePcs \/ (pc \in EarlyPcs /\ jobs[j].pc \in EarlyPcs),
         DataStay, StatusRule(j), kind' = kind, buildData' = buildData,
         handle' \in [Programs -> Handles], HandlesKept
  PROVE  GoesOn(j) /\ jobs'[j] = s
<1>1. TypeInv
  BY DEF CoreInv
<1>2. /\ jobs' \in Seq(JobRecord) /\ DOMAIN jobs' = DOMAIN jobs
      /\ jobs'[j] = s /\ \A i \in DOMAIN jobs : i # j => jobs'[i] = jobs[i]
  BY <1>1, JobUpdate DEF WentOn
<1>3. OneJob(j)
  BY <1>2 DEF OneJob, WentOn, Linking
<1>4. Kept
  <2>1. TypeInv'
    BY <1>1, <1>2, TypeStays
  <2> QED  BY <2>1 DEF Kept
<1>0. jobs'[j].pc \in EarlyPcs => jobs[j].pc \in EarlyPcs
  BY <1>2 DEF WentOn, EarlyPcs, LatePcs
<1>5. GoesOn(j)
  BY <1>0, <1>2, <1>3, <1>4 DEF GoesOn, DataStay, WentOn
<1> QED  BY <1>2, <1>5

\* When the data are left alone there is nothing to say of them.
LEMMA QuietRule ==
  ASSUME NEW j, DataQuiet
  PROVE  StatusRule(j) /\ PendingSame /\ DataStay
  BY DEF DataQuiet, StatusRule

\* Nothing is counted before "count", nor at its start.
LEMMA NothingCounted ==
  ASSUME NEW r \in JobRecord, r.pc = "validate" \/ (r.pc = "count" /\ r.pos = 0)
  PROVE  LinksIn(r) = {}
<1>1. CASE r.pc = "validate"
  BY <1>1 DEF LinksIn
<1>2. CASE r.pc = "count" /\ r.pos = 0
  <2>1. \A i \in DOMAIN r.inputs : i \in Nat \ {0}
    <3>1. r.inputs \in Seq(Programs)
      BY DEF JobRecord
    <3>2. DOMAIN r.inputs = 1 .. Len(r.inputs) /\ Len(r.inputs) \in Nat
      BY <3>1, LenProperties
    <3> QED  BY <3>2
  <2>2. \A u \in (DOMAIN r.inputs) \X Devices : ~(u[1] <= r.pos)
    BY <1>2, <2>1
  <2>3. r.pc \in {"count", "start"}
    BY <1>2
  <2> QED  BY <2>2, <2>3 DEF LinksIn
<1> QED  BY <1>1, <1>2

\* Validation counts nothing; a refused link is gone with its program.
LEMMA ValidateStep ==
  ASSUME CoreInv, NEW j, ValidateInput(j)
  PROVE  GoesOn(j) /\ LinksSame(j)
<1> DEFINE n     == Len(jobs[j].inputs)
           pos   == jobs[j].pos
           valid == IF pos % n = 0 THEN 0 ELSE jobs[j].valid
           x     == buildData[jobs[j].inputs[1 + (pos % n)]][AssociatedDevices[1 + (pos \div n)]]
           last  == pos = n * Len(AssociatedDevices) - 1
<1>0. /\ At(j, "validate")
      /\ IF Refused(x, valid)
         THEN /\ Finish(j)
              /\ handle' = [handle EXCEPT ![jobs[j].prog] = "gone"]
         ELSE /\ jobs' = [jobs EXCEPT ![j] = [jobs[j] EXCEPT
                   !.pc = IF last THEN "count" ELSE "validate",
                   !.pos = IF last THEN 0 ELSE pos + 1,
                   !.valid = IF x = 0 THEN valid ELSE valid + 1]]
              /\ UNCHANGED handle
      /\ UNCHANGED <<kind, buildData, data, kernels, numLiveKernels, fault>>
  BY Zenon DEF ValidateInput
<1>20. valid = 0 \/ valid = jobs[j].valid
  BY Zenon
<1> HIDE DEF x, valid, last
<1>1. j \in DOMAIN jobs /\ jobs[j].pc = "validate" /\ TypeInv
  BY <1>0 DEF At, CoreInv
<1>2. Linking(j) /\ jobs[j].op = "link"
  BY <1>1, KindOfStep DEF EarlyPcs
<1>3. kind' = kind /\ buildData' = buildData /\ data' = data
  BY <1>0
<1>4. DataQuiet /\ StatusRule(j) /\ PendingSame /\ DataStay
  BY <1>1, <1>3, UnchangedData, QuietRule
<1>5. PICK r \in JobRecord : r = jobs[j]
  BY <1>1, JobsAre
<1>6. LinksIn(jobs[j]) = {}
  BY <1>1, <1>5, NothingCounted
<1>7. CASE Refused(x, valid)
  <2>1. Finish(j) /\ handle' = [handle EXCEPT ![jobs[j].prog] = "gone"]
    BY <1>0, <1>7
  <2>2. handle' \in [Programs -> Handles] /\ HandlesKept
    BY <1>1, <2>1 DEF TypeInv, Handles, HandlesKept
  <2>3. GoesOn(j) /\ LinksIn(jobs'[j]) = {}
    BY <1>1, <1>2, <1>3, <1>4, <2>1, <2>2, JobEnds DEF Linking
  <2> QED  BY <1>4, <1>6, <2>3 DEF LinksSame
<1>8. CASE ~Refused(x, valid)
  <2>1. /\ jobs' = [jobs EXCEPT ![j] = [jobs[j] EXCEPT
             !.pc = IF last THEN "count" ELSE "validate",
             !.pos = IF last THEN 0 ELSE pos + 1,
             !.valid = IF x = 0 THEN valid ELSE valid + 1]]
        /\ handle' = handle
    BY <1>0, <1>8
  <2>2. PICK pc \in {"validate", "count"}, k \in Nat, v \in Nat :
          /\ jobs' = [jobs EXCEPT ![j] = Validated(r, pc, k, v)]
          /\ pc = "count" => k = 0
    <3>1. jobs[j].valid \in Nat /\ jobs[j].pos \in Nat
      BY <1>1, JobsAre
    <3>2. (IF x = 0 THEN valid ELSE valid + 1) \in Nat
      BY <1>20, <3>1
    <3>3. CASE last
      <4>1. jobs' = [jobs EXCEPT ![j] = Validated(r, "count", 0, IF x = 0 THEN valid ELSE valid + 1)]
        BY <1>5, <2>1, <3>3 DEF Validated
      <4> QED  BY <3>2, <4>1
    <3>4. CASE ~last
      <4>1. jobs' = [jobs EXCEPT ![j] = Validated(r, "validate", pos + 1, IF x = 0 THEN valid ELSE valid + 1)]
        BY <1>1, <1>5, <2>1, <3>4 DEF Validated
      <4>2. pos + 1 \in Nat
        BY <3>1
      <4> QED  BY <3>2, <4>1, <4>2
    <3> QED  BY <3>3, <3>4
  <2>3. pc \in Pcs /\ pc # "done"
    BY <2>2 DEF Pcs, EarlyPcs
  <2>4. PICK s : s = Validated(r, pc, k, v) /\ WentOn(r, s, pc, k)
    BY <2>3, ValidatedGoesOn
  <2>5. StepOf(s)
    <3>1. StepOf(r)
      BY <1>1, <1>5 DEF CoreInv, StepsInv
    <3>2. Len(r.inputs) > 0
      BY <1>1, <1>2, <1>5, <3>1 DEF StepOf
    <3>3. s.op = "link" /\ s.pc = pc /\ s.inputs = r.inputs /\ s.pos = k
      BY <1>2, <1>5, <2>4 DEF WentOn
    <3> QED  BY <2>2, <3>2, <3>3 DEF StepOf, EarlyPcs, LatePcs
  <2>6. handle' \in [Programs -> Handles] /\ HandlesKept
    BY <1>1, <2>1 DEF TypeInv, HandlesKept
  <2>7. jobs' = [jobs EXCEPT ![j] = s] /\ WentOn(jobs[j], s, pc, k)
    BY <1>5, <2>2, <2>4
  <2>10. pc \in EarlyPcs /\ jobs[j].pc \in EarlyPcs
    BY <1>1, <2>2 DEF EarlyPcs
  <2>8. GoesOn(j) /\ jobs'[j] = s
    BY <1>1, <1>2, <1>3, <1>4, <2>10, <2>3, <2>5, <2>6, <2>7, LinkMoves
  <2>9. LinksIn(s) = {}
    BY <2>2, <2>4, NothingCounted DEF WentOn
  <2> QED  BY <1>4, <1>6, <2>8, <2>9 DEF LinksSame
<1> QED  BY <1>7, <1>8

\* Gathering the binaries changes nothing else.
LEMMA GatherStep ==
  ASSUME CoreInv, NEW j, GatherObjects(j)
  PROVE  GoesOn(j) /\ LinksSame(j)
<1>1. j \in DOMAIN jobs /\ jobs[j].pc = "gather" /\ TypeInv
  BY DEF GatherObjects, At, CoreInv
<1>2. Linking(j) /\ jobs[j].op = "link"
  BY <1>1, KindOfStep DEF LatePcs
<1>3. UNCHANGED <<kind, handle, buildData, data>>
  BY DEF GatherObjects
<1>4. DataQuiet /\ StatusRule(j) /\ PendingSame /\ DataStay
  BY <1>1, <1>3, UnchangedData, QuietRule
<1>5. PICK r \in JobRecord : r = jobs[j]
  BY <1>1, JobsAre
<1>6. PICK b \in BOOLEAN : jobs' = [jobs EXCEPT ![j] = Gathered(r, b)]
  <2> DEFINE d == AssociatedDevices[jobs[j].pos]
             found == {buildData[jobs[j].inputs[i]][d] : i \in DOMAIN jobs[j].inputs} \ {0}
             missing == \E x \in found : ~data[x].object
  <2>1. jobs' = [jobs EXCEPT ![j] = [jobs[j] EXCEPT !.pc = "link_inputs", !.nullObject = missing]]
    BY Zenon DEF GatherObjects
  <2>2. missing \in BOOLEAN
    OBVIOUS
  <2> HIDE DEF missing
  <2>3. PICK b \in BOOLEAN : b = missing
    BY <2>2
  <2>4. jobs' = [jobs EXCEPT ![j] = [r EXCEPT !.pc = "link_inputs", !.nullObject = b]]
    BY <1>5, <2>1, <2>3
  <2>5. jobs' = [jobs EXCEPT ![j] = Gathered(r, b)]
    BY <2>4 DEF Gathered
  <2> QED  BY <2>5
<1>7. PICK s : s = Gathered(r, b) /\ WentOn(r, s, "link_inputs", r.pos)
  BY GatheredGoesOn
<1>8. StepOf(s)
  <2>1. StepOf(r)
    BY <1>1, <1>5 DEF CoreInv, StepsInv
  <2> QED  BY <1>1, <1>2, <1>5, <1>7, <2>1 DEF StepOf, WentOn, EarlyPcs, LatePcs
<1>9. handle' \in [Programs -> Handles] /\ HandlesKept
  BY <1>1, <1>3 DEF TypeInv, HandlesKept
<1>10. jobs' = [jobs EXCEPT ![j] = s] /\ WentOn(jobs[j], s, "link_inputs", jobs[j].pos)
  BY <1>5, <1>6, <1>7
<1>0. "link_inputs" \in LatePcs
  BY DEF LatePcs
<1>11. GoesOn(j) /\ jobs'[j] = s
  BY <1>0, <1>1, <1>2, <1>3, <1>4, <1>8, <1>9, <1>10, LinkMoves
<1>12. LinksIn(s) = LinksIn(r) /\ s.inputs = r.inputs
  BY <1>1, <1>5, <1>7 DEF LinksIn, WentOn
<1> QED  BY <1>4, <1>5, <1>11, <1>12 DEF LinksSame

\* The link of one device writes what the program has for it.
LEMMA LinkInputsStep ==
  ASSUME CoreInv, NEW j, LinkInputs(j)
  PROVE  (GoesOn(j) /\ LinksSame(j)) \/ UNCHANGED <<kind, handle, buildData, data, jobs>>
<1> DEFINE y == buildData[jobs[j].prog][AssociatedDevices[jobs[j].pos]]
           lib == [data[y] EXCEPT !.object = TRUE, !.type = "LIBRARY", !.status = "SUCCESS"]
<1>0. /\ At(j, "link_inputs")
      /\ IF data[y].status # "IN_PROGRESS"
         THEN UNCHANGED data /\ Goto(j, "release") /\ UNCHANGED fault
         ELSE IF jobs[j].nullObject
         THEN UNCHANGED <<data, jobs>> /\ fault' = "object_of_an_input"
         ELSE /\ \/ \E kernel \in KernelResults :
                      data' = [data EXCEPT ![y] =
                        IF jobs[j].library THEN lib ELSE Executable(data[y], kernel)]
                 \/ data' = [data EXCEPT ![y] = Failed(data[y])]
              /\ Goto(j, "release")
              /\ UNCHANGED fault
      /\ UNCHANGED <<kind, handle, buildData, kernels, numLiveKernels>>
  BY Zenon DEF LinkInputs
<1> HIDE DEF lib, y
<1>1. j \in DOMAIN jobs /\ jobs[j].pc = "link_inputs" /\ TypeInv
  BY <1>0 DEF At, CoreInv
<1>2. Linking(j) /\ jobs[j].op = "link"
  BY <1>1, KindOfStep DEF LatePcs
<1>3. UNCHANGED <<kind, handle, buildData>>
  BY <1>0
<1>4. PICK r \in JobRecord : r = jobs[j]
  BY <1>1, JobsAre
<1>5. PICK d : d = AssociatedDevices[r.pos]
  OBVIOUS
<1>6. StepOf(r)
  BY <1>1, <1>4 DEF CoreInv, StepsInv
<1>7. d \in Devices
  <2>1. r.pos \in 1 .. Len(AssociatedDevices)
    BY <1>1, <1>2, <1>4, <1>6 DEF StepOf, LatePcs
  <2> QED  BY <1>5, <2>1, Positions
<1>8. PICK x : x = buildData[r.prog][d] /\ x = y
  BY <1>4, <1>5 DEF y
<1>9. PICK s : s = JobAt(r, "release") /\ WentOn(r, s, "release", r.pos)
  <2>1. "release" \in Pcs
    BY DEF Pcs, LatePcs
  <2> QED  BY <2>1, JobAtGoesOn
<1>10. StepOf(s)
  BY <1>1, <1>2, <1>4, <1>6, <1>9 DEF StepOf, WentOn, EarlyPcs, LatePcs
<1>11. handle' \in [Programs -> Handles] /\ HandlesKept
  BY <1>1, <1>3 DEF TypeInv, HandlesKept
<1>12. ASSUME Goto(j, "release"), StatusRule(j), PendingSame, DataStay
       PROVE  GoesOn(j) /\ LinksSame(j)
  <2>0. "release" \in LatePcs
    BY DEF LatePcs
  <2>1. jobs' = [jobs EXCEPT ![j] = s]
    BY <1>4, <1>9, <1>12 DEF Goto, JobAt
  <2>2. WentOn(jobs[j], s, "release", jobs[j].pos)
    BY <1>4, <1>9
  <2>3. GoesOn(j) /\ jobs'[j] = s
    BY <1>1, <1>2, <1>3, <1>10, <1>11, <1>12, <2>1, <2>2, <2>0, LinkMoves
  <2>4. LinksIn(s) = LinksIn(r) /\ s.inputs = r.inputs
    BY <1>1, <1>4, <1>9 DEF LinksIn, WentOn
  <2> QED  BY <1>4, <1>12, <2>3, <2>4 DEF LinksSame
<1>13. CASE UNCHANGED data /\ Goto(j, "release")
  <2>1. StatusRule(j) /\ PendingSame /\ DataStay
    BY <1>1, <1>13, UnchangedData, QuietRule
  <2> QED  BY <1>12, <1>13, <2>1
<1>14. CASE UNCHANGED <<data, jobs>>
  BY <1>3, <1>14
<1>15. CASE (\E v : /\ data' = [data EXCEPT ![x] = v]
                    /\ x \in DOMAIN data => Written(v, data[x]))
            /\ Goto(j, "release")
  <2>1. PICK v : /\ data' = [data EXCEPT ![x] = v]
                 /\ x \in DOMAIN data => Written(v, data[x])
    BY <1>15
  <2>2. DataStay /\ \A w \in DOMAIN data : data'[w] = IF w = x THEN v ELSE data[w]
    BY <1>1, <2>1, DataUpdate DEF Written
  <2>3. PendingSame
    BY <2>1, <2>2 DEF PendingSame, Written
  <2>4. StatusRule(j)
    BY <1>2, <1>4, <1>7, <1>8, <2>1, <2>2 DEF StatusRule, XOf, Written
  <2> QED  BY <1>12, <1>15, <2>2, <2>3, <2>4
<1>16. PICK library : library = lib
  OBVIOUS
<1>17. x \in DOMAIN data =>
         /\ data[x] \in DataRecord
         /\ Written(library, data[x])
  <2> SUFFICES ASSUME x \in DOMAIN data
               PROVE  /\ data[x] \in DataRecord
                      /\ Written(library, data[x])
    OBVIOUS
  <2>1. PICK z \in DataRecord : z = data[x]
    BY <1>1, DataAre
  <2>2. library = [z EXCEPT !.object = TRUE, !.type = "LIBRARY", !.status = "SUCCESS"]
    BY <1>8, <1>16, <2>1 DEF lib
  <2>3. Written(library, z)
    BY <2>2 DEF Written, DataRecord, Statuses, BinaryKinds
  <2> QED  BY <2>1, <2>3
<1>18. \/ UNCHANGED data /\ Goto(j, "release")
       \/ UNCHANGED <<data, jobs>>
       \/ /\ \/ \E kernel \in KernelResults :
                  data' = [data EXCEPT ![x] =
                    IF jobs[j].library THEN library ELSE Executable(data[x], kernel)]
             \/ data' = [data EXCEPT ![x] = Failed(data[x])]
          /\ Goto(j, "release")
  BY <1>0, <1>8, <1>16
<1>19. CASE (\E kernel \in KernelResults :
               data' = [data EXCEPT ![x] =
                 IF jobs[j].library THEN library ELSE Executable(data[x], kernel)]) /\ Goto(j, "release")
  <2>1. PICK kernel \in KernelResults :
          data' = [data EXCEPT ![x] = IF jobs[j].library THEN library ELSE Executable(data[x], kernel)]
    BY <1>19
  <2>2. x \in DOMAIN data =>
          Written(Executable(data[x], kernel), data[x])
    BY <1>17, DataWritten
  <2>3. CASE jobs[j].library
    <3>1. data' = [data EXCEPT ![x] = library]
      BY <2>1, <2>3
    <3> QED  BY <1>15, <1>17, <1>19, <3>1
  <2>4. CASE ~jobs[j].library
    <3>1. data' = [data EXCEPT ![x] = Executable(data[x], kernel)]
      BY <2>1, <2>4
    <3> QED  BY <1>15, <1>19, <2>2, <3>1
  <2> QED  BY <2>3, <2>4
<1>20. CASE data' = [data EXCEPT ![x] = Failed(data[x])] /\ Goto(j, "release")
  <2>1. x \in DOMAIN data => Written(Failed(data[x]), data[x])
    BY <1>17, DataWritten
  <2> QED  BY <1>15, <1>20, <2>1
<1> QED  BY <1>13, <1>14, <1>18, <1>19, <1>20

\* What is counted when an input joins LinkPrograms.
CountRule(j) ==
  \E i \in DOMAIN jobs[j].inputs :
    /\ LinksIn(jobs'[j]) = LinksIn(jobs[j]) \cup ({i} \X Devices)
    /\ \A u \in LinksIn(jobs[j]) : u[1] # i
    /\ jobs'[j].inputs = jobs[j].inputs
    /\ \A d \in Devices : buildData[jobs[j].inputs[i]][d] # 0
    /\ \A x \in DOMAIN data : data'[x].pendingLinks =
         data[x].pendingLinks + Cardinality({d \in Devices : buildData[jobs[j].inputs[i]][d] = x})

\* One input is counted for every device.
LEMMA CountStep ==
  ASSUME CoreInv, NEW j, CountPendingLinks(j)
  PROVE  (GoesOn(j) /\ CountRule(j)) \/ UNCHANGED <<kind, handle, buildData, data, jobs>>
<1>1. j \in DOMAIN jobs /\ jobs[j].pc = "count" /\ TypeInv
  BY DEF CountPendingLinks, At, CoreInv
<1>2. Linking(j) /\ jobs[j].op = "link"
  BY <1>1, KindOfStep DEF EarlyPcs
<1>3. PICK r \in JobRecord : r = jobs[j]
  BY <1>1, JobsAre
<1>4. PICK i : i = r.pos + 1
  OBVIOUS
<1>5. r.pos \in Nat /\ DOMAIN r.inputs = 1 .. Len(r.inputs) /\ Len(r.inputs) \in Nat
  <2>1. r.pos \in Nat /\ r.inputs \in Seq(Programs)
    BY DEF JobRecord
  <2> QED  BY <2>1, LenProperties
<1>6. StepOf(r) /\ r.pos < Len(r.inputs)
  BY <1>1, <1>2, <1>3 DEF CoreInv, StepsInv, StepOf
<1>7. i \in DOMAIN r.inputs /\ i \in Nat
  BY <1>4, <1>5, <1>6
<1>8. PICK input : input = r.inputs[i]
  OBVIOUS
<1>9. CASE \E d \in Devices : buildData[input][d] = 0
  BY <1>3, <1>4, <1>8, <1>9 DEF CountPendingLinks, Fault
<1>10. CASE ~(\E d \in Devices : buildData[input][d] = 0)
  <2>1. /\ data' = AddPendingLinks(input)
        /\ jobs' = [jobs EXCEPT ![j] = [jobs[j] EXCEPT
             !.pos = i, !.same = SameForAllDevices(input),
             !.pc = IF SameForAllDevices(input) /\ i < Len(jobs[j].inputs) THEN "count" ELSE "start"]]
        /\ UNCHANGED <<kind, handle, buildData>>
    BY <1>3, <1>4, <1>8, <1>10 DEF CountPendingLinks
  <2>2. PICK same \in BOOLEAN : same = SameForAllDevices(input)
    BY DEF SameForAllDevices
  <2>3. PICK pc \in {"count", "start"} :
          /\ pc = IF same /\ i < Len(r.inputs) THEN "count" ELSE "start"
    OBVIOUS
  <2>4. jobs' = [jobs EXCEPT ![j] = Counted(r, i, same, pc)]
    BY <1>3, <2>1, <2>2, <2>3 DEF Counted
  <2>5. PICK s : s = Counted(r, i, same, pc) /\ WentOn(r, s, pc, i)
    <3>1. pc \in Pcs
      BY DEF Pcs, EarlyPcs
    <3> QED  BY <1>7, <3>1, CountedGoesOn
  <2>6. StepOf(s)
    <3>1. s.pc = pc /\ s.pos = i /\ s.inputs = r.inputs /\ s.op = "link"
      BY <1>2, <1>3, <2>5 DEF WentOn
    <3>2. pc = "count" => i < Len(r.inputs)
      BY <2>3
    <3> QED  BY <1>5, <1>7, <3>1, <3>2 DEF StepOf, EarlyPcs, LatePcs
  <2>7. \A x \in DOMAIN data :
          /\ data'[x] \in DataRecord
          /\ data'[x].status = data[x].status
          /\ data'[x].pendingLinks =
               data[x].pendingLinks + Cardinality({d \in Devices : buildData[input][d] = x})
    <3> SUFFICES ASSUME NEW x \in DOMAIN data
                 PROVE  /\ data'[x] \in DataRecord
                        /\ data'[x].status = data[x].status
                        /\ data'[x].pendingLinks =
                             data[x].pendingLinks + Cardinality({d \in Devices : buildData[input][d] = x})
      OBVIOUS
    <3>1. PICK n \in Nat : n = Cardinality({d \in Devices : buildData[input][d] = x})
      BY SizeOfDevices
    <3>2. data'[x] = [data[x] EXCEPT !.pendingLinks = data[x].pendingLinks + n]
      BY <2>1, <3>1 DEF AddPendingLinks
    <3>3. data[x] \in DataRecord
      BY <1>1, DataAre
    <3> QED  BY <3>1, <3>2, <3>3 DEF DataRecord
  <2>8. DataStay
    <3>1. DOMAIN data' = DOMAIN data
      BY <2>1 DEF AddPendingLinks
    <3>2. data' = [x \in DOMAIN data |-> data'[x]]
      BY <2>1 DEF AddPendingLinks
    <3>3. data' \in [DOMAIN data -> DataRecord]
      BY <2>7, <3>2
    <3> QED  BY <2>7, <3>1, <3>3 DEF DataStay
  <2>9. StatusRule(j)
    BY <2>7 DEF StatusRule
  <2>10. handle' \in [Programs -> Handles] /\ HandlesKept
    BY <1>1, <2>1 DEF TypeInv, HandlesKept
  <2>11. GoesOn(j) /\ jobs'[j] = s
    <3>1. jobs' = [jobs EXCEPT ![j] = s] /\ WentOn(jobs[j], s, pc, i)
      BY <1>3, <2>4, <2>5
    <3>2. pc \in EarlyPcs /\ jobs[j].pc \in EarlyPcs
      BY <1>1, <2>3 DEF EarlyPcs
    <3> QED  BY <1>1, <1>2, <2>1, <2>3, <2>6, <2>8, <2>9, <2>10, <3>1, <3>2, LinkMoves
  <2>12. /\ LinksIn(r) = {u \in (DOMAIN r.inputs) \X Devices : u[1] <= r.pos}
         /\ LinksIn(s) = {u \in (DOMAIN r.inputs) \X Devices : u[1] <= i}
    BY <1>1, <1>2, <1>3, <2>3, <2>5 DEF LinksIn, WentOn
  <2>13. \A u \in (DOMAIN r.inputs) \X Devices :
           /\ u[1] <= i <=> u[1] <= r.pos \/ u[1] = i
           /\ u[1] <= r.pos => u[1] # i
    BY <1>4, <1>5
  <2>14. LinksIn(s) = LinksIn(r) \cup ({i} \X Devices) /\ \A u \in LinksIn(r) : u[1] # i
    BY <1>7, <2>12, <2>13
  <2>15. s.inputs = r.inputs
    BY <2>5 DEF WentOn
  <2>16. CountRule(j)
    BY <1>3, <1>7, <1>8, <1>10, <2>7, <2>11, <2>14, <2>15 DEF CountRule
  <2> QED  BY <2>11, <2>16
<1> QED  BY <1>9, <1>10

\* What is released when a device of a link is through.
ReleaseRule(j) ==
  \E d \in Devices :
    /\ LinksIn(jobs[j]) = LinksIn(jobs'[j]) \cup ((DOMAIN jobs[j].inputs) \X {d})
    /\ \A u \in LinksIn(jobs'[j]) : u[2] # d /\ jobs'[j].inputs[u[1]] = jobs[j].inputs[u[1]]
    /\ \A x \in DOMAIN data : data'[x].pendingLinks =
         data[x].pendingLinks - Cardinality({i \in DOMAIN jobs[j].inputs : buildData[jobs[j].inputs[i]][d] = x})

\* The pending links of one device are released.
LEMMA ReleaseStep ==
  ASSUME CoreInv, NEW j, ReleasePendingLinks(j)
  PROVE  GoesOn(j) /\ ReleaseRule(j)
<1> DEFINE last == jobs[j].pos = Len(AssociatedDevices)
           ok   == \A y \in DataOf(jobs[j].prog, Devices) : data[y].status = "SUCCESS"
<1>1. j \in DOMAIN jobs /\ jobs[j].pc = "release" /\ TypeInv
  BY DEF ReleasePendingLinks, At, CoreInv
<1>2. Linking(j) /\ jobs[j].op = "link"
  BY <1>1, KindOfStep DEF LatePcs
<1>3. PICK r \in JobRecord : r = jobs[j]
  BY <1>1, JobsAre
<1>4. StepOf(r) /\ r.pos \in 1 .. Len(AssociatedDevices) /\ r.devices = Devices
  <2>1. StepOf(r)
    BY <1>1, <1>3 DEF CoreInv, StepsInv
  <2> QED  BY <1>1, <1>2, <1>3, <2>1 DEF StepOf, LatePcs
<1>5. PICK d \in Devices : d = AssociatedDevices[r.pos] /\ Position(d) = r.pos
  BY <1>4, Positions
<1>6. /\ data' = [x \in DOMAIN data |-> [data[x] EXCEPT !.pendingLinks = data[x].pendingLinks -
           Cardinality({i \in DOMAIN r.inputs : buildData[r.inputs[i]][d] = x})]]
      /\ IF last THEN Finish(j)
         ELSE jobs' = [jobs EXCEPT ![j] = NextDevice(r, r.pos + 1)]
      /\ handle' = [handle EXCEPT ![r.prog] =
           IF last /\ ~jobs[j].async THEN IF ok THEN "open" ELSE "gone" ELSE handle[r.prog]]
      /\ UNCHANGED <<kind, buildData>>
  BY <1>3, <1>5 DEF ReleasePendingLinks, NextDevice
<1>7. DOMAIN r.inputs = 1 .. Len(r.inputs) /\ Len(r.inputs) \in Nat
  <2>1. r.inputs \in Seq(Programs)
    BY DEF JobRecord
  <2> QED  BY <2>1, LenProperties
<1>8. \A x \in DOMAIN data :
        /\ data'[x] \in DataRecord
        /\ data'[x].status = data[x].status
        /\ data'[x].pendingLinks = data[x].pendingLinks -
             Cardinality({i \in DOMAIN r.inputs : buildData[r.inputs[i]][d] = x})
  <2> SUFFICES ASSUME NEW x \in DOMAIN data
               PROVE  /\ data'[x] \in DataRecord
                      /\ data'[x].status = data[x].status
                      /\ data'[x].pendingLinks = data[x].pendingLinks -
                           Cardinality({i \in DOMAIN r.inputs : buildData[r.inputs[i]][d] = x})
    OBVIOUS
  <2>1. PICK n \in Nat : n = Cardinality({i \in DOMAIN r.inputs : buildData[r.inputs[i]][d] = x})
    <3>1. IsFiniteSet(DOMAIN r.inputs)
      BY <1>7, FS_Interval
    <3>2. IsFiniteSet({i \in DOMAIN r.inputs : buildData[r.inputs[i]][d] = x})
      BY <3>1, FS_Subset
    <3> QED  BY <3>2, FS_CardinalityType
  <2>2. data'[x] = [data[x] EXCEPT !.pendingLinks = data[x].pendingLinks - n]
    BY <1>6, <2>1
  <2>3. data[x] \in DataRecord
    BY <1>1, DataAre
  <2> QED  BY <2>1, <2>2, <2>3 DEF DataRecord
<1>9. DataStay
  <2>1. DOMAIN data' = DOMAIN data
    BY <1>6
  <2>2. data' = [x \in DOMAIN data |-> data'[x]]
    BY <1>6
  <2>3. data' \in [DOMAIN data -> DataRecord]
    BY <1>8, <2>2
  <2> QED  BY <1>8, <2>1, <2>3 DEF DataStay
<1>10. StatusRule(j)
  BY <1>8 DEF StatusRule
<1>11. handle' \in [Programs -> Handles] /\ HandlesKept
  <2> HIDE DEF last, ok
  <2> QED  BY <1>1, <1>6 DEF TypeInv, Handles, HandlesKept
<1>12. LinksIn(r) = {u \in (DOMAIN r.inputs) \X Devices : Position(u[2]) >= r.pos}
  BY <1>1, <1>2, <1>3 DEF LinksIn
<1>13. \A e \in Devices : Position(e) \in 1 .. Len(AssociatedDevices) /\ (Position(e) = r.pos => e = d)
  BY <1>5, Positions
<1>14. GoesOn(j) /\ LinksIn(r) = LinksIn(jobs'[j]) \cup ((DOMAIN r.inputs) \X {d})
       /\ \A u \in LinksIn(jobs'[j]) : u[2] # d /\ jobs'[j].inputs[u[1]] = r.inputs[u[1]]
  <2>1. CASE last
    <3>1. GoesOn(j) /\ LinksIn(jobs'[j]) = {}
      BY <1>1, <1>2, <1>6, <1>9, <1>10, <1>11, <2>1, JobEnds DEF Linking
    <3>2. \A e \in Devices : Position(e) >= r.pos <=> e = d
      BY <1>3, <1>4, <1>5, <1>13, <2>1, SomeDevices
    <3>3. LinksIn(r) = (DOMAIN r.inputs) \X {d}
      BY <1>12, <3>2
    <3> QED  BY <3>1, <3>3
  <2>2. CASE ~last
    <3>1. r.pos + 1 \in 1 .. Len(AssociatedDevices)
      BY <1>3, <1>4, <2>2, SomeDevices
    <3>2. PICK k \in Nat : k = r.pos + 1
      BY <3>1
    <3>3. PICK s : s = NextDevice(r, k) /\ WentOn(r, s, "gather", k)
      BY NextDeviceGoesOn
    <3>4. StepOf(s)
      <4>1. s.op = "link" /\ s.pc = "gather" /\ s.pos = k /\ s.devices = Devices
        BY <1>2, <1>3, <1>4, <3>3 DEF WentOn
      <4> QED  BY <3>1, <3>2, <4>1 DEF StepOf, EarlyPcs, LatePcs
    <3>5. jobs' = [jobs EXCEPT ![j] = s] /\ WentOn(jobs[j], s, "gather", k)
      BY <1>3, <1>6, <2>2, <3>2, <3>3
    <3>0. "gather" \in LatePcs
      BY DEF LatePcs
    <3>6. GoesOn(j) /\ jobs'[j] = s
      BY <1>1, <1>2, <1>6, <1>9, <1>10, <1>11, <3>0, <3>4, <3>5, LinkMoves
    <3>7. s.inputs = r.inputs /\ LinksIn(s) = {u \in (DOMAIN r.inputs) \X Devices : Position(u[2]) >= k}
      BY <1>2, <1>3, <3>3 DEF LinksIn, WentOn
    <3>8. \A e \in Devices : (Position(e) >= r.pos <=> Position(e) >= k \/ e = d) /\ (Position(e) >= k => e # d)
      BY <1>4, <1>5, <1>13, <3>2, SomeDevices
    <3>9. LinksIn(r) = LinksIn(s) \cup ((DOMAIN r.inputs) \X {d}) /\ \A u \in LinksIn(s) : u[2] # d
      BY <1>5, <1>12, <3>7, <3>8
    <3> QED  BY <3>6, <3>7, <3>9
  <2> QED  BY <2>1, <2>2
<1> QED  BY <1>3, <1>8, <1>14 DEF ReleaseRule

\* Program p gets new data for the devices D.
NewDataFor(p, D) ==
  /\ DOMAIN data \subseteq DOMAIN data'
  /\ \A x \in DOMAIN data : data'[x] = data[x]
  /\ \A x \in (DOMAIN data') \ DOMAIN data : data'[x] = PerDeviceData
  /\ \A q \in Programs, d \in Devices :
       IF q = p /\ d \in D THEN buildData'[q][d] \in (DOMAIN data') \ DOMAIN data
       ELSE buildData'[q][d] = buildData[q][d]

\* LinkPrograms begins.
StartRule(j) ==
  /\ OneJob(j) /\ Kept
  /\ jobs[j].pc = "start" /\ jobs[j].op = "link" /\ jobs'[j].op = "link" /\ jobs'[j].pc = "gather"
  /\ LinksIn(jobs'[j]) = LinksIn(jobs[j])
  /\ \A u \in LinksIn(jobs[j]) : jobs'[j].inputs[u[1]] = jobs[j].inputs[u[1]]
  /\ NewDataFor(jobs[j].prog, Devices)

\* New data at the end of the old.
LEMMA DataAppended ==
  ASSUME TypeInv, NEW n \in Nat, NEW s, s = [i \in 1 .. n |-> PerDeviceData], data' = data \o s
  PROVE  /\ data' \in Seq(DataRecord) /\ Len(data') = Len(data) + n
         /\ DOMAIN data \subseteq DOMAIN data'
         /\ \A x \in DOMAIN data : data'[x] = data[x]
         /\ \A x \in (DOMAIN data') \ DOMAIN data : data'[x] = PerDeviceData
         /\ \A x : x \in (DOMAIN data') \ DOMAIN data <=> x \in Len(data) + 1 .. Len(data) + n
<1>1. data \in Seq(DataRecord) /\ Len(data) \in Nat /\ DOMAIN data = 1 .. Len(data)
  BY DataAre DEF TypeInv
<1>2. s \in [1 .. n -> DataRecord]
  BY NewData
<1>3. s \in Seq(DataRecord) /\ Len(s) = n
  BY <1>2, FunctionIsSeq
<1>4. data' \in Seq(DataRecord) /\ Len(data') = Len(data) + n
  BY <1>1, <1>3, ConcatProperties
<1>5. DOMAIN data' = 1 .. Len(data) + n
  BY <1>4, LenProperties
<1>6. \A x \in 1 .. Len(data) + n : data'[x] = IF x <= Len(data) THEN data[x] ELSE s[x - Len(data)]
  BY <1>1, <1>3, ConcatProperties
<1>7. \A x \in DOMAIN data : data'[x] = data[x]
  BY <1>1, <1>6
<1>8. \A x : x \in (DOMAIN data') \ DOMAIN data <=> x \in Len(data) + 1 .. Len(data) + n
  BY <1>1, <1>5
<1>9. \A x \in (DOMAIN data') \ DOMAIN data : data'[x] = PerDeviceData
  <2> SUFFICES ASSUME NEW x \in Len(data) + 1 .. Len(data) + n
               PROVE  data'[x] = PerDeviceData
    BY <1>8
  <2>1. data'[x] = s[x - Len(data)] /\ x - Len(data) \in 1 .. n
    BY <1>1, <1>6
  <2> QED  BY <2>1
<1> QED  BY <1>1, <1>4, <1>5, <1>7, <1>8, <1>9

\* A program's new build data fit the new data.
LEMMA NewDataTyped ==
  ASSUME TypeInv, NEW p \in Programs, NEW f, f \in [Devices -> 0 .. Len(data')],
         buildData' = [buildData EXCEPT ![p] = f], Len(data') \in Nat, Len(data) <= Len(data')
  PROVE  /\ buildData' \in [Programs -> [Devices -> 0 .. Len(data')]]
         /\ \A q \in Programs, d \in Devices :
              buildData'[q][d] = IF q = p THEN f[d] ELSE buildData[q][d]
<1>1. Len(data) \in Nat /\ buildData \in [Programs -> [Devices -> 0 .. Len(data)]]
  BY DataAre DEF TypeInv
<1>2. [Devices -> 0 .. Len(data)] \subseteq [Devices -> 0 .. Len(data')]
  <2>1. 0 .. Len(data) \subseteq 0 .. Len(data')
    BY <1>1
  <2> QED  BY <2>1
<1> QED  BY <1>1, <1>2

\* What StartLink writes into its job.
Started(r) == [r EXCEPT !.pc = "gather", !.devices = Devices,
                        !.inputs = SubSeq(r.inputs, 1, r.pos), !.pos = 1]

LEMMA StartedJob ==
  ASSUME NEW r \in JobRecord, r.op = "link", r.pc = "start", StepOf(r)
  PROVE  /\ Started(r) \in JobRecord /\ StepOf(Started(r))
         /\ Started(r).op = "link" /\ Started(r).prog = r.prog /\ Started(r).pc = "gather"
         /\ LinksIn(Started(r)) = LinksIn(r)
         /\ \A u \in LinksIn(r) : Started(r).inputs[u[1]] = r.inputs[u[1]]
<1>1. r.inputs \in Seq(Programs) /\ r.pos \in 1 .. Len(r.inputs)
  BY DEF JobRecord, StepOf
<1>2. DOMAIN r.inputs = 1 .. Len(r.inputs) /\ Len(r.inputs) \in Nat
      /\ \A i \in 1 .. Len(r.inputs) : r.inputs[i] \in Programs
  BY <1>1, LenProperties, ElementOfSeq
<1>3. PICK t : t = SubSeq(r.inputs, 1, r.pos)
  OBVIOUS
<1>4. t \in Seq(Programs) /\ Len(t) = r.pos
  <2>1. \A i \in 1 .. r.pos : r.inputs[i] \in Programs
    BY <1>1, <1>2
  <2> QED  BY <1>1, <1>3, <2>1, SubSeqProperties
<1>5. DOMAIN t = 1 .. r.pos
  BY <1>4, LenProperties
<1>6. \A i \in 1 .. r.pos : t[i] = r.inputs[i]
  BY <1>1, <1>3
<1>7. PICK s : s = [r EXCEPT !.pc = "gather", !.devices = Devices, !.inputs = t, !.pos = 1]
  OBVIOUS
<1>8. s = Started(r)
  BY <1>3, <1>7 DEF Started
<1>9. s \in JobRecord /\ s.op = r.op /\ s.prog = r.prog /\ s.pc = "gather"
      /\ s.devices = Devices /\ s.inputs = t /\ s.pos = 1
  BY <1>4, <1>7 DEF JobRecord, Pcs, LatePcs
<1>10. StepOf(s)
  BY <1>9, SomeDevices DEF StepOf, LatePcs, EarlyPcs
<1>11. LinksIn(r) = {u \in (DOMAIN r.inputs) \X Devices : u[1] <= r.pos}
  BY DEF LinksIn
<1>12. LinksIn(s) = {u \in (1 .. r.pos) \X Devices : Position(u[2]) >= 1}
  BY <1>5, <1>9 DEF LinksIn
<1>13. LinksIn(s) = LinksIn(r)
  <2>1. \A d \in Devices : Position(d) >= 1
    BY Positions
  <2>2. \A i : i \in 1 .. r.pos <=> i \in DOMAIN r.inputs /\ i <= r.pos
    BY <1>1, <1>2
  <2> QED  BY <1>11, <1>12, <2>1, <2>2
<1>14. \A u \in LinksIn(r) : s.inputs[u[1]] = r.inputs[u[1]]
  BY <1>1, <1>2, <1>6, <1>9, <1>11
<1> QED  BY <1>8, <1>9, <1>10, <1>13, <1>14

\* LinkPrograms gives its program new data and keeps what is counted.
LEMMA StartStep ==
  ASSUME CoreInv, NEW j, StartLink(j)
  PROVE  StartRule(j)
<1>1. j \in DOMAIN jobs /\ jobs[j].pc = "start" /\ TypeInv
  BY DEF StartLink, At, CoreInv
<1>2. Linking(j) /\ jobs[j].op = "link"
  BY <1>1, KindOfStep DEF EarlyPcs
<1>3. PICK r \in JobRecord : r = jobs[j]
  BY <1>1, JobsAre
<1>4. PICK p \in Programs : p = r.prog
  BY DEF JobRecord
<1>5. PICK n \in Nat \ {0} : n = IF r.same THEN 1 ELSE Len(AssociatedDevices)
  BY SomeDevices
<1>6. PICK s : s = [i \in 1 .. n |-> PerDeviceData] /\ data' = data \o s
  BY <1>3, <1>5 DEF StartLink
<1>7. /\ buildData' = [buildData EXCEPT ![p] =
           [d \in Devices |-> Len(data) + (IF r.same THEN 1 ELSE Position(d))]]
      /\ jobs' = [jobs EXCEPT ![j] = Started(r)]
      /\ handle' = [handle EXCEPT ![p] = IF r.async THEN "open" ELSE handle[p]]
      /\ kind' = kind
  BY <1>3, <1>4 DEF StartLink, Started
<1>8. /\ data' \in Seq(DataRecord) /\ Len(data') = Len(data) + n
      /\ DOMAIN data \subseteq DOMAIN data'
      /\ \A x \in DOMAIN data : data'[x] = data[x]
      /\ \A x \in (DOMAIN data') \ DOMAIN data : data'[x] = PerDeviceData
      /\ \A x : x \in (DOMAIN data') \ DOMAIN data <=> x \in Len(data) + 1 .. Len(data) + n
  BY <1>1, <1>6, DataAppended
<1>9. Len(data) \in Nat
  BY <1>1, DataAre
<1>10. PICK f : f = [d \in Devices |-> Len(data) + (IF r.same THEN 1 ELSE Position(d))]
  OBVIOUS
<1>11. \A d \in Devices : f[d] \in Len(data) + 1 .. Len(data) + n
  BY <1>5, <1>9, <1>10, Positions, SomeDevices
<1>12. f \in [Devices -> 0 .. Len(data')]
  <2>1. \A d \in Devices : f[d] \in 0 .. Len(data')
    BY <1>8, <1>9, <1>11
  <2> QED  BY <1>10, <2>1
<1>13. /\ buildData' \in [Programs -> [Devices -> 0 .. Len(data')]]
       /\ \A q \in Programs, d \in Devices :
            buildData'[q][d] = IF q = p THEN f[d] ELSE buildData[q][d]
  <2>1. buildData' = [buildData EXCEPT ![p] = f]
    BY <1>7, <1>10
  <2>2. Len(data') \in Nat /\ Len(data) <= Len(data')
    BY <1>8, <1>9
  <2> QED  BY <1>1, <1>12, <2>1, <2>2, NewDataTyped
<1>14. NewDataFor(jobs[j].prog, Devices)
  BY <1>3, <1>4, <1>8, <1>11, <1>13 DEF NewDataFor
<1>15. StepOf(r)
  BY <1>1, <1>3 DEF CoreInv, StepsInv
<1>16. PICK t \in JobRecord : t = Started(r)
  BY <1>1, <1>2, <1>3, <1>15, StartedJob
<1>17. /\ StepOf(t) /\ t.op = "link" /\ t.prog = r.prog /\ t.pc = "gather"
       /\ LinksIn(t) = LinksIn(r) /\ \A u \in LinksIn(r) : t.inputs[u[1]] = r.inputs[u[1]]
  BY <1>1, <1>2, <1>3, <1>15, <1>16, StartedJob
<1>18. /\ jobs' \in Seq(JobRecord) /\ DOMAIN jobs' = DOMAIN jobs
       /\ jobs'[j] = t /\ \A i \in DOMAIN jobs : i # j => jobs'[i] = jobs[i]
  BY <1>1, <1>7, <1>16, JobUpdate
<1>19. OneJob(j)
  BY <1>1, <1>2, <1>3, <1>17, <1>18 DEF OneJob, Active
<1>20. handle' \in [Programs -> Handles] /\ HandlesKept
  BY <1>1, <1>7 DEF TypeInv, Handles, HandlesKept
<1>21. Kept
  BY <1>1, <1>7, <1>8, <1>13, <1>18, <1>20 DEF Kept, TypeInv
<1> QED  BY <1>1, <1>2, <1>3, <1>14, <1>17, <1>18, <1>19, <1>21 DEF StartRule

-----------------------------------------------------------------------------
(* The calls that begin a job.                                             *)

\* A job with an old status to overwrite, at a program that nobody builds and
\* nobody has kernels of.
Free(r) ==
  /\ r.devices # {} /\ handle[r.prog] = "open"
  /\ numLiveKernels[r.prog] = 0 /\ (EarlyBuilds \/ ~Busy(r.prog))
  /\ \A x \in DataOf(r.prog, r.devices) : data[x].status # "IN_PROGRESS" /\ data[x].pendingLinks = 0

\* Build and Compile: new data for the devices of the call.
BuildCall(r) ==
  /\ NewJob(r) /\ Kept /\ Free(r) /\ r.op \in {"build", "compile"} /\ kind[r.prog] # "linked"
  /\ NewDataFor(r.prog, r.devices)
  /\ \A d \in r.devices : buildData'[r.prog][d] = r.data

\* Build without source: the old data are in progress again.
RelinkCall(r) ==
  /\ NewJob(r) /\ Kept /\ Free(r) /\ r.op = "relink"
  /\ buildData' = buildData /\ DOMAIN data' = DOMAIN data /\ PendingSame
  /\ \A d \in r.devices : buildData[r.prog][d] # 0
  /\ \A x \in DOMAIN data : data'[x].status =
       IF x \in DataOf(r.prog, r.devices) THEN "IN_PROGRESS" ELSE data[x].status

\* clLinkProgram: a program that did not exist.
LinkCall(r) ==
  /\ NewJob(r) /\ Kept /\ r.op = "link" /\ r.pc = "validate"
  /\ kind[r.prog] = "linked" /\ handle[r.prog] = "none" /\ handle'[r.prog] # "none"
  /\ UNCHANGED <<buildData, data>>

\* The job that a call makes.
LEMMA MadeJob ==
  ASSUME NEW op \in {"build", "compile", "relink", "link"}, NEW p \in Programs,
         NEW D \in SUBSET Devices, NEW x \in Nat, NEW pc \in Pcs
  PROVE  /\ Job(op, p, D, x, pc) \in JobRecord
         /\ Job(op, p, D, x, pc).op = op /\ Job(op, p, D, x, pc).prog = p
         /\ Job(op, p, D, x, pc).devices = D /\ Job(op, p, D, x, pc).data = x
         /\ Job(op, p, D, x, pc).pc = pc
<1>1. <<>> \in Seq(Programs)
  BY EmptySeq
<1> QED  BY <1>1 DEF Job, JobRecord

\* The job is one of the state after the call.
LEMMA JobAdded ==
  ASSUME TypeInv, NEW r \in JobRecord, jobs' = Append(jobs, r)
  PROVE  jobs' \in Seq(JobRecord)
  BY DEF TypeInv

\* Build and Compile.
LEMMA StartBuild ==
  ASSUME CoreInv, NEW p \in Programs, NEW D \in SUBSET Devices, NEW op \in {"build", "compile"},
         kind[p] \in {"source", "il"}, MayStart(p, D), StartWithNewData(op, p, D),
         UNCHANGED <<kind, handle>>
  PROVE  \E r : BuildCall(r)
<1>1. TypeInv
  BY DEF CoreInv
<1>2. PICK x \in Nat : x = Len(data) + 1 /\ Len(data) \in Nat
  BY <1>1, DataAre
<1>3. PICK r \in JobRecord :
        /\ r = Job(op, p, D, x, "object")
        /\ r.op = op /\ r.prog = p /\ r.devices = D /\ r.data = x /\ r.pc = "object"
  <2>1. "object" \in Pcs
    BY DEF Pcs, BuildPcs
  <2> QED  BY <2>1, MadeJob
<1>4. /\ data' = Append(data, PerDeviceData)
      /\ buildData' = [buildData EXCEPT ![p] = [d \in Devices |-> IF d \in D THEN x ELSE buildData[p][d]]]
      /\ jobs' = Append(jobs, r)
  BY <1>2, <1>3 DEF StartWithNewData
<1>5. PICK s : s = [i \in 1 .. 1 |-> PerDeviceData]
  OBVIOUS
<1>6. data' = data \o s
  <2>1. data \in Seq(DataRecord) /\ PerDeviceData \in DataRecord
    BY <1>1, NewData DEF TypeInv
  <2>2. s = <<PerDeviceData>>
    BY <1>5
  <2> QED  BY <1>4, <2>1, <2>2
<1>7. /\ data' \in Seq(DataRecord) /\ Len(data') = Len(data) + 1
      /\ DOMAIN data \subseteq DOMAIN data'
      /\ \A y \in DOMAIN data : data'[y] = data[y]
      /\ \A y \in (DOMAIN data') \ DOMAIN data : data'[y] = PerDeviceData
      /\ \A y : y \in (DOMAIN data') \ DOMAIN data <=> y \in Len(data) + 1 .. Len(data) + 1
  BY <1>1, <1>5, <1>6, DataAppended
<1>8. x \in (DOMAIN data') \ DOMAIN data
  BY <1>2, <1>7
<1>9. PICK f : f = [d \in Devices |-> IF d \in D THEN x ELSE buildData[p][d]]
  OBVIOUS
<1>10. f \in [Devices -> 0 .. Len(data')]
  <2>1. \A d \in Devices : f[d] \in 0 .. Len(data')
    BY <1>1, <1>2, <1>7, <1>9, DataAre
  <2> QED  BY <1>9, <2>1
<1>11. /\ buildData' \in [Programs -> [Devices -> 0 .. Len(data')]]
       /\ \A q \in Programs, d \in Devices :
            buildData'[q][d] = IF q = p THEN f[d] ELSE buildData[q][d]
  <2>1. buildData' = [buildData EXCEPT ![p] = f]
    BY <1>4, <1>9
  <2>2. Len(data') \in Nat /\ Len(data) <= Len(data')
    BY <1>2, <1>7
  <2> QED  BY <1>1, <1>10, <2>1, <2>2, NewDataTyped
<1>12. NewDataFor(p, D)
  BY <1>7, <1>8, <1>9, <1>11 DEF NewDataFor
<1>13. \A d \in D : buildData'[p][d] = x
  BY <1>9, <1>11
<1>14. NewJob(r)
  BY <1>3, <1>4 DEF NewJob, StepOf, BuildPcs
<1>15. Kept
  <2>1. jobs' \in Seq(JobRecord)
    BY <1>1, <1>4, JobAdded
  <2> QED  BY <1>1, <1>7, <1>11, <2>1 DEF Kept, HandlesKept, TypeInv
<1>16. Free(r)
  BY <1>3 DEF Free, MayStart, Rebuildable
<1>17. BuildCall(r)
  BY <1>3, <1>12, <1>13, <1>14, <1>15, <1>16 DEF BuildCall
<1> QED  BY <1>17

\* BuildBinary.
LEMMA StartRelink ==
  ASSUME CoreInv, NEW p \in Programs, NEW D \in SUBSET Devices, BuildBinary(p, D)
  PROVE  \E r : RelinkCall(r)
<1>1. TypeInv
  BY DEF CoreInv
<1>2. PICK r \in JobRecord :
        /\ r = Job("relink", p, D, 0, "relink")
        /\ r.op = "relink" /\ r.prog = p /\ r.devices = D /\ r.data = 0 /\ r.pc = "relink"
  <2>1. "relink" \in Pcs
    BY DEF Pcs
  <2> QED  BY <2>1, MadeJob
<1>3. /\ data' = [x \in DOMAIN data |->
           IF x \in DataOf(p, D) THEN [data[x] EXCEPT !.status = "IN_PROGRESS"] ELSE data[x]]
      /\ jobs' = Append(jobs, r) /\ UNCHANGED <<kind, handle, buildData>>
      /\ MayStart(p, D) /\ \A d \in D : buildData[p][d] # 0
  BY <1>2 DEF BuildBinary
<1>4. \A x \in DOMAIN data :
        /\ data'[x] \in DataRecord
        /\ data'[x].pendingLinks = data[x].pendingLinks
        /\ data'[x].status = IF x \in DataOf(p, D) THEN "IN_PROGRESS" ELSE data[x].status
  <2> SUFFICES ASSUME NEW x \in DOMAIN data
               PROVE  /\ data'[x] \in DataRecord
                      /\ data'[x].pendingLinks = data[x].pendingLinks
                      /\ data'[x].status = IF x \in DataOf(p, D) THEN "IN_PROGRESS" ELSE data[x].status
    OBVIOUS
  <2>1. data[x] \in DataRecord
    BY <1>1, DataAre
  <2>2. CASE x \in DataOf(p, D)
    <3>1. data'[x] = [data[x] EXCEPT !.status = "IN_PROGRESS"]
      BY <1>3, <2>2
    <3> QED  BY <2>1, <2>2, <3>1 DEF DataRecord, Statuses
  <2>3. CASE x \notin DataOf(p, D)
    <3>1. data'[x] = data[x]
      BY <1>3, <2>3
    <3> QED  BY <2>1, <2>3, <3>1
  <2> QED  BY <2>2, <2>3
<1>5. DataStay
  <2>1. DOMAIN data' = DOMAIN data
    BY <1>3
  <2>2. data' = [x \in DOMAIN data |-> data'[x]]
    BY <1>3
  <2>3. data' \in [DOMAIN data -> DataRecord]
    BY <1>4, <2>2
  <2> QED  BY <1>4, <2>1, <2>3 DEF DataStay
<1>6. NewJob(r)
  BY <1>2, <1>3 DEF NewJob, StepOf
<1>7. Kept
  <2>1. jobs' \in Seq(JobRecord)
    BY <1>1, <1>3, JobAdded
  <2>2. handle' \in [Programs -> Handles]
    BY <1>1, <1>3 DEF TypeInv
  <2>3. TypeInv'
    BY <1>1, <1>3, <1>5, <2>1, <2>2, TypeStays
  <2> QED  BY <1>3, <2>3 DEF Kept, HandlesKept
<1>8. Free(r)
  BY <1>2, <1>3 DEF Free, MayStart, Rebuildable
<1>9. RelinkCall(r)
  BY <1>2, <1>3, <1>4, <1>5, <1>6, <1>7, <1>8 DEF RelinkCall, PendingSame, DataStay
<1> QED  BY <1>9

\* clLinkProgram.
LEMMA StartLinking ==
  ASSUME CoreInv, NEW p \in Programs, NEW inputs \in Inputs, NEW async \in BOOLEAN,
         NEW library \in BOOLEAN, ClLinkProgram(p, inputs, async, library)
  PROVE  \E r : LinkCall(r)
<1>1. TypeInv
  BY DEF CoreInv
<1>2. inputs \in Seq(Programs) /\ Len(inputs) \in Nat \ {0}
  <2>1. PICK n \in 1 .. MaxInputs : inputs \in [1 .. n -> {q \in Programs : handle[q] = "open"}]
    BY DEF Inputs
  <2>2. inputs \in [1 .. n -> Programs] /\ n \in Nat \ {0}
    BY <2>1, ProgramAssumption
  <2>3. inputs \in Seq(Programs) /\ Len(inputs) = n
    BY <2>2, FunctionIsSeq
  <2> QED  BY <2>2, <2>3
<1>3. PICK r : r = [Job("link", p, {}, 0, "validate") EXCEPT
                      !.inputs = inputs, !.async = async, !.library = library]
  OBVIOUS
<1>4. /\ r \in JobRecord /\ r.op = "link" /\ r.prog = p /\ r.pc = "validate"
      /\ r.inputs = inputs
  <2>1. PICK b \in JobRecord : b = Job("link", p, {}, 0, "validate")
                               /\ b.op = "link" /\ b.prog = p /\ b.pc = "validate"
    <3>1. "validate" \in Pcs
      BY DEF Pcs, EarlyPcs
    <3> QED  BY <3>1, MadeJob
  <2>2. r = [b EXCEPT !.inputs = inputs, !.async = async, !.library = library]
    BY <1>3, <2>1
  <2> QED  BY <1>2, <2>1, <2>2 DEF JobRecord
<1>5. /\ jobs' = Append(jobs, r) /\ handle' = [handle EXCEPT ![p] = "inside"]
      /\ kind[p] = "linked" /\ handle[p] = "none" /\ UNCHANGED <<kind, buildData, data>>
  BY <1>3 DEF ClLinkProgram
<1>6. NewJob(r)
  BY <1>2, <1>4, <1>5 DEF NewJob, StepOf, EarlyPcs, LatePcs
<1>7. Kept
  <2>1. jobs' \in Seq(JobRecord)
    BY <1>1, <1>4, <1>5, JobAdded
  <2>2. handle' \in [Programs -> Handles] /\ HandlesKept
    BY <1>1, <1>5 DEF TypeInv, Handles, HandlesKept
  <2> QED  BY <1>1, <1>5, <2>1, <2>2 DEF Kept, TypeInv
<1>8. handle'[p] # "none"
  BY <1>1, <1>5 DEF TypeInv
<1>9. LinkCall(r)
  BY <1>4, <1>5, <1>6, <1>7, <1>8 DEF LinkCall
<1> QED  BY <1>9

-----------------------------------------------------------------------------
(* Every step.                                                             *)

Still == UNCHANGED <<kind, handle, buildData, data, jobs>>

\* What a step can be, as far as builds and links go.
AnyStep ==
  \/ \E r : BuildCall(r)
  \/ \E r : RelinkCall(r)
  \/ \E r : LinkCall(r)
  \/ \E j : GoesOn(j) /\ LinksSame(j)
  \/ \E j : GoesOn(j) /\ CountRule(j)
  \/ \E j : GoesOn(j) /\ ReleaseRule(j)
  \/ \E j : StartRule(j)
  \/ Still

\* The steps of jobs.
LEMMA JobStepIs ==
  ASSUME CoreInv, NEW j, JobStep(j)
  PROVE  AnyStep
<1>1. CASE ProduceObject(j) \/ ProduceNoObject(j)
  BY <1>1, ProduceStep DEF AnyStep, Still
<1>2. CASE LinkObject(j)
  BY <1>2, LinkObjectStep DEF AnyStep
<1>3. CASE FinishBuild(j) \/ FinishCompile(j) \/ FinishFailed(j)
  BY <1>3, FinishStep DEF AnyStep
<1>4. CASE Relink(j)
  BY <1>4, RelinkStep DEF AnyStep, Still
<1>5. CASE ValidateInput(j)
  BY <1>5, ValidateStep DEF AnyStep
<1>6. CASE CountPendingLinks(j)
  BY <1>6, CountStep DEF AnyStep, Still
<1>7. CASE StartLink(j)
  BY <1>7, StartStep DEF AnyStep
<1>8. CASE GatherObjects(j)
  BY <1>8, GatherStep DEF AnyStep
<1>9. CASE LinkInputs(j)
  BY <1>9, LinkInputsStep DEF AnyStep, Still
<1>10. CASE ReleasePendingLinks(j)
  BY <1>10, ReleaseStep DEF AnyStep
<1> QED
  BY <1>1, <1>2, <1>3, <1>4, <1>5, <1>6, <1>7, <1>8, <1>9, <1>10 DEF JobStep

\* The calls of the application.
LEMMA CallIs ==
  ASSUME CoreInv, ProgramCall
  PROVE  AnyStep
<1>1. ASSUME NEW p \in Programs, NEW D \in SUBSET Devices, Build(p, D)
      PROVE  AnyStep
  <2>1. \E r : BuildCall(r)
    BY <1>1, StartBuild DEF Build
  <2> QED  BY <2>1 DEF AnyStep
<1>2. ASSUME NEW p \in Programs, NEW D \in SUBSET Devices, Compile(p, D)
      PROVE  AnyStep
  <2>1. \E r : BuildCall(r)
    BY <1>2, StartBuild DEF Compile
  <2> QED  BY <2>1 DEF AnyStep
<1>3. ASSUME NEW p \in Programs, NEW D \in SUBSET Devices, BuildBinary(p, D)
      PROVE  AnyStep
  BY <1>3, StartRelink DEF AnyStep
<1>4. ASSUME NEW p \in Programs, NEW inputs \in Inputs, NEW async \in BOOLEAN,
             NEW library \in BOOLEAN, ClLinkProgram(p, inputs, async, library)
      PROVE  AnyStep
  BY <1>4, StartLinking DEF AnyStep
<1>5. ASSUME NEW k \in KernelObjects, NEW p \in Programs, ClCreateKernel(k, p)
      PROVE  AnyStep
  <2>1. UNCHANGED <<kind, handle, buildData, data, jobs, numLiveKernels, fault>>
    BY <1>5 DEF ClCreateKernel
  <2> QED  BY <2>1 DEF AnyStep, Still
<1>6. ASSUME NEW k \in KernelObjects, NEW c \in KernelObjects, ClCloneKernel(k, c)
      PROVE  AnyStep
  BY <1>6 DEF AnyStep, Still, ClCloneKernel
<1>7. ASSUME NEW p \in Programs, CompareWithNoKernel(p)
      PROVE  AnyStep
  <2>1. Fault("generic_kernel")
    BY <1>7 DEF CompareWithNoKernel
  <2> QED  BY <2>1 DEF AnyStep, Still, Fault
<1> QED  BY <1>1, <1>2, <1>3, <1>4, <1>5, <1>6, <1>7 DEF ProgramCall

\* Every step is one of these.
LEMMA NextIs ==
  ASSUME CoreInv, [Next]_programVars
  PROVE  AnyStep
<1>1. CASE ProgramCall
  BY <1>1, CallIs
<1>2. CASE ProgramStep
  <2>1. ASSUME NEW j \in DOMAIN jobs, JobStep(j)
        PROVE  AnyStep
    BY <2>1, JobStepIs
  <2>2. ASSUME NEW k \in KernelObjects, KernelCreated(k)
        PROVE  AnyStep
    BY <2>2 DEF AnyStep, Still, KernelCreated
  <2> QED  BY <1>2, <2>1, <2>2 DEF ProgramStep
<1>3. ASSUME NEW k \in KernelObjects, ClReleaseKernel(k)
      PROVE  AnyStep
  <2>1. UNCHANGED <<kind, handle, buildData, data, jobs, fault>>
    BY <1>3 DEF ClReleaseKernel
  <2> QED  BY <2>1 DEF AnyStep, Still
<1>4. CASE UNCHANGED programVars
  BY <1>4 DEF AnyStep, Still, programVars
<1> QED  BY <1>1, <1>2, <1>3, <1>4 DEF Next

\* The core invariant is inductive.
LEMMA CoreStep ==
  ASSUME CoreInv, AnyStep
  PROVE  CoreInv'
<1>2. ASSUME NEW r, BuildCall(r)
      PROVE  CoreInv'
  <2>1. NewJob(r) /\ Kept /\ handle[r.prog] = "open" /\ r.op # "link" /\ r.prog \in Programs
    BY <1>2 DEF BuildCall, Free, NewJob, JobRecord
  <2>2. handle'[r.prog] # "none"
    BY <2>1 DEF Kept, HandlesKept
  <2> QED  BY <2>1, <2>2, CoreNewJob
<1>3. ASSUME NEW r, RelinkCall(r)
      PROVE  CoreInv'
  <2>1. NewJob(r) /\ Kept /\ handle[r.prog] = "open" /\ r.op # "link" /\ r.prog \in Programs
    BY <1>3 DEF RelinkCall, Free, NewJob, JobRecord
  <2>2. handle'[r.prog] # "none"
    BY <2>1 DEF Kept, HandlesKept
  <2> QED  BY <2>1, <2>2, CoreNewJob
<1>4. ASSUME NEW r, LinkCall(r)
      PROVE  CoreInv'
  BY <1>4, CoreNewJob DEF LinkCall
<1>5. ASSUME NEW j, GoesOn(j) \/ StartRule(j)
      PROVE  CoreInv'
  BY <1>5, CoreOneJob DEF GoesOn, StartRule
<1>6. CASE Still
  BY <1>6 DEF Still, CoreInv, TypeInv, StepsInv, LinkInv, NoneInv, Linking, Active
<1> QED  BY <1>2, <1>3, <1>4, <1>5, <1>6 DEF AnyStep

-----------------------------------------------------------------------------
(* Builds keep apart.                                                      *)

\* Owners are kept where new data are new.
LEMMA OwnedKept ==
  ASSUME TypeInv, OwnedInv, NEW p \in Programs, NEW D, NewDataFor(p, D)
  PROVE  OwnedInv'
<1> SUFFICES ASSUME NEW q \in Programs, NEW s \in Programs, NEW d \in Devices, NEW e \in Devices,
                    buildData'[q][d] # 0, buildData'[q][d] = buildData'[s][e]
             PROVE  q = s
  BY DEF OwnedInv
<1>1. \A t \in Programs, f \in Devices :
        \/ t = p /\ buildData'[t][f] \notin DOMAIN data
        \/ buildData'[t][f] = buildData[t][f]
  BY DEF NewDataFor
<1>2. \A t \in Programs, f \in Devices : buildData[t][f] # 0 => buildData[t][f] \in DOMAIN data
  BY DataAre
<1>3. CASE q = p /\ s = p
  BY <1>3
<1>4. CASE buildData'[q][d] = buildData[q][d] /\ buildData'[s][e] = buildData[s][e]
  <2>1. buildData[q][d] # 0 /\ buildData[q][d] = buildData[s][e]
    BY <1>4
  <2> QED  BY <2>1 DEF OwnedInv
<1> QED  BY <1>1, <1>2, <1>3, <1>4

\* A step of a job writes nothing that another build has to fill.
LEMMA BuildsOneJob ==
  ASSUME CoreInv, BuildsInv, NEW j, GoesOn(j)
  PROVE  BuildsInv'
<1>1. TypeInv /\ LinkInv /\ OwnedInv /\ BuildInv /\ ApartInv /\ AloneInv
  BY DEF CoreInv, BuildsInv
<1>2. /\ j \in DOMAIN jobs /\ DOMAIN jobs' = DOMAIN jobs /\ buildData' = buildData
      /\ \A i \in DOMAIN jobs : i # j => jobs'[i] = jobs[i]
      /\ jobs'[j].pc # "done" =>
           /\ jobs'[j].op = jobs[j].op /\ jobs'[j].prog = jobs[j].prog
           /\ jobs'[j].devices = jobs[j].devices /\ jobs'[j].data = jobs[j].data
      /\ Active(j)
  BY DEF GoesOn, OneJob
<1>3. \A i \in DOMAIN jobs : Active(i)' =>
        /\ Active(i) /\ jobs'[i].op = jobs[i].op /\ jobs'[i].prog = jobs[i].prog
        /\ jobs'[i].devices = jobs[i].devices /\ jobs'[i].data = jobs[i].data
  BY <1>2 DEF Active
<1>4. \A i \in DOMAIN jobs : (Building(i)' => Building(i)) /\ (Linking(i)' => Linking(i))
  BY <1>3 DEF Building, Linking
<1>5. OwnedInv'
  BY <1>1, <1>2 DEF OwnedInv
<1>6. ASSUME NEW i \in DOMAIN jobs, Building(i)', NEW d \in jobs[i].devices
      PROVE  data'[XOf(i, d)].status = data[XOf(i, d)].status
  <2>1. Building(i) /\ jobs[i].prog \in Programs /\ d \in Devices
    BY <1>1, <1>4, <1>6, JobsAre
  <2>2. PICK x \in DOMAIN data : x = XOf(i, d) /\ x # 0
    BY <1>1, <1>6, <2>1, DataAre DEF BuildInv, XOf
  <2>3. jobs[j].prog \in Programs /\ jobs[j].devices \subseteq Devices
    BY <1>1, <1>2, JobsAre
  <2>4. ASSUME NEW e \in Devices, x = XOf(j, e)  PROVE jobs[i].prog = jobs[j].prog
    BY <1>1, <2>1, <2>2, <2>3, <2>4 DEF OwnedInv, XOf
  <2>5. SUFFICES ASSUME data'[x].status # data[x].status  PROVE FALSE
    BY <2>2
  <2>6. CASE Linking(j) /\ \E e \in Devices : x = XOf(j, e)
    BY <1>1, <1>2, <1>6, <2>1, <2>4, <2>6 DEF AloneInv
  <2>7. CASE Building(j) /\ jobs'[j].pc = "done" /\ \E e \in jobs[j].devices : x = XOf(j, e)
    <3>1. i # j
      BY <1>6, <2>7 DEF Building, Active
    <3>2. PICK e \in jobs[j].devices : x = XOf(j, e)
      BY <2>7
    <3>3. jobs[i].prog = jobs[j].prog
      BY <2>3, <2>4, <3>2
    <3> QED  BY <1>1, <1>2, <1>6, <2>1, <2>2, <2>7, <3>1, <3>2, <3>3 DEF ApartInv
  <2>8. CASE Building(j) /\ jobs'[j].pc = "done" /\ jobs[j].op # "relink" /\ x = jobs[j].data
    <3>1. \E e \in jobs[j].devices : x = XOf(j, e)
      BY <1>1, <1>2, <2>8 DEF BuildInv
    <3> QED  BY <2>7, <2>8, <3>1
  <2> QED  BY <2>2, <2>5, <2>6, <2>7, <2>8 DEF GoesOn, StatusRule
<1>7. BuildInv'
  <2> SUFFICES ASSUME NEW i \in DOMAIN jobs, Building(i)'
               PROVE  /\ jobs'[i].devices # {}
                      /\ \A d \in jobs'[i].devices :
                           /\ buildData'[jobs'[i].prog][d] # 0
                           /\ data'[buildData'[jobs'[i].prog][d]].status = "IN_PROGRESS"
                           /\ jobs'[i].op # "relink" => buildData'[jobs'[i].prog][d] = jobs'[i].data
    BY <1>2 DEF BuildInv, XOf
  <2>1. /\ Building(i) /\ jobs'[i].op = jobs[i].op /\ jobs'[i].prog = jobs[i].prog
        /\ jobs'[i].devices = jobs[i].devices /\ jobs'[i].data = jobs[i].data
    BY <1>3, <1>4 DEF Building
  <2>2. \A d \in jobs[i].devices : data'[XOf(i, d)].status = data[XOf(i, d)].status
    BY <1>6
  <2> QED  BY <1>1, <1>2, <2>1, <2>2 DEF BuildInv, XOf
<1>8. ApartInv'
  <2> SUFFICES ASSUME NEW i \in DOMAIN jobs, NEW k \in DOMAIN jobs,
                      i # k, Building(i)', Building(k)', jobs'[i].prog = jobs'[k].prog,
                      NEW d \in jobs'[i].devices, NEW e \in jobs'[k].devices
               PROVE  buildData'[jobs'[i].prog][d] # buildData'[jobs'[k].prog][e]
    BY <1>2 DEF ApartInv, XOf
  <2>1. /\ Building(i) /\ jobs'[i].prog = jobs[i].prog /\ jobs'[i].devices = jobs[i].devices
        /\ Building(k) /\ jobs'[k].prog = jobs[k].prog /\ jobs'[k].devices = jobs[k].devices
    BY <1>3, <1>4 DEF Building
  <2>2. d \in jobs[i].devices /\ e \in jobs[k].devices /\ jobs[i].prog = jobs[k].prog
    BY <2>1
  <2>3. XOf(i, d) # XOf(k, e)
    BY <1>1, <2>1, <2>2 DEF ApartInv
  <2> QED  BY <1>2, <2>1, <2>3 DEF XOf
<1>9. AloneInv'
  <2>1. \A i \in DOMAIN jobs : Active(i)' => jobs'[i].prog = jobs[i].prog
    BY <1>3
  <2> QED  BY <1>1, <1>2, <1>4, <2>1 DEF AloneInv, Linking, Building
<1> QED  BY <1>5, <1>7, <1>8, <1>9 DEF BuildsInv

\* What calls leave of the jobs before them.
LEMMA OtherJobs ==
  ASSUME TypeInv, NEW r, NewJob(r)
  PROVE  \E n : /\ n \notin DOMAIN jobs /\ DOMAIN jobs' = DOMAIN jobs \cup {n}
                /\ jobs'[n] = r /\ \A i \in DOMAIN jobs : jobs'[i] = jobs[i]
<1>0. PICK n : n = Len(jobs) + 1
  OBVIOUS
<1>1. Len(jobs) \in Nat /\ DOMAIN jobs = 1 .. Len(jobs) /\ DOMAIN jobs' = 1 .. (Len(jobs) + 1)
  BY NewJobProperties
<1>2. jobs'[n] = r /\ \A i \in DOMAIN jobs : jobs'[i] = jobs[i]
  BY <1>0, NewJobProperties
<1>3. n \notin DOMAIN jobs /\ DOMAIN jobs' = DOMAIN jobs \cup {n}
  BY <1>0, <1>1
<1> QED  BY <1>2, <1>3

\* The program of a link is not the one of another job, nor of a new build.
LEMMA AloneNewJob ==
  ASSUME CoreInv, AloneInv, NEW r, NewJob(r), kind' = kind,
         r.op = "link" => handle[r.prog] = "none",
         r.op # "link" => \A i \in DOMAIN jobs : Linking(i) => jobs[i].prog # r.prog
  PROVE  AloneInv'
<1>1. TypeInv /\ NoneInv
  BY DEF CoreInv
<1>2. PICK n : /\ n \notin DOMAIN jobs /\ DOMAIN jobs' = DOMAIN jobs \cup {n}
               /\ jobs'[n] = r /\ \A i \in DOMAIN jobs : jobs'[i] = jobs[i]
  BY <1>1, OtherJobs
<1> SUFFICES ASSUME NEW i \in DOMAIN jobs', NEW k \in DOMAIN jobs', Linking(i)', Building(k)'
             PROVE  jobs'[i].prog # jobs'[k].prog
  BY DEF AloneInv
<1>3. CASE i \in DOMAIN jobs /\ k \in DOMAIN jobs
  <2>1. Linking(i) /\ Building(k)
    BY <1>2, <1>3 DEF Linking, Building, Active
  <2> QED  BY <1>2, <1>3, <2>1 DEF AloneInv
<1>4. CASE i = n /\ k \in DOMAIN jobs
  <2>1. r.op = "link" /\ Active(k)
    BY <1>2, <1>4 DEF Linking, Building, Active
  <2>2. handle[jobs[k].prog] # "none"
    BY <1>1, <1>4, <2>1 DEF NoneInv
  <2> QED  BY <1>2, <1>4, <2>1, <2>2
<1>5. CASE i \in DOMAIN jobs /\ k = n
  <2>1. r.op # "link" /\ Linking(i)
    BY <1>2, <1>5 DEF Linking, Building, Active
  <2> QED  BY <1>2, <1>5, <2>1
<1>6. CASE i = n /\ k = n
  BY <1>6 DEF Linking, Building
<1> QED  BY <1>2, <1>3, <1>4, <1>5, <1>6

\* A build of a program leaves alone what others have to fill.
LEMMA BuildsBuildCall ==
  ASSUME CoreInv, BuildsInv, NEW r, BuildCall(r)
  PROVE  BuildsInv'
<1>1. TypeInv /\ LinkInv /\ OwnedInv /\ BuildInv /\ ApartInv /\ AloneInv
  BY DEF CoreInv, BuildsInv
<1>2. /\ NewJob(r) /\ r \in JobRecord /\ r.prog \in Programs /\ r.devices \subseteq Devices
      /\ NewDataFor(r.prog, r.devices) /\ r.op # "link" /\ r.op # "relink" /\ kind[r.prog] # "linked"
      /\ \A d \in r.devices : buildData'[r.prog][d] = r.data
      /\ kind' = kind /\ r.devices # {} /\ r.pc # "done"
      /\ \A x \in DataOf(r.prog, r.devices) : data[x].status # "IN_PROGRESS"
  BY DEF BuildCall, NewJob, Kept, Free, JobRecord
<1>3. PICK n : /\ n \notin DOMAIN jobs /\ DOMAIN jobs' = DOMAIN jobs \cup {n}
               /\ jobs'[n] = r /\ \A i \in DOMAIN jobs : jobs'[i] = jobs[i]
  BY <1>1, <1>2, OtherJobs
<1>4. \A i \in DOMAIN jobs : (Building(i)' <=> Building(i)) /\ jobs[i].prog \in Programs
                             /\ jobs[i].devices \subseteq Devices
  BY <1>1, <1>3, JobsAre DEF Building, Active
<1>5. ASSUME NEW i \in DOMAIN jobs, Building(i), NEW d \in jobs[i].devices
      PROVE  buildData'[jobs[i].prog][d] = XOf(i, d) /\ XOf(i, d) \in DOMAIN data
  <2>1. XOf(i, d) # 0 /\ data[XOf(i, d)].status = "IN_PROGRESS" /\ d \in Devices
    BY <1>1, <1>4, <1>5 DEF BuildInv
  <2>2. XOf(i, d) \in DOMAIN data
    BY <1>1, <1>4, <2>1, DataAre DEF XOf
  <2>3. ~(jobs[i].prog = r.prog /\ d \in r.devices)
    <3>1. SUFFICES ASSUME jobs[i].prog = r.prog, d \in r.devices  PROVE FALSE
      OBVIOUS
    <3>2. XOf(i, d) \in DataOf(r.prog, r.devices)
      BY <2>1, <3>1 DEF DataOf, XOf
    <3> QED  BY <1>2, <2>1, <3>2
  <2> QED  BY <1>2, <1>4, <2>1, <2>2, <2>3 DEF NewDataFor, XOf
<1>6. \A d \in r.devices : buildData'[r.prog][d] \in (DOMAIN data') \ DOMAIN data
  BY <1>2 DEF NewDataFor
<1>7. OwnedInv'
  BY <1>1, <1>2, OwnedKept
<1>8. \A x \in DOMAIN data' : x # 0
  <2>1. data' \in Seq(DataRecord)
    BY DEF BuildCall, Kept, TypeInv
  <2>2. DOMAIN data' = 1 .. Len(data') /\ Len(data') \in Nat
    BY <2>1, LenProperties
  <2> QED  BY <2>2
<1>9. BuildInv'
  <2> SUFFICES ASSUME NEW i \in DOMAIN jobs', Building(i)'
               PROVE  /\ jobs'[i].devices # {}
                      /\ \A d \in jobs'[i].devices :
                           /\ buildData'[jobs'[i].prog][d] # 0
                           /\ data'[buildData'[jobs'[i].prog][d]].status = "IN_PROGRESS"
                           /\ jobs'[i].op # "relink" => buildData'[jobs'[i].prog][d] = jobs'[i].data
    BY DEF BuildInv, XOf
  <2>1. CASE i = n
    <3>1. \A x \in (DOMAIN data') \ DOMAIN data : data'[x].status = "IN_PROGRESS"
      BY <1>2, NewData DEF NewDataFor
    <3> QED  BY <1>2, <1>3, <1>6, <1>8, <2>1, <3>1
  <2>2. CASE i \in DOMAIN jobs
    <3>1. Building(i) /\ jobs'[i] = jobs[i]
      BY <1>3, <1>4, <2>2
    <3>2. \A x \in DOMAIN data : data'[x] = data[x]
      BY <1>2 DEF NewDataFor
    <3>3. /\ jobs[i].devices # {}
          /\ \A d \in jobs[i].devices :
               /\ XOf(i, d) # 0
               /\ data[XOf(i, d)].status = "IN_PROGRESS"
               /\ jobs[i].op # "relink" => XOf(i, d) = jobs[i].data
      BY <1>1, <2>2, <3>1 DEF BuildInv
    <3> QED  BY <1>5, <2>2, <3>1, <3>2, <3>3
  <2> QED  BY <1>3, <2>1, <2>2
<1>10. ApartInv'
  <2> SUFFICES ASSUME NEW i \in DOMAIN jobs', NEW k \in DOMAIN jobs',
                      i # k, Building(i)', Building(k)', jobs'[i].prog = jobs'[k].prog,
                      NEW d \in jobs'[i].devices, NEW e \in jobs'[k].devices
               PROVE  buildData'[jobs'[i].prog][d] # buildData'[jobs'[k].prog][e]
    BY DEF ApartInv, XOf
  <2>1. CASE i \in DOMAIN jobs /\ k \in DOMAIN jobs
    <3>1. /\ Building(i) /\ Building(k) /\ jobs'[i] = jobs[i] /\ jobs'[k] = jobs[k]
          /\ jobs[i].prog = jobs[k].prog /\ d \in jobs[i].devices /\ e \in jobs[k].devices
      BY <1>3, <1>4, <2>1
    <3>2. XOf(i, d) # XOf(k, e)
      BY <1>1, <2>1, <3>1 DEF ApartInv
    <3>3. buildData'[jobs[i].prog][d] = XOf(i, d) /\ buildData'[jobs[k].prog][e] = XOf(k, e)
      BY <1>5, <2>1, <3>1
    <3> QED  BY <3>1, <3>2, <3>3
  <2>2. CASE i = n /\ k \in DOMAIN jobs
    <3>1. Building(k) /\ jobs'[k] = jobs[k]
      BY <1>3, <1>4, <2>2
    <3> QED  BY <1>3, <1>5, <1>6, <2>2, <3>1
  <2>3. CASE i \in DOMAIN jobs /\ k = n
    <3>1. Building(i) /\ jobs'[i] = jobs[i]
      BY <1>3, <1>4, <2>3
    <3> QED  BY <1>3, <1>5, <1>6, <2>3, <3>1
  <2> QED  BY <1>3, <2>1, <2>2, <2>3
<1>11. AloneInv'
  <2>1. \A i \in DOMAIN jobs : Linking(i) => jobs[i].prog # r.prog
    BY <1>1, <1>2 DEF LinkInv
  <2> QED  BY <1>1, <1>2, <2>1, AloneNewJob
<1> QED  BY <1>7, <1>9, <1>10, <1>11 DEF BuildsInv

\* So does a second build of what a program has.
LEMMA BuildsRelinkCall ==
  ASSUME CoreInv, BuildsInv, ~EarlyBuilds, NEW r, RelinkCall(r)
  PROVE  BuildsInv'
<1>1. TypeInv /\ LinkInv /\ OwnedInv /\ BuildInv /\ ApartInv /\ AloneInv
  BY DEF CoreInv, BuildsInv
<1>2. /\ NewJob(r) /\ r \in JobRecord /\ r.prog \in Programs /\ r.devices \subseteq Devices
      /\ r.op = "relink" /\ ~Busy(r.prog) /\ buildData' = buildData
      /\ kind' = kind /\ r.devices # {} /\ r.pc # "done"
      /\ \A d \in r.devices : buildData[r.prog][d] # 0
      /\ \A x \in DataOf(r.prog, r.devices) : data[x].status # "IN_PROGRESS"
      /\ \A x \in DOMAIN data : data'[x].status =
           IF x \in DataOf(r.prog, r.devices) THEN "IN_PROGRESS" ELSE data[x].status
  BY DEF RelinkCall, NewJob, Kept, Free, JobRecord
<1>3. PICK n : /\ n \notin DOMAIN jobs /\ DOMAIN jobs' = DOMAIN jobs \cup {n}
               /\ jobs'[n] = r /\ \A i \in DOMAIN jobs : jobs'[i] = jobs[i]
  BY <1>1, <1>2, OtherJobs
<1>4. \A i \in DOMAIN jobs : (Building(i)' <=> Building(i)) /\ jobs[i].prog \in Programs
                             /\ jobs[i].devices \subseteq Devices
  BY <1>1, <1>3, JobsAre DEF Building, Active
<1>5. \A d \in r.devices : buildData[r.prog][d] \in DataOf(r.prog, r.devices)
  BY <1>2 DEF DataOf
<1>6. OwnedInv'
  BY <1>1, <1>2 DEF OwnedInv
<1>7. BuildInv'
  <2> SUFFICES ASSUME NEW i \in DOMAIN jobs', Building(i)'
               PROVE  /\ jobs'[i].devices # {}
                      /\ \A d \in jobs'[i].devices :
                           /\ buildData[jobs'[i].prog][d] # 0
                           /\ data'[buildData[jobs'[i].prog][d]].status = "IN_PROGRESS"
                           /\ jobs'[i].op # "relink" => buildData[jobs'[i].prog][d] = jobs'[i].data
    BY <1>2 DEF BuildInv, XOf
  <2>1. \A p \in Programs, d \in Devices : buildData[p][d] # 0 => buildData[p][d] \in DOMAIN data
    BY <1>1, DataAre
  <2>2. CASE i = n
    BY <1>2, <1>3, <1>5, <2>1, <2>2
  <2>3. CASE i \in DOMAIN jobs
    <3>1. Building(i) /\ jobs'[i] = jobs[i]
      BY <1>3, <1>4, <2>3
    <3>2. /\ jobs[i].devices # {}
          /\ \A d \in jobs[i].devices :
               /\ buildData[jobs[i].prog][d] # 0
               /\ data[buildData[jobs[i].prog][d]].status = "IN_PROGRESS"
               /\ jobs[i].op # "relink" => buildData[jobs[i].prog][d] = jobs[i].data
      BY <1>1, <2>3, <3>1 DEF BuildInv, XOf
    <3> QED  BY <1>2, <1>4, <2>1, <2>3, <3>1, <3>2
  <2> QED  BY <1>3, <2>2, <2>3
<1>8. ASSUME NEW i \in DOMAIN jobs, Building(i), NEW d \in jobs[i].devices, NEW e \in r.devices
      PROVE  buildData[jobs[i].prog][d] # buildData[r.prog][e]
  <2>1. data[XOf(i, d)].status = "IN_PROGRESS"
    BY <1>1, <1>8 DEF BuildInv
  <2>2. data[buildData[r.prog][e]].status # "IN_PROGRESS"
    BY <1>2, <1>5
  <2> QED  BY <2>1, <2>2 DEF XOf
<1>9. ApartInv'
  <2> SUFFICES ASSUME NEW i \in DOMAIN jobs', NEW k \in DOMAIN jobs',
                      i # k, Building(i)', Building(k)', jobs'[i].prog = jobs'[k].prog,
                      NEW d \in jobs'[i].devices, NEW e \in jobs'[k].devices
               PROVE  buildData[jobs'[i].prog][d] # buildData[jobs'[k].prog][e]
    BY <1>2 DEF ApartInv, XOf
  <2>1. CASE i \in DOMAIN jobs /\ k \in DOMAIN jobs
    <3>1. /\ Building(i) /\ Building(k) /\ jobs'[i] = jobs[i] /\ jobs'[k] = jobs[k]
          /\ jobs[i].prog = jobs[k].prog /\ d \in jobs[i].devices /\ e \in jobs[k].devices
      BY <1>3, <1>4, <2>1
    <3>2. XOf(i, d) # XOf(k, e)
      BY <1>1, <2>1, <3>1 DEF ApartInv
    <3> QED  BY <3>1, <3>2 DEF XOf
  <2>2. CASE i = n /\ k \in DOMAIN jobs
    <3>1. Building(k) /\ jobs'[k] = jobs[k]
      BY <1>3, <1>4, <2>2
    <3> QED  BY <1>3, <1>8, <2>2, <3>1
  <2>3. CASE i \in DOMAIN jobs /\ k = n
    <3>1. Building(i) /\ jobs'[i] = jobs[i]
      BY <1>3, <1>4, <2>3
    <3> QED  BY <1>3, <1>8, <2>3, <3>1
  <2> QED  BY <1>3, <2>1, <2>2, <2>3
<1>10. AloneInv'
  <2>1. \A i \in DOMAIN jobs : Linking(i) => jobs[i].prog # r.prog
    BY <1>2 DEF Busy, Linking, Active
  <2> QED  BY <1>1, <1>2, <2>1, AloneNewJob
<1> QED  BY <1>6, <1>7, <1>9, <1>10 DEF BuildsInv

\* A link begins with a program that nobody builds.
LEMMA BuildsLinkCall ==
  ASSUME CoreInv, BuildsInv, NEW r, LinkCall(r)
  PROVE  BuildsInv'
<1>1. TypeInv /\ OwnedInv /\ BuildInv /\ ApartInv /\ AloneInv
  BY DEF CoreInv, BuildsInv
<1>2. /\ NewJob(r) /\ r.op = "link" /\ kind' = kind /\ handle[r.prog] = "none"
      /\ buildData' = buildData /\ data' = data
  BY DEF LinkCall, Kept
<1>3. PICK n : /\ n \notin DOMAIN jobs /\ DOMAIN jobs' = DOMAIN jobs \cup {n}
               /\ jobs'[n] = r /\ \A i \in DOMAIN jobs : jobs'[i] = jobs[i]
  BY <1>1, <1>2, OtherJobs
<1>4. \A i \in DOMAIN jobs' : Building(i)' => i \in DOMAIN jobs /\ Building(i)
  BY <1>2, <1>3 DEF Building, Active
<1>5. OwnedInv'
  BY <1>1, <1>2 DEF OwnedInv
<1>6. BuildInv'
  BY <1>1, <1>2, <1>3, <1>4 DEF BuildInv, XOf
<1>7. ApartInv'
  BY <1>1, <1>2, <1>3, <1>4 DEF ApartInv, XOf
<1>8. AloneInv'
  BY <1>1, <1>2, AloneNewJob
<1> QED  BY <1>5, <1>6, <1>7, <1>8 DEF BuildsInv

\* The program of a link gets new data, and nobody builds it.
LEMMA BuildsStartLink ==
  ASSUME CoreInv, BuildsInv, NEW j, StartRule(j)
  PROVE  BuildsInv'
<1>1. TypeInv /\ LinkInv /\ OwnedInv /\ BuildInv /\ ApartInv /\ AloneInv
  BY DEF CoreInv, BuildsInv
<1>2. /\ j \in DOMAIN jobs /\ DOMAIN jobs' = DOMAIN jobs /\ Linking(j)
      /\ \A i \in DOMAIN jobs : i # j => jobs'[i] = jobs[i]
      /\ jobs'[j].op = "link" /\ jobs'[j].prog = jobs[j].prog
      /\ NewDataFor(jobs[j].prog, Devices)
  BY DEF StartRule, OneJob, Linking, Active
<1>3. \A i \in DOMAIN jobs : /\ jobs[i].prog \in Programs /\ jobs[i].devices \subseteq Devices
                             /\ Building(i)' => Building(i) /\ i # j /\ jobs'[i] = jobs[i]
                             /\ Linking(i)' => Linking(i) /\ jobs'[i].prog = jobs[i].prog
  BY <1>1, <1>2, JobsAre DEF Building, Linking, Active
<1>4. ASSUME NEW i \in DOMAIN jobs, Building(i), NEW d \in jobs[i].devices
      PROVE  buildData'[jobs[i].prog][d] = XOf(i, d) /\ data'[XOf(i, d)] = data[XOf(i, d)]
  <2>1. jobs[i].prog # jobs[j].prog /\ XOf(i, d) # 0 /\ d \in Devices
    BY <1>1, <1>2, <1>3, <1>4 DEF AloneInv, BuildInv
  <2>2. XOf(i, d) \in DOMAIN data
    BY <1>1, <1>3, <2>1, DataAre DEF XOf
  <2> QED  BY <1>2, <1>3, <2>1, <2>2 DEF NewDataFor, XOf
<1>5. OwnedInv'
  BY <1>1, <1>2, <1>3, OwnedKept
<1>6. BuildInv'
  <2> SUFFICES ASSUME NEW i \in DOMAIN jobs, Building(i)'
               PROVE  /\ jobs'[i].devices # {}
                      /\ \A d \in jobs'[i].devices :
                           /\ buildData'[jobs'[i].prog][d] # 0
                           /\ data'[buildData'[jobs'[i].prog][d]].status = "IN_PROGRESS"
                           /\ jobs'[i].op # "relink" => buildData'[jobs'[i].prog][d] = jobs'[i].data
    BY <1>2 DEF BuildInv, XOf
  <2>1. Building(i) /\ jobs'[i] = jobs[i]
    BY <1>3
  <2>2. /\ jobs[i].devices # {}
        /\ \A d \in jobs[i].devices :
             /\ XOf(i, d) # 0
             /\ data[XOf(i, d)].status = "IN_PROGRESS"
             /\ jobs[i].op # "relink" => XOf(i, d) = jobs[i].data
    BY <1>1, <2>1 DEF BuildInv
  <2> QED  BY <1>4, <2>1, <2>2
<1>7. ApartInv'
  <2> SUFFICES ASSUME NEW i \in DOMAIN jobs, NEW k \in DOMAIN jobs,
                      i # k, Building(i)', Building(k)', jobs'[i].prog = jobs'[k].prog,
                      NEW d \in jobs'[i].devices, NEW e \in jobs'[k].devices
               PROVE  buildData'[jobs'[i].prog][d] # buildData'[jobs'[k].prog][e]
    BY <1>2 DEF ApartInv, XOf
  <2>1. /\ Building(i) /\ Building(k) /\ jobs'[i] = jobs[i] /\ jobs'[k] = jobs[k]
        /\ jobs[i].prog = jobs[k].prog /\ d \in jobs[i].devices /\ e \in jobs[k].devices
    BY <1>3
  <2>2. XOf(i, d) # XOf(k, e)
    BY <1>1, <2>1 DEF ApartInv
  <2>3. buildData'[jobs[i].prog][d] = XOf(i, d) /\ buildData'[jobs[k].prog][e] = XOf(k, e)
    BY <1>4, <2>1
  <2> QED  BY <2>1, <2>2, <2>3
<1>8. AloneInv'
  BY <1>1, <1>2, <1>3 DEF AloneInv
<1> QED  BY <1>5, <1>6, <1>7, <1>8 DEF BuildsInv

\* Builds stay apart over every step.
LEMMA BuildsStep ==
  ASSUME CoreInv, BuildsInv, ~EarlyBuilds, AnyStep
  PROVE  BuildsInv'
<1>2. ASSUME NEW r, BuildCall(r)
      PROVE  BuildsInv'
  BY <1>2, BuildsBuildCall
<1>3. ASSUME NEW r, RelinkCall(r)
      PROVE  BuildsInv'
  BY <1>3, BuildsRelinkCall
<1>4. ASSUME NEW r, LinkCall(r)
      PROVE  BuildsInv'
  BY <1>4, BuildsLinkCall
<1>5. ASSUME NEW j, GoesOn(j)
      PROVE  BuildsInv'
  BY <1>5, BuildsOneJob
<1>6. ASSUME NEW j, StartRule(j)
      PROVE  BuildsInv'
  BY <1>6, BuildsStartLink
<1>7. CASE Still
  <2> USE <1>7 DEF Still
  <2>1. OwnedInv'
    BY DEF BuildsInv, OwnedInv
  <2>2. BuildInv'
    BY DEF BuildsInv, BuildInv, Building, Active, XOf
  <2>3. ApartInv'
    BY DEF BuildsInv, ApartInv, Building, Active, XOf
  <2>4. AloneInv'
    BY DEF BuildsInv, AloneInv, Building, Linking, Active
  <2> QED  BY <2>1, <2>2, <2>3, <2>4 DEF BuildsInv
<1> QED  BY <1>2, <1>3, <1>4, <1>5, <1>6, <1>7 DEF AnyStep

\* The invariants say what OneBuildAtATime says.
LEMMA BuildsApart ==
  ASSUME CoreInv, BuildsInv
  PROVE  OneBuildAtATime
<1>1. /\ TypeInv /\ LinkInv /\ OwnedInv /\ BuildInv /\ ApartInv /\ AloneInv
      /\ StepsInv
  BY DEF CoreInv, BuildsInv
<1>2. \A j \in DOMAIN jobs : Pending(j) # {} => Active(j)
  BY DEF Pending, Active
<1>3. \A j \in DOMAIN jobs : Building(j) => Pending(j) = jobs[j].devices
  <2> SUFFICES ASSUME NEW j \in DOMAIN jobs, Building(j)
               PROVE  Pending(j) = jobs[j].devices
    OBVIOUS
  <2>1. jobs[j].pc \notin EarlyPcs
    BY <1>1, KindOfStep DEF Building
  <2> QED  BY <2>1 DEF Pending, Building, Active, EarlyPcs
<1>4. ASSUME NEW i \in DOMAIN jobs, NEW j \in DOMAIN jobs,
             i # j, jobs[i].prog = jobs[j].prog
      PROVE  Pending(i) \cap Pending(j) = {}
  <2>1. CASE ~Active(i) \/ ~Active(j)
    BY <1>2, <2>1
  <2>2. CASE Building(i) /\ Building(j)
    <3> SUFFICES ASSUME NEW d, d \in jobs[i].devices, d \in jobs[j].devices
                 PROVE  FALSE
      BY <1>3, <2>2
    <3>1. \A e \in jobs[i].devices, f \in jobs[j].devices : XOf(i, e) # XOf(j, f)
      BY <1>1, <1>4, <2>2 DEF ApartInv
    <3>2. XOf(i, d) = XOf(j, d)
      BY <1>4 DEF XOf
    <3> QED  BY <3>1, <3>2
  <2>3. CASE Linking(i) /\ Building(j)
    BY <1>1, <1>4, <2>3 DEF AloneInv
  <2>4. CASE Building(i) /\ Linking(j)
    BY <1>1, <1>4, <2>4 DEF AloneInv
  <2>5. CASE Linking(i) /\ Linking(j)
    BY <1>1, <1>4, <2>5 DEF LinkInv
  <2> QED  BY <2>1, <2>2, <2>3, <2>4, <2>5 DEF Building, Linking
<1>5. ASSUME NEW j \in DOMAIN jobs, jobs[j].op \in {"build", "compile"}, NEW d \in Pending(j)
      PROVE  buildData[jobs[j].prog][d] = jobs[j].data
  <2>1. Building(j)
    BY <1>2, <1>5 DEF Building
  <2>2. d \in jobs[j].devices
    BY <1>3, <1>5, <2>1
  <2> QED  BY <1>1, <1>5, <2>1, <2>2 DEF BuildInv, XOf
<1> QED  BY <1>4, <1>5 DEF OneBuildAtATime

\* However builds, compilations and links of any number of programs and
\* devices interleave, no device of a program is being built by two of them,
\* and what a build has to fill is still what the program has for its
\* devices.  The condition is on the application: no build while another
\* thread is inside clCreateKernel for the program, nor before the link that
\* makes it has called back.
THEOREM BuildsStayApart ==
  ASSUME ~EarlyBuilds
  PROVE  Spec => []OneBuildAtATime
<1>1. Init => CoreInv /\ BuildsInv
  BY InitInv
<1>2. CoreInv /\ BuildsInv /\ [Next]_programVars => (CoreInv /\ BuildsInv)'
  BY NextIs, CoreStep, BuildsStep
<1>3. CoreInv /\ BuildsInv => OneBuildAtATime
  BY BuildsApart
<1> QED  BY <1>1, <1>2, <1>3, PTL DEF Spec

-----------------------------------------------------------------------------
(* Counting.                                                               *)

\* A set grows by as many as are added to it, one for each of S.
LEMMA GrownSet ==
  ASSUME NEW A, IsFiniteSet(A), NEW S, IsFiniteSet(S), NEW f, DOMAIN f = S,
         \A s, t \in S : f[s] = f[t] => s = t,
         \A s \in S : f[s] \notin A,
         NEW B, \A w : w \in B <=> w \in A \/ \E s \in S : w = f[s]
  PROVE  /\ Cardinality(A) \in Nat /\ Cardinality(S) \in Nat
         /\ Cardinality(B) = Cardinality(A) + Cardinality(S)
<1>1. PICK T : T = {f[s] : s \in S}
  OBVIOUS
<1>2. IsFiniteSet(T) /\ Cardinality(T) = Cardinality(S)
  <2>1. PICK g : g = [s \in S |-> f[s]]
    OBVIOUS
  <2>2. g \in [S -> T] /\ (\A s, t \in S : g[s] = g[t] => s = t) /\ \A y \in T : \E s \in S : g[s] = y
    BY <1>1, <2>1
  <2>3. g \in Bijection(S, T)
    BY <2>2 DEF Bijection, Injection, Surjection, IsInjective
  <2>4. ExistsBijection(S, T)
    BY <2>3 DEF ExistsBijection
  <2> QED  BY <2>4, FS_Bijection
<1>3. B = A \cup T /\ A \cap T = {}
  BY <1>1
<1>4. Cardinality(B) = Cardinality(A) + Cardinality(T) - Cardinality(A \cap T)
  BY <1>2, <1>3, FS_Union
<1>5. Cardinality(A \cap T) = 0
  BY <1>3, FS_EmptySet
<1>6. Cardinality(A) \in Nat /\ Cardinality(S) \in Nat
  BY FS_CardinalityType
<1> QED  BY <1>2, <1>4, <1>5, <1>6

\* What is in LinksAmong.
LEMMA InLinks ==
  ASSUME NEW js
  PROVE  \A w : w \in LinksAmong(js) <=>
           \E j \in DOMAIN js : \E u \in LinksIn(js[j]) : w = <<j, u>>
  BY DEF LinksAmong

\* A counted link is of an input and a device.
LEMMA LinkParts ==
  ASSUME NEW r
  PROVE  \A u \in LinksIn(r) :
           /\ u = <<u[1], u[2]>> /\ u[1] \in DOMAIN r.inputs /\ u[2] \in Devices
           /\ r.op = "link"
  BY DEF LinksIn

\* There are finitely many links.
LEMMA FiniteLinks ==
  ASSUME NEW js, js \in Seq(JobRecord)
  PROVE  IsFiniteSet(LinksAmong(js))
<1>1. Len(js) \in Nat /\ DOMAIN js = 1 .. Len(js) /\ \A j \in DOMAIN js : js[j] \in JobRecord
  BY LenProperties, ElementOfSeq
<1>2. IsFiniteSet(DOMAIN js)
  BY <1>1, FS_Interval
<1>3. ASSUME NEW j \in DOMAIN js
      PROVE  IsFiniteSet({j} \X LinksIn(js[j]))
  <2>1. js[j].inputs \in Seq(Programs)
    BY <1>1 DEF JobRecord
  <2>2. DOMAIN js[j].inputs = 1 .. Len(js[j].inputs) /\ Len(js[j].inputs) \in Nat
    BY <2>1, LenProperties
  <2>3. IsFiniteSet(DOMAIN js[j].inputs)
    BY <2>2, FS_Interval
  <2>4. IsFiniteSet((DOMAIN js[j].inputs) \X Devices)
    BY <2>3, FiniteDevices, FS_Product
  <2>5. LinksIn(js[j]) \subseteq (DOMAIN js[j].inputs) \X Devices
    BY DEF LinksIn
  <2>6. IsFiniteSet(LinksIn(js[j]))
    BY <2>4, <2>5, FS_Subset
  <2> QED  BY <2>6, FS_Singleton, FS_Product
<1>4. PICK S : S = {{j} \X LinksIn(js[j]) : j \in DOMAIN js}
  OBVIOUS
<1>5. IsFiniteSet(S)
  <2>1. PICK f : f = [j \in DOMAIN js |-> {j} \X LinksIn(js[j])]
    OBVIOUS
  <2>2. f \in [DOMAIN js -> S] /\ \A T \in S : \E j \in DOMAIN js : f[j] = T
    BY <1>4, <2>1
  <2>3. f \in Surjection(DOMAIN js, S)
    BY <2>2 DEF Surjection
  <2> QED  BY <1>2, <2>3, FS_Surjection
<1>6. \A T \in S : IsFiniteSet(T)
  BY <1>3, <1>4
<1>7. IsFiniteSet(UNION S)
  BY <1>5, <1>6, FS_UNION
<1> QED  BY <1>4, <1>7 DEF LinksAmong

-----------------------------------------------------------------------------
(* Pending links over a step.                                              *)

\* The input that a link is of.
InputOf(js, w) == js[w[1]].inputs[w[2][1]]

\* What a counted link refers to, by its input.
LEMMA RefIs == \A w : Ref(w) = buildData[InputOf(jobs, w)][w[2][2]]
  BY DEF Ref, InputOf

\* The parts of a counted link.
LEMMA LinksAre ==
  ASSUME TypeInv, NEW w \in Links
  PROVE  /\ w[1] \in DOMAIN jobs /\ w[2] \in LinksIn(jobs[w[1]]) /\ w = <<w[1], w[2]>>
         /\ w[2][2] \in Devices /\ InputOf(jobs, w) \in Programs
<1>1. PICK j \in DOMAIN jobs : \E u \in LinksIn(jobs[j]) : w = <<j, u>>
  BY InLinks DEF Links
<1>0. PICK u \in LinksIn(jobs[j]) : w = <<j, u>>
  BY <1>1
<1>2. u[1] \in DOMAIN jobs[j].inputs /\ u[2] \in Devices
  BY LinkParts
<1>3. jobs[j].inputs \in Seq(Programs)
  BY JobsAre
<1>4. jobs[j].inputs[u[1]] \in Programs
  BY <1>2, <1>3, ElementOfSeq, LenProperties
<1> QED  BY <1>0, <1>1, <1>2, <1>4 DEF InputOf

\* The jobs count what they counted.
LinksCarried ==
  /\ \A i \in DOMAIN jobs :
       /\ i \in DOMAIN jobs' /\ LinksIn(jobs'[i]) = LinksIn(jobs[i])
       /\ \A u \in LinksIn(jobs[i]) : jobs'[i].inputs[u[1]] = jobs[i].inputs[u[1]]
  /\ \A i \in (DOMAIN jobs') \ DOMAIN jobs : LinksIn(jobs'[i]) = {}

LEMMA SameLinks ==
  ASSUME LinksCarried
  PROVE  Links' = Links /\ \A w \in Links : InputOf(jobs', w) = InputOf(jobs, w)
<1>1. ASSUME NEW w
      PROVE  w \in Links' <=> w \in Links
  <2>1. w \in Links' <=> \E j \in DOMAIN jobs' : \E u \in LinksIn(jobs'[j]) : w = <<j, u>>
    BY InLinks DEF Links
  <2>2. w \in Links <=> \E j \in DOMAIN jobs : \E u \in LinksIn(jobs[j]) : w = <<j, u>>
    BY InLinks DEF Links
  <2> QED  BY <2>1, <2>2 DEF LinksCarried
<1>2. ASSUME NEW w \in Links
      PROVE  InputOf(jobs', w) = InputOf(jobs, w)
  <2>1. PICK j \in DOMAIN jobs : \E u \in LinksIn(jobs[j]) : w = <<j, u>>
    BY InLinks DEF Links
  <2>2. PICK u \in LinksIn(jobs[j]) : w = <<j, u>>
    BY <2>1
  <2> QED  BY <2>2 DEF LinksCarried, InputOf
<1> QED  BY <1>1, <1>2

\* When the same links refer to the same, and no pending link is added or
\* taken away, the count is still right.
LEMMA SameCount ==
  ASSUME TypeInv, RefInv, CountInv, LinksCarried,
         \A w \in Links : buildData'[InputOf(jobs, w)][w[2][2]] = Ref(w),
         DOMAIN data \subseteq DOMAIN data', PendingSame,
         \A x \in (DOMAIN data') \ DOMAIN data : data'[x].pendingLinks = 0
  PROVE  RefInv' /\ CountInv'
<1>1. Links' = Links /\ \A w \in Links : InputOf(jobs', w) = InputOf(jobs, w)
  BY SameLinks
<1>2. \A w \in Links : Ref(w)' = Ref(w)
  <2> SUFFICES ASSUME NEW w \in Links
               PROVE  Ref(w)' = Ref(w)
    OBVIOUS
  <2>1. Ref(w)' = buildData'[InputOf(jobs', w)][w[2][2]]
    BY DEF Ref, InputOf
  <2> QED  BY <1>1, <2>1
<1>3. RefInv'
  BY <1>1, <1>2 DEF RefInv
<1>4. CountInv'
  <2> SUFFICES ASSUME NEW x \in DOMAIN data'
               PROVE  data'[x].pendingLinks = Cardinality(LinksTo(x)')
    BY DEF CountInv
  <2>1. LinksTo(x)' = {w \in Links : Ref(w) = x}
    BY <1>1, <1>2 DEF LinksTo
  <2>2. CASE x \in DOMAIN data
    BY <2>1, <2>2 DEF CountInv, PendingSame, LinksTo
  <2>3. CASE x \notin DOMAIN data
    <3>1. LinksTo(x)' = {}
      BY <2>1, <2>3 DEF RefInv
    <3> QED  BY <2>3, <3>1, FS_EmptySet
  <2> QED  BY <2>2, <2>3
<1> QED  BY <1>3, <1>4

\* Nothing is linked against data without pending links.
LEMMA NoLinkTo ==
  ASSUME TypeInv, CountInv, NEW x \in DOMAIN data, data[x].pendingLinks = 0
  PROVE  \A w \in Links : Ref(w) # x
<1>1. IsFiniteSet(Links)
  BY FiniteLinks DEF TypeInv, Links
<1>2. IsFiniteSet(LinksTo(x))
  BY <1>1, FS_Subset DEF LinksTo
<1>3. LinksTo(x) = {}
  BY <1>2, FS_EmptySet DEF CountInv
<1> QED  BY <1>3 DEF LinksTo

\* A program without build data is not counted.
LEMMA NoLinkOf ==
  ASSUME TypeInv, RefInv, NEW p, Unbuilt(p)
  PROVE  \A w \in Links : InputOf(jobs, w) # p
<1>1. 0 \notin DOMAIN data
  BY DataAre
<1> SUFFICES ASSUME NEW w \in Links, InputOf(jobs, w) = p
             PROVE  FALSE
  OBVIOUS
<1>2. Ref(w) = 0
  BY LinksAre, RefIs DEF Unbuilt
<1> QED  BY <1>1, <1>2 DEF RefInv

\* Programs made by links have no build data before.
LEMMA UnbuiltKept ==
  ASSUME UnbuiltInv, kind' = kind, HandlesKept,
         \A p \in Programs : kind[p] = "linked" /\ handle[p] = "none" =>
           \A d \in Devices : buildData'[p][d] = buildData[p][d],
         \A i \in DOMAIN jobs' : jobs'[i].op = "link" /\ jobs'[i].pc \in EarlyPcs =>
           \A d \in Devices : buildData'[jobs'[i].prog][d] = 0
  PROVE  UnbuiltInv'
<1>1. \A p \in Programs : kind'[p] = "linked" /\ handle'[p] = "none" =>
        \A d \in Devices : buildData'[p][d] = 0
  BY DEF UnbuiltInv, Unbuilt, HandlesKept
<1> QED  BY <1>1 DEF UnbuiltInv, Unbuilt

\* A step of a job gives no program build data.
LEMMA UnbuiltOneJob ==
  ASSUME CoreInv, UnbuiltInv, NEW j, GoesOn(j)
  PROVE  UnbuiltInv'
<1>1. /\ OneJob(j) /\ kind' = kind /\ HandlesKept /\ buildData' = buildData
      /\ j \in DOMAIN jobs /\ DOMAIN jobs' = DOMAIN jobs
      /\ \A i \in DOMAIN jobs : i # j => jobs'[i] = jobs[i]
      /\ jobs'[j].pc \in EarlyPcs => jobs[j].pc \in EarlyPcs
      /\ jobs'[j].pc # "done" => jobs'[j].op = jobs[j].op /\ jobs'[j].prog = jobs[j].prog
  BY DEF GoesOn, Kept, OneJob
<1>2. ASSUME NEW i \in DOMAIN jobs', jobs'[i].op = "link", jobs'[i].pc \in EarlyPcs
      PROVE  \A d \in Devices : buildData'[jobs'[i].prog][d] = 0
  <2>1. jobs'[i].pc # "done"
    BY <1>2 DEF EarlyPcs
  <2>2. jobs[i].op = "link" /\ jobs[i].pc \in EarlyPcs /\ jobs'[i].prog = jobs[i].prog
    BY <1>1, <1>2, <2>1
  <2> QED  BY <1>1, <2>2 DEF UnbuiltInv, Unbuilt
<1> QED  BY <1>1, <1>2, UnbuiltKept

\* A step that counts and releases nothing.
LEMMA LinksQuietStep ==
  ASSUME CoreInv, LinksInv, NEW j, GoesOn(j), LinksSame(j)
  PROVE  LinksInv'
<1>1. TypeInv /\ UnbuiltInv /\ RefInv /\ CountInv
  BY DEF CoreInv, LinksInv
<1>2. /\ buildData' = buildData /\ DOMAIN data' = DOMAIN data /\ DOMAIN jobs' = DOMAIN jobs
      /\ \A i \in DOMAIN jobs : i # j => jobs'[i] = jobs[i]
  BY DEF GoesOn, OneJob
<1>3. LinksCarried
  BY <1>2 DEF LinksCarried, LinksSame
<1>4. \A w \in Links : buildData'[InputOf(jobs, w)][w[2][2]] = Ref(w)
  BY <1>2, RefIs
<1>5. RefInv' /\ CountInv'
  BY <1>1, <1>2, <1>3, <1>4, SameCount DEF LinksSame
<1> QED  BY <1>1, <1>5, UnbuiltOneJob DEF LinksInv

\* What is counted adds to the pending links of what it refers to.
LEMMA LinksCountStep ==
  ASSUME CoreInv, LinksInv, NEW j, GoesOn(j), CountRule(j)
  PROVE  LinksInv'
<1>1. TypeInv /\ UnbuiltInv /\ RefInv /\ CountInv
  BY DEF CoreInv, LinksInv
<1>2. /\ buildData' = buildData /\ DOMAIN data' = DOMAIN data /\ DOMAIN jobs' = DOMAIN jobs
      /\ j \in DOMAIN jobs
      /\ \A i \in DOMAIN jobs : i # j => jobs'[i] = jobs[i]
  BY DEF GoesOn, OneJob
<1>3. PICK i \in DOMAIN jobs[j].inputs :
        /\ LinksIn(jobs'[j]) = LinksIn(jobs[j]) \cup ({i} \X Devices)
        /\ \A u \in LinksIn(jobs[j]) : u[1] # i
        /\ jobs'[j].inputs = jobs[j].inputs
        /\ \A d \in Devices : buildData[jobs[j].inputs[i]][d] # 0
        /\ \A x \in DOMAIN data : data'[x].pendingLinks =
             data[x].pendingLinks + Cardinality({d \in Devices : buildData[jobs[j].inputs[i]][d] = x})
  BY DEF CountRule
<1>4. PICK input \in Programs : input = jobs[j].inputs[i]
  <2>1. jobs[j].inputs \in Seq(Programs)
    BY <1>1, <1>2, JobsAre
  <2> QED  BY <2>1, LenProperties, ElementOfSeq
<1>5. \A w : w \in Links' <=> w \in Links \/ \E d \in Devices : w = <<j, <<i, d>>>>
  <2> SUFFICES ASSUME NEW w
               PROVE  w \in Links' <=> w \in Links \/ \E d \in Devices : w = <<j, <<i, d>>>>
    OBVIOUS
  <2>1. w \in Links' <=> \E k \in DOMAIN jobs' : \E u \in LinksIn(jobs'[k]) : w = <<k, u>>
    BY InLinks DEF Links
  <2>2. w \in Links <=> \E k \in DOMAIN jobs : \E u \in LinksIn(jobs[k]) : w = <<k, u>>
    BY InLinks DEF Links
  <2>3. \A u : u \in LinksIn(jobs'[j]) <=> u \in LinksIn(jobs[j]) \/ \E d \in Devices : u = <<i, d>>
    BY <1>3
  <2>4. \A k \in DOMAIN jobs : k # j => LinksIn(jobs'[k]) = LinksIn(jobs[k])
    BY <1>2
  <2> QED  BY <1>2, <2>1, <2>2, <2>3, <2>4
<1>6. \A w \in Links : Ref(w)' = Ref(w)
  <2> SUFFICES ASSUME NEW w \in Links
               PROVE  Ref(w)' = Ref(w)
    OBVIOUS
  <2>1. jobs'[w[1]].inputs = jobs[w[1]].inputs
    BY <1>1, <1>2, <1>3, LinksAre
  <2> QED  BY <1>2, <2>1 DEF Ref
<1>7. \A d \in Devices : Ref(<<j, <<i, d>>>>)' = buildData[input][d]
  BY <1>2, <1>3, <1>4 DEF Ref
<1>8. \A d \in Devices : <<j, <<i, d>>>> \notin Links
  <2> SUFFICES ASSUME NEW d \in Devices, <<j, <<i, d>>>> \in Links
               PROVE  FALSE
    OBVIOUS
  <2>1. <<i, d>> \in LinksIn(jobs[j])
    BY <1>1, LinksAre
  <2> QED  BY <1>3, <2>1
<1>9. RefInv'
  <2> SUFFICES ASSUME NEW w \in Links'
               PROVE  Ref(w)' \in DOMAIN data
    BY <1>2 DEF RefInv
  <2>1. CASE w \in Links
    BY <1>1, <1>6, <2>1 DEF RefInv
  <2>2. ASSUME NEW d \in Devices, w = <<j, <<i, d>>>>
        PROVE  Ref(w)' \in DOMAIN data
    <3>1. buildData[input][d] \in DOMAIN data
      BY <1>1, <1>3, <1>4, DataAre
    <3> QED  BY <1>7, <2>2, <3>1
  <2> QED  BY <1>5, <2>1, <2>2
<1>10. CountInv'
  <2> SUFFICES ASSUME NEW x \in DOMAIN data
               PROVE  data'[x].pendingLinks = Cardinality(LinksTo(x)')
    BY <1>2 DEF CountInv
  <2>1. PICK S : S = {d \in Devices : buildData[input][d] = x}
    OBVIOUS
  <2>2. PICK A : A = LinksTo(x)
    OBVIOUS
  <2>3. PICK B : B = LinksTo(x)'
    OBVIOUS
  <2>4. IsFiniteSet(S) /\ IsFiniteSet(A)
    <3>1. IsFiniteSet(Links)
      BY <1>1, FiniteLinks DEF TypeInv, Links
    <3>2. A \subseteq Links /\ S \subseteq Devices
      BY <2>1, <2>2 DEF LinksTo
    <3> QED  BY <3>1, <3>2, FiniteDevices, FS_Subset
  <2>5. PICK f : f = [d \in S |-> <<j, <<i, d>>>>]
    OBVIOUS
  <2>6. \A d \in S : f[d] = <<j, <<i, d>>>> /\ d \in Devices /\ f[d] \notin A
    BY <1>8, <2>1, <2>2, <2>5 DEF LinksTo
  <2>7. \A w : w \in B <=> w \in A \/ \E d \in S : w = f[d]
    <3> SUFFICES ASSUME NEW w
                 PROVE  w \in B <=> w \in A \/ \E d \in S : w = f[d]
      OBVIOUS
    <3>1. w \in B <=> w \in Links' /\ Ref(w)' = x
      BY <2>3 DEF LinksTo
    <3>2. w \in A <=> w \in Links /\ Ref(w) = x
      BY <2>2 DEF LinksTo
    <3>3. CASE w \in Links
      <4>1. \A d \in S : w # f[d]
        BY <1>8, <2>6, <3>3
      <4> QED  BY <1>5, <1>6, <3>1, <3>2, <3>3, <4>1
    <3>4. CASE w \notin Links
      <4>1. w \in B => \E d \in S : w = f[d]
        BY <1>5, <1>7, <2>1, <2>6, <3>1, <3>4
      <4>2. (\E d \in S : w = f[d]) => w \in B
        BY <1>5, <1>7, <2>1, <2>6, <3>1
      <4> QED  BY <3>2, <3>4, <4>1, <4>2
    <3> QED  BY <3>3, <3>4
  <2>8. DOMAIN f = S /\ \A d, e \in S : f[d] = f[e] => d = e
    BY <2>5, <2>6
  <2>9. Cardinality(B) = Cardinality(A) + Cardinality(S)
    BY <2>4, <2>6, <2>7, <2>8, GrownSet
  <2>10. data[x].pendingLinks = Cardinality(A)
    BY <1>1, <2>2 DEF CountInv
  <2>11. data'[x].pendingLinks = data[x].pendingLinks + Cardinality(S)
    BY <1>3, <1>4, <2>1
  <2> QED  BY <2>3, <2>9, <2>10, <2>11
<1> QED  BY <1>1, <1>9, <1>10, UnbuiltOneJob DEF LinksInv

\* What is released is taken from the pending links of what it refers to.
LEMMA LinksReleaseStep ==
  ASSUME CoreInv, LinksInv, NEW j, GoesOn(j), ReleaseRule(j)
  PROVE  LinksInv'
<1>1. TypeInv /\ UnbuiltInv /\ RefInv /\ CountInv
  BY DEF CoreInv, LinksInv
<1>2. /\ buildData' = buildData /\ DOMAIN data' = DOMAIN data /\ DOMAIN jobs' = DOMAIN jobs
      /\ j \in DOMAIN jobs /\ jobs' \in Seq(JobRecord)
      /\ \A i \in DOMAIN jobs : i # j => jobs'[i] = jobs[i]
  BY DEF GoesOn, OneJob
<1>3. PICK d \in Devices :
        /\ LinksIn(jobs[j]) = LinksIn(jobs'[j]) \cup ((DOMAIN jobs[j].inputs) \X {d})
        /\ \A u \in LinksIn(jobs'[j]) : u[2] # d /\ jobs'[j].inputs[u[1]] = jobs[j].inputs[u[1]]
        /\ \A x \in DOMAIN data : data'[x].pendingLinks = data[x].pendingLinks -
             Cardinality({i \in DOMAIN jobs[j].inputs : buildData[jobs[j].inputs[i]][d] = x})
  BY DEF ReleaseRule
<1>4. PICK I : I = DOMAIN jobs[j].inputs /\ IsFiniteSet(I)
  <2>1. jobs[j].inputs \in Seq(Programs)
    BY <1>1, <1>2, JobsAre
  <2>2. DOMAIN jobs[j].inputs = 1 .. Len(jobs[j].inputs) /\ Len(jobs[j].inputs) \in Nat
    BY <2>1, LenProperties
  <2> QED  BY <2>2, FS_Interval
<1>5. \A w : w \in Links <=> w \in Links' \/ \E i \in I : w = <<j, <<i, d>>>>
  <2> SUFFICES ASSUME NEW w
               PROVE  w \in Links <=> w \in Links' \/ \E i \in I : w = <<j, <<i, d>>>>
    OBVIOUS
  <2>1. w \in Links' <=> \E k \in DOMAIN jobs' : \E u \in LinksIn(jobs'[k]) : w = <<k, u>>
    BY InLinks DEF Links
  <2>2. w \in Links <=> \E k \in DOMAIN jobs : \E u \in LinksIn(jobs[k]) : w = <<k, u>>
    BY InLinks DEF Links
  <2>3. \A u : u \in LinksIn(jobs[j]) <=> u \in LinksIn(jobs'[j]) \/ \E i \in I : u = <<i, d>>
    BY <1>3, <1>4
  <2>4. \A k \in DOMAIN jobs : k # j => LinksIn(jobs'[k]) = LinksIn(jobs[k])
    BY <1>2
  <2> QED  BY <1>2, <2>1, <2>2, <2>3, <2>4
<1>6. \A w \in Links' : Ref(w)' = Ref(w)
  <2> SUFFICES ASSUME NEW w \in Links'
               PROVE  Ref(w)' = Ref(w)
    OBVIOUS
  <2>1. PICK k \in DOMAIN jobs' : \E u \in LinksIn(jobs'[k]) : w = <<k, u>>
    BY InLinks DEF Links
  <2>2. PICK u \in LinksIn(jobs'[k]) : w = <<k, u>>
    BY <2>1
  <2>3. jobs'[k].inputs[u[1]] = jobs[k].inputs[u[1]]
    BY <1>2, <1>3, <2>2
  <2> QED  BY <1>2, <2>2, <2>3 DEF Ref
<1>7. \A i \in I : Ref(<<j, <<i, d>>>>) = buildData[jobs[j].inputs[i]][d]
  BY DEF Ref
<1>8. \A i \in I : <<j, <<i, d>>>> \notin Links'
  <2> SUFFICES ASSUME NEW i \in I, <<j, <<i, d>>>> \in Links'
               PROVE  FALSE
    OBVIOUS
  <2>1. <<i, d>> \in LinksIn(jobs'[j])
    BY InLinks DEF Links
  <2> QED  BY <1>3, <2>1
<1>9. RefInv'
  BY <1>1, <1>2, <1>5, <1>6 DEF RefInv
<1>10. CountInv'
  <2> SUFFICES ASSUME NEW x \in DOMAIN data
               PROVE  data'[x].pendingLinks = Cardinality(LinksTo(x)')
    BY <1>2 DEF CountInv
  <2>1. PICK S : S = {i \in I : buildData[jobs[j].inputs[i]][d] = x}
    OBVIOUS
  <2>2. PICK A : A = LinksTo(x)'
    OBVIOUS
  <2>3. PICK B : B = LinksTo(x)
    OBVIOUS
  <2>4. IsFiniteSet(S) /\ IsFiniteSet(A)
    <3>1. IsFiniteSet(Links')
      BY <1>2, FiniteLinks DEF Links
    <3>2. A \subseteq Links' /\ S \subseteq I
      BY <2>1, <2>2 DEF LinksTo
    <3> QED  BY <1>4, <3>1, <3>2, FS_Subset
  <2>5. PICK f : f = [i \in S |-> <<j, <<i, d>>>>]
    OBVIOUS
  <2>6. \A i \in S : f[i] = <<j, <<i, d>>>> /\ i \in I /\ f[i] \notin A
    BY <1>8, <2>1, <2>2, <2>5 DEF LinksTo
  <2>7. \A w : w \in B <=> w \in A \/ \E i \in S : w = f[i]
    <3> SUFFICES ASSUME NEW w
                 PROVE  w \in B <=> w \in A \/ \E i \in S : w = f[i]
      OBVIOUS
    <3>1. w \in A <=> w \in Links' /\ Ref(w)' = x
      BY <2>2 DEF LinksTo
    <3>2. w \in B <=> w \in Links /\ Ref(w) = x
      BY <2>3 DEF LinksTo
    <3>3. CASE w \in Links'
      <4>1. \A i \in S : w # f[i]
        BY <1>8, <2>6, <3>3
      <4> QED  BY <1>5, <1>6, <3>1, <3>2, <3>3, <4>1
    <3>4. CASE w \notin Links'
      <4>1. w \in B => \E i \in S : w = f[i]
        BY <1>5, <1>7, <2>1, <2>6, <3>2, <3>4
      <4>2. (\E i \in S : w = f[i]) => w \in B
        BY <1>5, <1>7, <2>1, <2>6, <3>2
      <4> QED  BY <3>1, <3>4, <4>1, <4>2
    <3> QED  BY <3>3, <3>4
  <2>8. DOMAIN f = S /\ \A i, k \in S : f[i] = f[k] => i = k
    BY <2>5, <2>6
  <2>9. Cardinality(B) = Cardinality(A) + Cardinality(S) /\ Cardinality(A) \in Nat /\ Cardinality(S) \in Nat
    BY <2>4, <2>6, <2>7, <2>8, GrownSet
  <2>10. data[x].pendingLinks = Cardinality(B)
    BY <1>1, <2>3 DEF CountInv
  <2>11. data'[x].pendingLinks = data[x].pendingLinks - Cardinality(S)
    BY <1>3, <1>4, <2>1
  <2> QED  BY <2>2, <2>9, <2>10, <2>11
<1> QED  BY <1>1, <1>9, <1>10, UnbuiltOneJob DEF LinksInv

\* Other programs keep what they have when one gets new data.
LEMMA NewDataQuiet ==
  ASSUME NEW p, NEW D, NewDataFor(p, D)
  PROVE  /\ DOMAIN data \subseteq DOMAIN data' /\ PendingSame
         /\ \A x \in (DOMAIN data') \ DOMAIN data : data'[x].pendingLinks = 0
<1>1. PerDeviceData.pendingLinks = 0
  BY DEF PerDeviceData
<1> QED  BY <1>1 DEF NewDataFor, PendingSame

\* LinkPrograms begins: the program that gets new data is no one's input yet.
LEMMA LinksStartStep ==
  ASSUME CoreInv, LinksInv, NEW j, StartRule(j)
  PROVE  LinksInv'
<1>1. TypeInv /\ LinkInv /\ NoneInv /\ UnbuiltInv /\ RefInv /\ CountInv
  BY DEF CoreInv, LinksInv
<1>2. /\ j \in DOMAIN jobs /\ Linking(j) /\ DOMAIN jobs' = DOMAIN jobs
      /\ \A i \in DOMAIN jobs : i # j => jobs'[i] = jobs[i]
      /\ LinksIn(jobs'[j]) = LinksIn(jobs[j])
      /\ \A u \in LinksIn(jobs[j]) : jobs'[j].inputs[u[1]] = jobs[j].inputs[u[1]]
      /\ NewDataFor(jobs[j].prog, Devices) /\ kind' = kind /\ HandlesKept
      /\ jobs[j].pc \in EarlyPcs /\ jobs'[j].pc \notin EarlyPcs
  BY DEF StartRule, OneJob, Kept, Linking, Active, EarlyPcs
<1>3. PICK p \in Programs : p = jobs[j].prog
  BY <1>1, <1>2, JobsAre
<1>4. Unbuilt(p)
  BY <1>1, <1>2, <1>3 DEF UnbuiltInv, Linking
<1>5. LinksCarried
  BY <1>2 DEF LinksCarried
<1>6. \A w \in Links : buildData'[InputOf(jobs, w)][w[2][2]] = Ref(w)
  <2> SUFFICES ASSUME NEW w \in Links
               PROVE  buildData'[InputOf(jobs, w)][w[2][2]] = Ref(w)
    OBVIOUS
  <2>1. InputOf(jobs, w) # p
    BY <1>1, <1>4, NoLinkOf
  <2>2. InputOf(jobs, w) \in Programs /\ w[2][2] \in Devices
    BY <1>1, LinksAre
  <2> QED  BY <1>2, <1>3, <2>1, <2>2, RefIs DEF NewDataFor
<1>7. RefInv' /\ CountInv'
  BY <1>1, <1>2, <1>5, <1>6, NewDataQuiet, SameCount
<1>8. UnbuiltInv'
  <2>1. \A q \in Programs : q # p => \A d \in Devices : buildData'[q][d] = buildData[q][d]
    BY <1>2, <1>3 DEF NewDataFor
  <2>2. handle[p] # "none"
    BY <1>1, <1>2, <1>3 DEF NoneInv, Linking
  <2>3. ASSUME NEW i \in DOMAIN jobs', jobs'[i].op = "link", jobs'[i].pc \in EarlyPcs
        PROVE  \A d \in Devices : buildData'[jobs'[i].prog][d] = 0
    <3>1. i # j /\ jobs'[i] = jobs[i] /\ i \in DOMAIN jobs
      BY <1>2, <2>3
    <3>2. Linking(i)
      BY <2>3, <3>1 DEF Linking, Active, EarlyPcs
    <3>3. jobs[i].prog # p /\ jobs[i].prog \in Programs
      BY <1>1, <1>2, <1>3, <3>1, <3>2, JobsAre DEF LinkInv
    <3>4. Unbuilt(jobs[i].prog)
      BY <1>1, <2>3, <3>1 DEF UnbuiltInv
    <3> QED  BY <2>1, <3>1, <3>3, <3>4 DEF Unbuilt
  <2> QED  BY <1>1, <1>2, <2>1, <2>2, <2>3, UnbuiltKept
<1> QED  BY <1>7, <1>8 DEF LinksInv

\* A call that adds a job has counted nothing yet.
LEMMA NewJobCarries ==
  ASSUME TypeInv, NEW r, NewJob(r), LinksIn(r) = {}
  PROVE  LinksCarried
<1>1. PICK n : /\ n \notin DOMAIN jobs /\ DOMAIN jobs' = DOMAIN jobs \cup {n}
               /\ jobs'[n] = r /\ \A i \in DOMAIN jobs : jobs'[i] = jobs[i]
  BY OtherJobs
<1> QED  BY <1>1 DEF LinksCarried

\* A build replaces no data that a link has counted.
LEMMA LinksBuildCall ==
  ASSUME CoreInv, LinksInv, NEW r, BuildCall(r)
  PROVE  LinksInv'
<1>1. TypeInv /\ LinkInv /\ UnbuiltInv /\ RefInv /\ CountInv
  BY DEF CoreInv, LinksInv
<1>2. /\ NewJob(r) /\ r \in JobRecord /\ r.prog \in Programs /\ r.devices \subseteq Devices
      /\ NewDataFor(r.prog, r.devices) /\ r.op # "link" /\ kind[r.prog] # "linked"
      /\ kind' = kind /\ HandlesKept
      /\ \A x \in DataOf(r.prog, r.devices) : data[x].pendingLinks = 0
  BY DEF BuildCall, NewJob, Kept, Free, JobRecord
<1>3. LinksCarried
  <2>1. LinksIn(r) = {}
    BY <1>2 DEF LinksIn
  <2> QED  BY <1>1, <1>2, <2>1, NewJobCarries
<1>4. \A w \in Links : buildData'[InputOf(jobs, w)][w[2][2]] = Ref(w)
  <2> SUFFICES ASSUME NEW w \in Links
               PROVE  buildData'[InputOf(jobs, w)][w[2][2]] = Ref(w)
    OBVIOUS
  <2>1. InputOf(jobs, w) \in Programs /\ w[2][2] \in Devices
    BY <1>1, LinksAre
  <2>2. Ref(w) = buildData[InputOf(jobs, w)][w[2][2]] /\ Ref(w) \in DOMAIN data
    BY <1>1, RefIs DEF RefInv
  <2>3. ~(InputOf(jobs, w) = r.prog /\ w[2][2] \in r.devices)
    <3> SUFFICES ASSUME InputOf(jobs, w) = r.prog, w[2][2] \in r.devices
                 PROVE  FALSE
      OBVIOUS
    <3>1. Ref(w) # 0
      BY <1>1, <2>2, DataAre
    <3>2. Ref(w) \in DataOf(r.prog, r.devices)
      BY <2>2, <3>1 DEF DataOf
    <3>3. data[Ref(w)].pendingLinks = 0
      BY <1>2, <3>2
    <3> QED  BY <1>1, <2>2, <3>3, NoLinkTo
  <2> QED  BY <1>2, <2>1, <2>2, <2>3 DEF NewDataFor
<1>5. RefInv' /\ CountInv'
  BY <1>1, <1>2, <1>3, <1>4, NewDataQuiet, SameCount
<1>6. UnbuiltInv'
  <2>1. \A q \in Programs : q # r.prog => \A d \in Devices : buildData'[q][d] = buildData[q][d]
    BY <1>2 DEF NewDataFor
  <2>2. PICK n : /\ n \notin DOMAIN jobs /\ DOMAIN jobs' = DOMAIN jobs \cup {n}
                 /\ jobs'[n] = r /\ \A i \in DOMAIN jobs : jobs'[i] = jobs[i]
    BY <1>1, <1>2, OtherJobs
  <2>3. ASSUME NEW i \in DOMAIN jobs', jobs'[i].op = "link", jobs'[i].pc \in EarlyPcs
        PROVE  \A d \in Devices : buildData'[jobs'[i].prog][d] = 0
    <3>1. i \in DOMAIN jobs /\ jobs'[i] = jobs[i]
      BY <1>2, <2>2, <2>3
    <3>2. Linking(i)
      BY <2>3, <3>1 DEF Linking, Active, EarlyPcs
    <3>3. jobs[i].prog # r.prog /\ jobs[i].prog \in Programs
      BY <1>1, <1>2, <3>1, <3>2, JobsAre DEF LinkInv
    <3>4. Unbuilt(jobs[i].prog)
      BY <1>1, <2>3, <3>1 DEF UnbuiltInv
    <3> QED  BY <2>1, <3>1, <3>3, <3>4 DEF Unbuilt
  <2> QED  BY <1>1, <1>2, <2>1, <2>3, UnbuiltKept
<1> QED  BY <1>5, <1>6 DEF LinksInv

\* A second build keeps the data.
LEMMA LinksRelinkCall ==
  ASSUME CoreInv, LinksInv, NEW r, RelinkCall(r)
  PROVE  LinksInv'
<1>1. TypeInv /\ UnbuiltInv /\ RefInv /\ CountInv
  BY DEF CoreInv, LinksInv
<1>2. /\ NewJob(r) /\ r.op # "link" /\ kind' = kind /\ HandlesKept
      /\ buildData' = buildData /\ DOMAIN data' = DOMAIN data /\ PendingSame
  BY DEF RelinkCall, Kept
<1>3. LinksCarried
  <2>1. LinksIn(r) = {}
    BY <1>2 DEF LinksIn
  <2> QED  BY <1>1, <1>2, <2>1, NewJobCarries
<1>4. \A w \in Links : buildData'[InputOf(jobs, w)][w[2][2]] = Ref(w)
  BY <1>2, RefIs
<1>5. RefInv' /\ CountInv'
  BY <1>1, <1>2, <1>3, <1>4, SameCount
<1>6. UnbuiltInv'
  <2>1. PICK n : /\ n \notin DOMAIN jobs /\ DOMAIN jobs' = DOMAIN jobs \cup {n}
                 /\ jobs'[n] = r /\ \A i \in DOMAIN jobs : jobs'[i] = jobs[i]
    BY <1>1, <1>2, OtherJobs
  <2>2. ASSUME NEW i \in DOMAIN jobs', jobs'[i].op = "link", jobs'[i].pc \in EarlyPcs
        PROVE  \A d \in Devices : buildData'[jobs'[i].prog][d] = 0
    BY <1>1, <1>2, <2>1, <2>2 DEF UnbuiltInv, Unbuilt
  <2> QED  BY <1>1, <1>2, <2>2, UnbuiltKept
<1> QED  BY <1>5, <1>6 DEF LinksInv

\* A link begins at a program without build data.
LEMMA LinksLinkCall ==
  ASSUME CoreInv, LinksInv, NEW r, LinkCall(r)
  PROVE  LinksInv'
<1>1. TypeInv /\ UnbuiltInv /\ RefInv /\ CountInv
  BY DEF CoreInv, LinksInv
<1>2. /\ NewJob(r) /\ r.pc = "validate" /\ kind' = kind /\ HandlesKept
      /\ kind[r.prog] = "linked" /\ handle[r.prog] = "none" /\ r.prog \in Programs
      /\ buildData' = buildData /\ data' = data
  BY DEF LinkCall, Kept, NewJob, JobRecord
<1>3. LinksCarried
  <2>1. LinksIn(r) = {}
    BY <1>2 DEF LinksIn
  <2> QED  BY <1>1, <1>2, <2>1, NewJobCarries
<1>4. \A w \in Links : buildData'[InputOf(jobs, w)][w[2][2]] = Ref(w)
  BY <1>2, RefIs
<1>5. RefInv' /\ CountInv'
  <2>1. PendingSame
    BY <1>2 DEF PendingSame
  <2> QED  BY <1>1, <1>2, <1>3, <1>4, <2>1, SameCount
<1>6. UnbuiltInv'
  <2>1. PICK n : /\ n \notin DOMAIN jobs /\ DOMAIN jobs' = DOMAIN jobs \cup {n}
                 /\ jobs'[n] = r /\ \A i \in DOMAIN jobs : jobs'[i] = jobs[i]
    BY <1>1, <1>2, OtherJobs
  <2>2. ASSUME NEW i \in DOMAIN jobs', jobs'[i].op = "link", jobs'[i].pc \in EarlyPcs
        PROVE  \A d \in Devices : buildData'[jobs'[i].prog][d] = 0
    <3>1. CASE i = n
      BY <1>1, <1>2, <2>1, <3>1 DEF UnbuiltInv, Unbuilt
    <3>2. CASE i \in DOMAIN jobs
      BY <1>1, <1>2, <2>1, <2>2, <3>2 DEF UnbuiltInv, Unbuilt
    <3> QED  BY <2>1, <3>1, <3>2
  <2> QED  BY <1>1, <1>2, <2>2, UnbuiltKept
<1> QED  BY <1>5, <1>6 DEF LinksInv

\* Pending links are counted over every step.
LEMMA LinksStep ==
  ASSUME CoreInv, LinksInv, AnyStep
  PROVE  LinksInv'
<1>2. ASSUME NEW r, BuildCall(r) \/ RelinkCall(r) \/ LinkCall(r)
      PROVE  LinksInv'
  BY <1>2, LinksBuildCall, LinksRelinkCall, LinksLinkCall
<1>3. ASSUME NEW j, GoesOn(j), LinksSame(j)
      PROVE  LinksInv'
  BY <1>3, LinksQuietStep
<1>4. ASSUME NEW j, GoesOn(j), CountRule(j)
      PROVE  LinksInv'
  BY <1>4, LinksCountStep
<1>5. ASSUME NEW j, GoesOn(j), ReleaseRule(j)
      PROVE  LinksInv'
  BY <1>5, LinksReleaseStep
<1>6. ASSUME NEW j, StartRule(j)
      PROVE  LinksInv'
  BY <1>6, LinksStartStep
<1>7. CASE Still
  BY <1>7 DEF Still, LinksInv, UnbuiltInv, Unbuilt, RefInv, CountInv, LinksTo, Ref, Links
<1> QED  BY <1>2, <1>3, <1>4, <1>5, <1>6, <1>7 DEF AnyStep

\* The count of the invariant is the one of the property.
LEMMA LinksCounted ==
  ASSUME LinksInv
  PROVE  PendingLinksCounted
<1>1. CountedLinks = Links
  BY LinksOfJob DEF CountedLinks, Links, LinksAmong
<1>2. \A w : CountedAt(w) = Ref(w)
  BY DEF CountedAt, Ref
<1>3. ASSUME NEW x \in DOMAIN data
      PROVE  data[x].pendingLinks = Cardinality({w \in CountedLinks : CountedAt(w) = x})
  <2>1. LinksTo(x) = {w \in CountedLinks : CountedAt(w) = x}
    BY <1>1, <1>2 DEF LinksTo
  <2> QED  BY <2>1 DEF LinksInv, CountInv
<1> QED  BY <1>3 DEF PendingLinksCounted

\* However links, builds and compilations interleave, a PerDeviceData has a
\* pending link for each input and device that a link has counted and not yet
\* released, and no other: so m_NumPendingLinks never keeps a program from
\* being built when no link needs it, and never lets a build replace what a
\* link still reads.  This holds whatever the application calls.
THEOREM PendingLinksAreCounted == Spec => []PendingLinksCounted
<1>1. Init => CoreInv /\ LinksInv
  BY InitInv
<1>2. CoreInv /\ LinksInv /\ [Next]_programVars => (CoreInv /\ LinksInv)'
  BY NextIs, CoreStep, LinksStep
<1>3. LinksInv => PendingLinksCounted
  BY LinksCounted
<1> QED  BY <1>1, <1>2, <1>3, PTL DEF Spec

-----------------------------------------------------------------------------
(* Kernels.                                                                *)

KernelRecord ==
  [pc : {"none", "creating", "live", "freed"}, prog : Programs \cup {AnyProgram},
   data : Nat, refs : Int]

KernelTypes ==
  /\ kernels \in [KernelObjects -> KernelRecord]
  /\ numLiveKernels \in [Programs -> Int]
  /\ \A k \in KernelObjects :
       kernels[k].pc \in {"creating", "live"} => kernels[k].prog \in Programs

\* m_NumLiveKernels counts the live kernels of a program.
LiveOf(p) == {k \in KernelObjects : kernels[k].pc = "live" /\ kernels[k].prog = p}
LiveInv == \A p \in Programs : numLiveKernels[p] = Cardinality(LiveOf(p))

\* x is what program p has for device d, and it is not being built.
HasFor(p, d, x) ==
  x # 0 /\ buildData[p][d] = x /\ data[x].status # "IN_PROGRESS"

\* What a kernel refers to is there.
IntactInv ==
  \A k \in KernelObjects : kernels[k].pc \in {"creating", "live"} =>
    \E d \in Devices : HasFor(kernels[k].prog, d, kernels[k].data)

\* What a step does to the kernels: k begins to be made, is made, is copied to
\* c, loses a reference or gets n of them.
Begun(k) ==
  /\ kernels[k].pc = "none" /\ numLiveKernels' = numLiveKernels /\ Still
  /\ \E p \in Programs, d \in Devices :
       /\ HasFor(p, d, buildData[p][d])
       /\ kernels' = [kernels EXCEPT ![k] =
            [pc |-> "creating", prog |-> p, data |-> buildData[p][d], refs |-> 1]]
Made(k) ==
  /\ kernels[k].pc = "creating" /\ Still
  /\ kernels' = [kernels EXCEPT ![k].pc = "live"]
  /\ numLiveKernels' = [numLiveKernels EXCEPT ![kernels[k].prog] = @ + 1]
Copied(k, c) ==
  /\ kernels[k].pc = "live" /\ kernels[c].pc = "none" /\ Still
  /\ kernels' = [kernels EXCEPT ![c] = [kernels[k] EXCEPT !.refs = 1]]
  /\ numLiveKernels' = [numLiveKernels EXCEPT ![kernels[k].prog] = @ + 1]
Dropped(k) == kernels[k].pc = "live" /\ DropKernel(k) /\ Still
Referred(k, n) ==
  /\ kernels[k].pc = "live" /\ numLiveKernels' = numLiveKernels /\ Still
  /\ kernels' = [kernels EXCEPT ![k].refs = @ + n]
KernelsSame == UNCHANGED <<kernels, numLiveKernels>>

\* What the calls and jobs of Program do to the kernels.
ProgramMoves ==
  \/ KernelsSame
  \/ \E k \in KernelObjects : Begun(k) \/ Made(k)
  \/ \E k, c \in KernelObjects : Copied(k, c)

\* Jobs do nothing to them.
LEMMA JobsLeaveKernels ==
  ASSUME NEW j, JobStep(j)
  PROVE  KernelsSame
<1>1. CASE ProduceObject(j) \/ ProduceNoObject(j) \/ LinkObject(j) \/ FinishBuild(j)
           \/ FinishCompile(j) \/ FinishFailed(j)
  BY <1>1 DEF ProduceObject, ProduceNoObject, LinkObject, FinishBuild, FinishCompile,
     FinishFailed, Fault, KernelsSame
<1>2. CASE Relink(j) \/ CountPendingLinks(j)
  BY <1>2 DEF Relink, CountPendingLinks, Fault, KernelsSame
<1>3. CASE ValidateInput(j) \/ StartLink(j) \/ GatherObjects(j)
  BY <1>3 DEF ValidateInput, StartLink, GatherObjects, KernelsSame
<1>4. CASE LinkInputs(j) \/ ReleasePendingLinks(j)
  BY <1>4 DEF LinkInputs, ReleasePendingLinks, KernelsSame
<1> QED  BY <1>1, <1>2, <1>3, <1>4 DEF JobStep

\* Of the calls three do something.
LEMMA ProgramMovesKernels ==
  ASSUME ProgramCall \/ ProgramStep
  PROVE  ProgramMoves
<1>1. ASSUME NEW p \in Programs, NEW D \in SUBSET Devices,
             Build(p, D) \/ BuildBinary(p, D) \/ Compile(p, D)
      PROVE  ProgramMoves
  BY <1>1 DEF Build, BuildBinary, Compile, KernelsSame, ProgramMoves
<1>2. ASSUME NEW p \in Programs, NEW inputs \in Inputs, NEW async \in BOOLEAN,
             NEW library \in BOOLEAN, ClLinkProgram(p, inputs, async, library)
      PROVE  ProgramMoves
  BY <1>2 DEF ClLinkProgram, KernelsSame, ProgramMoves
<1>3. ASSUME NEW k \in KernelObjects, NEW p \in Programs, ClCreateKernel(k, p)
      PROVE  ProgramMoves
  <2>1. PICK d \in DevicesWithKernel(p) :
          kernels' = [kernels EXCEPT ![k] =
            [pc |-> "creating", prog |-> p, data |-> buildData[p][d], refs |-> 1]]
    BY <1>3 DEF ClCreateKernel
  <2>2. d \in Devices /\ HasFor(p, d, buildData[p][d])
    BY <2>1 DEF DevicesWithKernel, HasFor
  <2>3. Begun(k)
    BY <1>3, <2>1, <2>2 DEF Begun, ClCreateKernel, Still
  <2> QED  BY <2>3 DEF ProgramMoves
<1>4. ASSUME NEW k \in KernelObjects, NEW c \in KernelObjects, ClCloneKernel(k, c)
      PROVE  ProgramMoves
  <2>1. Copied(k, c)
    BY <1>4 DEF ClCloneKernel, Copied, Still
  <2> QED  BY <2>1 DEF ProgramMoves
<1>5. ASSUME NEW p \in Programs, CompareWithNoKernel(p)
      PROVE  ProgramMoves
  BY <1>5 DEF CompareWithNoKernel, Fault, KernelsSame, ProgramMoves
<1>6. ASSUME NEW j \in DOMAIN jobs, JobStep(j)
      PROVE  ProgramMoves
  BY <1>6, JobsLeaveKernels DEF ProgramMoves
<1>7. ASSUME NEW k \in KernelObjects, KernelCreated(k)
      PROVE  ProgramMoves
  <2>1. Made(k)
    BY <1>7 DEF KernelCreated, Made, Still
  <2> QED  BY <2>1 DEF ProgramMoves
<1> QED  BY <1>1, <1>2, <1>3, <1>4, <1>5, <1>6, <1>7 DEF ProgramCall, ProgramStep

-----------------------------------------------------------------------------
(* What a program has while it has kernels.                                *)

\* No build is let in for a program with kernels, nor with one in the making
\* if the application keeps to the order.
Guarded(p) ==
  \/ numLiveKernels[p] # 0
  \/ ~EarlyBuilds /\ \E k \in KernelObjects : kernels[k].pc = "creating" /\ kernels[k].prog = p

LEMMA NotFree ==
  ASSUME NEW p, Guarded(p), NEW r, Free(r)
  PROVE  r.prog # p
  BY DEF Guarded, Free, Busy

\* What is built stays while the program has kernels.
LEMMA BuiltStays ==
  ASSUME CoreInv, OwnedInv, UnbuiltInv, AnyStep,
         NEW p \in Programs, Guarded(p), NEW d \in Devices, NEW x, HasFor(p, d, x)
  PROVE  HasFor(p, d, x)'
<1>1. TypeInv
  BY DEF CoreInv
<1>2. x \in DOMAIN data /\ x # 0 /\ buildData[p][d] = x /\ data[x].status # "IN_PROGRESS"
  BY <1>1, DataAre DEF HasFor
<1>3. ASSUME NEW q, q # p, NEW D, NewDataFor(q, D)
      PROVE  HasFor(p, d, x)'
  BY <1>2, <1>3 DEF NewDataFor, HasFor
<1>4. ASSUME NEW r, BuildCall(r)
      PROVE  HasFor(p, d, x)'
  <2>1. r.prog # p /\ NewDataFor(r.prog, r.devices)
    BY <1>4, NotFree DEF BuildCall
  <2> QED  BY <1>3, <2>1
<1>5. ASSUME NEW r, RelinkCall(r)
      PROVE  HasFor(p, d, x)'
  <2>1. r.prog # p /\ r.prog \in Programs /\ r.devices \subseteq Devices
    BY <1>5, NotFree DEF RelinkCall, NewJob, JobRecord
  <2>2. x \notin DataOf(r.prog, r.devices)
    BY <1>2, <2>1 DEF DataOf, OwnedInv
  <2> QED  BY <1>2, <1>5, <2>2 DEF RelinkCall, HasFor
<1>6. ASSUME NEW r, LinkCall(r)
      PROVE  HasFor(p, d, x)'
  BY <1>2, <1>6 DEF LinkCall, HasFor
<1>7. ASSUME NEW j, GoesOn(j)
      PROVE  HasFor(p, d, x)'
  BY <1>2, <1>7 DEF GoesOn, StatusRule, HasFor
<1>8. ASSUME NEW j, StartRule(j)
      PROVE  HasFor(p, d, x)'
  <2>1. j \in DOMAIN jobs /\ jobs[j].op = "link" /\ jobs[j].pc \in EarlyPcs
    BY <1>8 DEF StartRule, OneJob, EarlyPcs
  <2>2. jobs[j].prog # p
    BY <1>2, <2>1 DEF UnbuiltInv, Unbuilt
  <2> QED  BY <1>3, <1>8, <2>2 DEF StartRule
<1>9. CASE Still
  BY <1>2, <1>9 DEF Still, HasFor
<1> QED  BY <1>4, <1>5, <1>6, <1>7, <1>8, <1>9 DEF AnyStep

\* A PerDeviceData keeps its owner.
LEMMA OwnedStep ==
  ASSUME CoreInv, OwnedInv, AnyStep
  PROVE  OwnedInv'
<1>1. TypeInv
  BY DEF CoreInv
<1>2. ASSUME NEW r, BuildCall(r)
      PROVE  OwnedInv'
  <2>1. r.prog \in Programs /\ NewDataFor(r.prog, r.devices)
    BY <1>2 DEF BuildCall, NewJob, JobRecord
  <2> QED  BY <1>1, <2>1, OwnedKept
<1>3. ASSUME NEW j, StartRule(j)
      PROVE  OwnedInv'
  <2>1. jobs[j].prog \in Programs /\ NewDataFor(jobs[j].prog, Devices)
    BY <1>1, <1>3, JobsAre DEF StartRule, OneJob
  <2> QED  BY <1>1, <2>1, OwnedKept
<1>4. CASE buildData' = buildData
  BY <1>4 DEF OwnedInv
<1> QED  BY <1>2, <1>3, <1>4 DEF AnyStep, RelinkCall, LinkCall, GoesOn, Still

-----------------------------------------------------------------------------
(* What a step does to the kernels.                                        *)

\* Kernel k is v now.
Becomes(k, v) ==
  /\ v \in KernelRecord
  /\ kernels' \in [KernelObjects -> KernelRecord]
  /\ \A c \in KernelObjects : kernels'[c] = IF c = k THEN v ELSE kernels[c]

LEMMA KernelUpdate ==
  ASSUME KernelTypes, NEW k \in KernelObjects, NEW v \in KernelRecord,
         kernels' = [kernels EXCEPT ![k] = v]
  PROVE  Becomes(k, v)
  BY DEF KernelTypes, Becomes

\* There are finitely many kernels.
LEMMA LiveFinite ==
  ASSUME NEW p
  PROVE  IsFiniteSet(LiveOf(p)) /\ Cardinality(LiveOf(p)) \in Nat
<1>1. LiveOf(p) \subseteq KernelObjects
  BY DEF LiveOf
<1>2. IsFiniteSet(LiveOf(p))
  BY <1>1, ExecutionAssumption, FS_Subset
<1> QED  BY <1>2, FS_CardinalityType

\* A kernel that is live before and after, or neither.
LEMMA LiveSame ==
  ASSUME KernelTypes, LiveInv, NEW k \in KernelObjects, NEW v, Becomes(k, v),
         numLiveKernels' = numLiveKernels,
         v.pc = "live" <=> kernels[k].pc = "live",
         v.pc = "live" => v.prog = kernels[k].prog
  PROVE  LiveInv'
<1> SUFFICES ASSUME NEW p \in Programs
             PROVE  numLiveKernels'[p] = Cardinality(LiveOf(p)')
  BY DEF LiveInv
<1>1. LiveOf(p)' = LiveOf(p)
  BY DEF LiveOf, Becomes
<1> QED  BY <1>1 DEF LiveInv

\* One live kernel more.
LEMMA OneMoreLive ==
  ASSUME KernelTypes, LiveInv, NEW k \in KernelObjects, NEW v, Becomes(k, v),
         kernels[k].pc # "live", v.pc = "live", v.prog \in Programs,
         numLiveKernels' = [numLiveKernels EXCEPT ![v.prog] = @ + 1]
  PROVE  LiveInv'
<1> SUFFICES ASSUME NEW p \in Programs
             PROVE  numLiveKernels'[p] = Cardinality(LiveOf(p)')
  BY DEF LiveInv
<1>1. numLiveKernels[p] = Cardinality(LiveOf(p))
  BY DEF LiveInv
<1>2. numLiveKernels'[p] = IF p = v.prog THEN numLiveKernels[p] + 1 ELSE numLiveKernels[p]
  BY DEF KernelTypes
<1>3. CASE p = v.prog
  <2>1. LiveOf(p)' = LiveOf(p) \cup {k} /\ k \notin LiveOf(p)
    BY <1>3 DEF LiveOf, Becomes
  <2>2. Cardinality(LiveOf(p) \cup {k}) = Cardinality(LiveOf(p)) + 1
    BY <2>1, LiveFinite, FS_AddElement
  <2> QED  BY <1>1, <1>2, <1>3, <2>1, <2>2
<1>4. CASE p # v.prog
  <2>1. LiveOf(p)' = LiveOf(p)
    BY <1>4 DEF LiveOf, Becomes
  <2> QED  BY <1>1, <1>2, <1>4, <2>1
<1> QED  BY <1>3, <1>4

\* One less.
LEMMA OneLessLive ==
  ASSUME KernelTypes, LiveInv, NEW k \in KernelObjects, NEW v, Becomes(k, v),
         kernels[k].pc = "live", v.pc # "live",
         numLiveKernels' = [numLiveKernels EXCEPT ![kernels[k].prog] = @ - 1]
  PROVE  LiveInv'
<1> SUFFICES ASSUME NEW p \in Programs
             PROVE  numLiveKernels'[p] = Cardinality(LiveOf(p)')
  BY DEF LiveInv
<1>1. numLiveKernels[p] = Cardinality(LiveOf(p))
  BY DEF LiveInv
<1>2. numLiveKernels'[p] = IF p = kernels[k].prog THEN numLiveKernels[p] - 1 ELSE numLiveKernels[p]
  BY DEF KernelTypes
<1>3. CASE p = kernels[k].prog
  <2>1. LiveOf(p)' = LiveOf(p) \ {k} /\ k \in LiveOf(p)
    BY <1>3 DEF LiveOf, Becomes
  <2>2. Cardinality(LiveOf(p) \ {k}) = Cardinality(LiveOf(p)) - 1
    BY <2>1, LiveFinite, FS_RemoveElement
  <2> QED  BY <1>1, <1>2, <1>3, <2>1, <2>2
<1>4. CASE p # kernels[k].prog
  <2>1. LiveOf(p)' = LiveOf(p)
    BY <1>4 DEF LiveOf, Becomes
  <2> QED  BY <1>1, <1>2, <1>4, <2>1
<1> QED  BY <1>3, <1>4

\* A kernel does not change its program, nor what it refers to.
Lasting ==
  \A k \in KernelObjects :
    kernels[k].pc \in {"creating", "live"} /\ kernels'[k].pc \in {"creating", "live"} =>
      kernels'[k].prog = kernels[k].prog /\ kernels'[k].data = kernels[k].data

KernelsKept == KernelTypes' /\ LiveInv' /\ Lasting

\* A kernel begins to be made ...
LEMMA BegunKeeps ==
  ASSUME TypeInv, KernelTypes, LiveInv, NEW k \in KernelObjects, Begun(k)
  PROVE  KernelsKept /\ \E v : Becomes(k, v) /\ v.pc = "creating" /\ v.refs = 1
<1>1. PICK p \in Programs, d \in Devices :
        kernels' = [kernels EXCEPT ![k] =
          [pc |-> "creating", prog |-> p, data |-> buildData[p][d], refs |-> 1]]
  BY DEF Begun
<1>2. PICK v : v = [pc |-> "creating", prog |-> p, data |-> buildData[p][d], refs |-> 1]
  OBVIOUS
<1>3. v \in KernelRecord /\ v.pc = "creating" /\ v.prog = p /\ v.refs = 1
  <2>1. buildData[p][d] \in Nat
    BY DataAre
  <2> QED  BY <1>2, <2>1 DEF KernelRecord
<1>4. Becomes(k, v)
  BY <1>1, <1>2, <1>3, KernelUpdate
<1>5. numLiveKernels' = numLiveKernels /\ kernels[k].pc = "none"
  BY DEF Begun
<1>6. KernelTypes'
  BY <1>3, <1>4, <1>5 DEF KernelTypes, Becomes
<1>7. LiveInv'
  BY <1>3, <1>4, <1>5, LiveSame
<1>8. Lasting
  BY <1>4, <1>5 DEF Lasting, Becomes
<1> QED  BY <1>3, <1>4, <1>6, <1>7, <1>8 DEF KernelsKept

\* ... is made ...
LEMMA MadeKeeps ==
  ASSUME KernelTypes, LiveInv, NEW k \in KernelObjects, Made(k)
  PROVE  KernelsKept /\ \E v : Becomes(k, v) /\ v.pc = "live" /\ v.refs = kernels[k].refs
<1>1. PICK r \in KernelRecord : r = kernels[k] /\ r.pc = "creating" /\ r.prog \in Programs
  BY DEF KernelTypes, Made
<1>2. PICK v : v = [r EXCEPT !.pc = "live"]
  OBVIOUS
<1>3. v \in KernelRecord /\ v.pc = "live" /\ v.prog = r.prog /\ v.data = r.data /\ v.refs = r.refs
  BY <1>2 DEF KernelRecord
<1>4. Becomes(k, v)
  <2>1. kernels' = [kernels EXCEPT ![k] = v]
    BY <1>1, <1>2 DEF Made
  <2> QED  BY <1>3, <2>1, KernelUpdate
<1>5. numLiveKernels' = [numLiveKernels EXCEPT ![v.prog] = @ + 1]
  BY <1>1, <1>3 DEF Made
<1>6. KernelTypes'
  BY <1>1, <1>3, <1>4, <1>5 DEF KernelTypes, Becomes
<1>7. LiveInv'
  BY <1>1, <1>3, <1>4, <1>5, OneMoreLive
<1>8. Lasting
  BY <1>1, <1>3, <1>4 DEF Lasting, Becomes
<1> QED  BY <1>1, <1>3, <1>4, <1>6, <1>7, <1>8 DEF KernelsKept

\* ... is copied ...
LEMMA CopiedKeeps ==
  ASSUME KernelTypes, LiveInv, NEW k \in KernelObjects, NEW c \in KernelObjects, Copied(k, c)
  PROVE  KernelsKept /\ \E v : Becomes(c, v) /\ v.pc = "live" /\ v.refs = 1
                               /\ v.prog = kernels[k].prog /\ v.data = kernels[k].data
<1>1. PICK r \in KernelRecord : r = kernels[k] /\ r.pc = "live" /\ r.prog \in Programs
  BY DEF KernelTypes, Copied
<1>2. PICK v : v = [r EXCEPT !.refs = 1]
  OBVIOUS
<1>3. v \in KernelRecord /\ v.pc = "live" /\ v.prog = r.prog /\ v.data = r.data /\ v.refs = 1
  BY <1>1, <1>2 DEF KernelRecord
<1>4. Becomes(c, v) /\ kernels[c].pc = "none"
  <2>1. kernels' = [kernels EXCEPT ![c] = v]
    BY <1>1, <1>2 DEF Copied
  <2> QED  BY <1>3, <2>1, KernelUpdate DEF Copied
<1>5. numLiveKernels' = [numLiveKernels EXCEPT ![v.prog] = @ + 1]
  BY <1>1, <1>3 DEF Copied
<1>6. KernelTypes'
  BY <1>1, <1>3, <1>4, <1>5 DEF KernelTypes, Becomes
<1>7. LiveInv'
  BY <1>1, <1>3, <1>4, <1>5, OneMoreLive
<1>8. Lasting
  BY <1>4 DEF Lasting, Becomes
<1> QED  BY <1>1, <1>3, <1>4, <1>6, <1>7, <1>8 DEF KernelsKept

\* ... gets references ...
LEMMA ReferredKeeps ==
  ASSUME KernelTypes, LiveInv, NEW k \in KernelObjects, NEW n \in Nat, Referred(k, n)
  PROVE  KernelsKept /\ \E v : Becomes(k, v) /\ v.pc = "live" /\ v.refs = kernels[k].refs + n
<1>1. PICK r \in KernelRecord : r = kernels[k] /\ r.pc = "live" /\ r.prog \in Programs
  BY DEF KernelTypes, Referred
<1>2. PICK v : v = [r EXCEPT !.refs = r.refs + n]
  OBVIOUS
<1>3. v \in KernelRecord /\ v.pc = "live" /\ v.prog = r.prog /\ v.data = r.data /\ v.refs = r.refs + n
  BY <1>1, <1>2 DEF KernelRecord
<1>4. Becomes(k, v)
  <2>1. kernels' = [kernels EXCEPT ![k] = v]
    BY <1>1, <1>2 DEF Referred
  <2> QED  BY <1>3, <2>1, KernelUpdate
<1>5. numLiveKernels' = numLiveKernels
  BY DEF Referred
<1>6. KernelTypes'
  BY <1>1, <1>3, <1>4, <1>5 DEF KernelTypes, Becomes
<1>7. LiveInv'
  BY <1>1, <1>3, <1>4, <1>5, LiveSame
<1>8. Lasting
  BY <1>1, <1>3, <1>4 DEF Lasting, Becomes
<1> QED  BY <1>1, <1>3, <1>4, <1>6, <1>7, <1>8 DEF KernelsKept

\* ... and loses one, and with the last goes itself.
LEMMA DroppedKeeps ==
  ASSUME KernelTypes, LiveInv, NEW k \in KernelObjects, Dropped(k)
  PROVE  /\ KernelsKept
         /\ \E v : Becomes(k, v) /\ IF kernels[k].refs = 1 THEN v.pc = "freed"
                                    ELSE v.pc = "live" /\ v.refs = kernels[k].refs - 1
<1>1. PICK r \in KernelRecord : r = kernels[k] /\ r.pc = "live" /\ r.prog \in Programs
  BY DEF KernelTypes, Dropped
<1>2. CASE r.refs = 1
  <2>1. PICK v : v = [NoKernel EXCEPT !.pc = "freed"]
    OBVIOUS
  <2>2. v \in KernelRecord /\ v.pc = "freed"
    BY <2>1 DEF KernelRecord, NoKernel
  <2>3. Becomes(k, v)
    <3>1. kernels' = [kernels EXCEPT ![k] = v]
      BY <1>1, <1>2, <2>1 DEF Dropped, DropKernel
    <3> QED  BY <2>2, <3>1, KernelUpdate
  <2>4. numLiveKernels' = [numLiveKernels EXCEPT ![kernels[k].prog] = @ - 1]
    BY <1>1, <1>2 DEF Dropped, DropKernel
  <2>5. KernelTypes'
    BY <1>1, <2>2, <2>3, <2>4 DEF KernelTypes, Becomes
  <2>6. LiveInv'
    BY <1>1, <2>2, <2>3, <2>4, OneLessLive
  <2>7. Lasting
    BY <2>2, <2>3 DEF Lasting, Becomes
  <2> QED  BY <1>1, <1>2, <2>2, <2>3, <2>5, <2>6, <2>7 DEF KernelsKept
<1>3. CASE r.refs # 1
  <2>1. PICK v : v = [r EXCEPT !.refs = r.refs - 1]
    OBVIOUS
  <2>2. v \in KernelRecord /\ v.pc = "live" /\ v.prog = r.prog /\ v.data = r.data /\ v.refs = r.refs - 1
    BY <1>1, <2>1 DEF KernelRecord
  <2>3. Becomes(k, v)
    <3>1. kernels' = [kernels EXCEPT ![k] = v]
      BY <1>1, <1>3, <2>1 DEF Dropped, DropKernel
    <3> QED  BY <2>2, <3>1, KernelUpdate
  <2>4. numLiveKernels' = numLiveKernels
    BY <1>1, <1>3 DEF Dropped, DropKernel, KernelTypes
  <2>5. KernelTypes'
    BY <1>1, <2>2, <2>3, <2>4 DEF KernelTypes, Becomes
  <2>6. LiveInv'
    BY <1>1, <2>2, <2>3, <2>4, LiveSame
  <2>7. Lasting
    BY <1>1, <2>2, <2>3 DEF Lasting, Becomes
  <2> QED  BY <1>1, <1>3, <2>2, <2>3, <2>5, <2>6, <2>7 DEF KernelsKept
<1> QED  BY <1>2, <1>3

\* A step as far as the kernels go.
KernelMoves ==
  \/ ProgramMoves
  \/ \E k \in KernelObjects : Dropped(k) \/ \E n \in Nat : Referred(k, n)

LEMMA KernelsStep ==
  ASSUME TypeInv, KernelTypes, LiveInv, KernelMoves
  PROVE  KernelsKept
<1>1. CASE KernelsSame
  BY <1>1 DEF KernelsSame, KernelsKept, KernelTypes, LiveInv, LiveOf, Lasting
<1>2. ASSUME NEW k \in KernelObjects, NEW c \in KernelObjects, NEW n \in Nat,
             \/ Begun(k) \/ Made(k) \/ Copied(k, c)
             \/ Dropped(k) \/ Referred(k, n)
      PROVE  KernelsKept
  BY <1>2, BegunKeeps, MadeKeeps, CopiedKeeps, DroppedKeeps, ReferredKeeps
<1> QED  BY <1>1, <1>2 DEF KernelMoves, ProgramMoves

\* A live kernel keeps the builds away.
LEMMA LiveGuards ==
  ASSUME KernelTypes, LiveInv, NEW k \in KernelObjects, kernels[k].pc = "live"
  PROVE  Guarded(kernels[k].prog) /\ kernels[k].prog \in Programs
<1>1. PICK p \in Programs : p = kernels[k].prog
  BY DEF KernelTypes
<1>2. k \in LiveOf(p)
  BY <1>1 DEF LiveOf
<1>3. Cardinality(LiveOf(p)) # 0
  BY <1>2, LiveFinite, FS_EmptySet
<1>4. numLiveKernels[p] # 0
  BY <1>3 DEF LiveInv
<1> QED  BY <1>1, <1>4 DEF Guarded

\* What kernels refer to stays.
LEMMA IntactStep ==
  ASSUME CoreInv, OwnedInv, UnbuiltInv, KernelTypes, LiveInv, IntactInv, ~EarlyBuilds,
         AnyStep, KernelMoves
  PROVE  IntactInv'
<1>1. TypeInv /\ Lasting
  BY KernelsStep DEF CoreInv, KernelsKept
<1>2. ASSUME NEW k \in KernelObjects, kernels[k].pc \in {"creating", "live"},
             NEW p, p = kernels[k].prog, NEW x, x = kernels[k].data
      PROVE  \E d \in Devices : HasFor(p, d, x)'
  <2>1. p \in Programs
    BY <1>2 DEF KernelTypes
  <2>2. Guarded(p)
    BY <1>2, LiveGuards DEF Guarded
  <2>3. PICK d \in Devices : HasFor(p, d, x)
    BY <1>2 DEF IntactInv
  <2>4. HasFor(p, d, x)'
    BY <2>1, <2>2, <2>3, BuiltStays
  <2> QED  BY <2>4
<1> SUFFICES ASSUME NEW k \in KernelObjects, kernels'[k].pc \in {"creating", "live"}
             PROVE  \E d \in Devices : HasFor(kernels[k].prog, d, kernels[k].data)'
  BY DEF IntactInv
<1>3. PICK p, x : p = kernels'[k].prog /\ x = kernels'[k].data
  OBVIOUS
<1> SUFFICES \E d \in Devices : HasFor(p, d, x)'
  BY <1>3 DEF HasFor
<1>4. CASE kernels[k].pc \in {"creating", "live"}
  <2>1. p = kernels[k].prog /\ x = kernels[k].data
    BY <1>1, <1>3, <1>4 DEF Lasting
  <2> QED  BY <1>2, <1>4, <2>1
<1>5. CASE kernels[k].pc \notin {"creating", "live"}
  <2>1. ASSUME NEW c \in KernelObjects, Begun(c)
        PROVE  \E d \in Devices : HasFor(p, d, x)'
    <3>1. PICK q \in Programs, d \in Devices :
            /\ HasFor(q, d, buildData[q][d])
            /\ kernels' = [kernels EXCEPT ![c] =
                 [pc |-> "creating", prog |-> q, data |-> buildData[q][d], refs |-> 1]]
      BY <2>1 DEF Begun
    <3>2. c = k
      BY <1>5, <3>1
    <3>3. p = q /\ x = buildData[q][d]
      BY <1>3, <3>1, <3>2 DEF KernelTypes
    <3> QED  BY <2>1, <3>1, <3>3 DEF Begun, Still, HasFor
  <2>2. ASSUME NEW c \in KernelObjects, NEW a \in KernelObjects, Copied(a, c)
        PROVE  \E d \in Devices : HasFor(p, d, x)'
    <3>1. PICK v : Becomes(c, v) /\ v.prog = kernels[a].prog /\ v.data = kernels[a].data
      BY <2>2, CopiedKeeps
    <3>2. c = k
      BY <1>5, <3>1 DEF Becomes
    <3>3. p = kernels[a].prog /\ x = kernels[a].data
      BY <1>3, <3>1, <3>2 DEF Becomes
    <3>4. kernels[a].pc = "live"
      BY <2>2 DEF Copied
    <3> QED  BY <1>2, <3>3, <3>4
  <2>3. ASSUME NEW c \in KernelObjects, NEW n \in Nat, Made(c) \/ Dropped(c) \/ Referred(c, n)
        PROVE  FALSE
    <3>1. kernels[c].pc \in {"creating", "live"}
      BY <2>3 DEF Made, Dropped, Referred
    <3>2. \E v : Becomes(c, v)
      BY <1>1, <2>3, MadeKeeps, DroppedKeeps, ReferredKeeps
    <3>3. c = k
      BY <1>5, <3>2 DEF Becomes
    <3> QED  BY <1>5, <3>1, <3>3
  <2>4. ~KernelsSame
    BY <1>5 DEF KernelsSame
  <2> QED  BY <2>1, <2>2, <2>3, <2>4 DEF KernelMoves, ProgramMoves
<1> QED  BY <1>4, <1>5

-----------------------------------------------------------------------------
(* Executions.                                                             *)

Keys == [data : Nat, device : Devices, config : Configs]
TaskRecord ==
  [pc : {"none", "queued", "ready", "asleep", "recorded", "failed", "done"},
   kernel : KernelObjects \cup {NoTask.kernel}, key : Keys \cup {<<>>}]
OpRecord == [pc : {"queued", "notify", "done"}, kernel : KernelObjects]

InUse(t)   == tasks[t].pc \notin {"none", "done"}
Waiting(t) == tasks[t].pc \in {"queued", "ready", "asleep"}

ExecTypes ==
  /\ tasks \in [Tasks -> TaskRecord]
  /\ \A t \in Tasks : InUse(t) => tasks[t].kernel \in KernelObjects /\ tasks[t].key \in DOMAIN ops
  /\ DOMAIN ops \subseteq Keys /\ IsFiniteSet(DOMAIN ops)
  /\ \A key \in DOMAIN ops : ops[key] \in OpRecord
  /\ DOMAIN cache = DOMAIN ops
  /\ \A key \in DOMAIN cache : cache[key] \in {"empty", "pso", "error"}

\* Each user of a kernel has a reference to it.
TasksOn(k) == {t \in Tasks : InUse(t) /\ tasks[t].kernel = k}
OpsOn(k) == {key \in DOMAIN ops : ops[key].pc # "done" /\ ops[key].kernel = k}
UsersInv ==
  \A k \in KernelObjects :
    /\ kernels[k].pc \in {"creating", "live"} => kernels[k].refs >= 1
    /\ IF kernels[k].pc = "live"
       THEN kernels[k].refs >= Cardinality(TasksOn(k)) + Cardinality(OpsOn(k))
       ELSE TasksOn(k) = {} /\ OpsOn(k) = {}

\* What a task waits for, and a specialisation is for, is in what the program
\* of its kernel has for the device.
Held(k, key) == HasFor(kernels[k].prog, key.device, key.data)
HeldInv ==
  /\ \A t \in Tasks : Waiting(t) => Held(tasks[t].kernel, tasks[t].key)
  /\ \A key \in DOMAIN ops : ops[key].pc # "done" => Held(ops[key].kernel, key)

\* There are finitely many users.
LEMMA UsersFinite ==
  ASSUME NEW k
  PROVE  /\ IsFiniteSet(TasksOn(k)) /\ Cardinality(TasksOn(k)) \in Nat
         /\ IsFiniteSet(DOMAIN ops) => IsFiniteSet(OpsOn(k)) /\ Cardinality(OpsOn(k)) \in Nat
<1>1. TasksOn(k) \subseteq Tasks /\ OpsOn(k) \subseteq DOMAIN ops
  BY DEF TasksOn, OpsOn
<1>2. IsFiniteSet(TasksOn(k))
  BY <1>1, ExecutionAssumption, FS_Subset
<1>3. IsFiniteSet(DOMAIN ops) => IsFiniteSet(OpsOn(k))
  BY <1>1, FS_Subset
<1> QED  BY <1>2, <1>3, FS_CardinalityType

\* Who uses a kernel.
LEMMA UsersAre ==
  ASSUME ExecTypes, UsersInv
  PROVE  /\ \A t \in Tasks : InUse(t) => /\ tasks[t].kernel \in KernelObjects
                                         /\ kernels[tasks[t].kernel].pc = "live"
         /\ \A key \in DOMAIN ops : ops[key].pc # "done" =>
              ops[key].kernel \in KernelObjects /\ kernels[ops[key].kernel].pc = "live"
<1>1. ASSUME NEW t \in Tasks, InUse(t)
      PROVE  tasks[t].kernel \in KernelObjects /\ kernels[tasks[t].kernel].pc = "live"
  <2>1. PICK k \in KernelObjects : k = tasks[t].kernel
    BY <1>1 DEF ExecTypes
  <2>2. t \in TasksOn(k)
    BY <1>1, <2>1 DEF TasksOn
  <2> QED  BY <2>1, <2>2 DEF UsersInv
<1>2. ASSUME NEW key \in DOMAIN ops, ops[key].pc # "done"
      PROVE  ops[key].kernel \in KernelObjects /\ kernels[ops[key].kernel].pc = "live"
  <2>1. PICK k \in KernelObjects : k = ops[key].kernel
    BY <1>2 DEF ExecTypes, OpRecord
  <2>2. key \in OpsOn(k)
    BY <1>2, <2>1 DEF OpsOn
  <2> QED  BY <2>1, <2>2 DEF UsersInv
<1> QED  BY <1>1, <1>2

-----------------------------------------------------------------------------
(* What a step does to the executions.                                     *)

\* The tasks and the specialisations go on with the kernels they have.
TasksGoOn ==
  \A t \in Tasks :
    /\ tasks'[t].kernel = tasks[t].kernel /\ tasks'[t].key = tasks[t].key
    /\ InUse(t)' <=> InUse(t)
    /\ Waiting(t)' => Waiting(t)
OpsGoOn ==
  /\ DOMAIN ops' = DOMAIN ops
  /\ \A key \in DOMAIN ops :
       ops'[key].kernel = ops[key].kernel /\ (ops'[key].pc = "done" <=> ops[key].pc = "done")

\* They go on, and the kernels are left alone or change as Program says; ...
GoOn == TasksGoOn /\ OpsGoOn /\ ProgramMoves

\* ... the application gives back a reference of its own; ...
ApiDropped(k) == UNCHANGED execVars /\ Dropped(k) /\ ApiReferences(k) > 0

\* ... a task gives back its kernel; ...
TaskEnds(t) ==
  /\ InUse(t) /\ tasks' = [tasks EXCEPT ![t].pc = "done"]
  /\ UNCHANGED <<cache, ops>>
  /\ Dropped(tasks[t].kernel)

\* ... a specialisation does; ...
OpEnds(key) ==
  /\ key \in DOMAIN ops /\ ops[key].pc # "done"
  /\ ops' = [ops EXCEPT ![key].pc = "done"]
  /\ UNCHANGED cache /\ TasksGoOn
  /\ Dropped(ops[key].kernel)

\* ... or a task with kernel k is enqueued, and perhaps a specialisation.
NewTask(t, k, key) ==
  /\ tasks[t].pc = "none" /\ kernels[k].pc = "live" /\ key \in Keys
  /\ UnbuiltDevices \/ HasFor(kernels[k].prog, key.device, key.data)
  /\ tasks' = [tasks EXCEPT ![t] = [pc |-> "queued", kernel |-> k, key |-> key]]
NewOp(k, key) ==
  /\ DOMAIN ops' = DOMAIN ops \cup {key}
  /\ ops'[key] = [pc |-> "queued", kernel |-> k]
  /\ \A c \in DOMAIN ops : ops'[c] = ops[c]
Enqueued(t, k, key) ==
  /\ NewTask(t, k, key)
  /\ \/ key \in DOMAIN ops /\ ops' = ops /\ Referred(k, 1)
     \/ key \notin DOMAIN ops /\ NewOp(k, key) /\ Referred(k, 2)

\* One of them, and types are kept.
ExecMoves ==
  /\ ExecTypes' /\ AnyStep
  /\ \/ GoOn
     \/ \E k \in KernelObjects : ApiDropped(k)
     \/ \E t \in Tasks : TaskEnds(t)
     \/ \E key \in DOMAIN ops : OpEnds(key)
     \/ \E t \in Tasks, k \in KernelObjects, key \in Keys : Enqueued(t, k, key)

\* Nothing happens to the executions.
LEMMA ExecSame ==
  ASSUME ExecTypes, UNCHANGED execVars
  PROVE  ExecTypes' /\ TasksGoOn /\ OpsGoOn
  BY DEF execVars, ExecTypes, InUse, Waiting, TasksGoOn, OpsGoOn

\* One task goes on.
LEMMA TaskUpdate ==
  ASSUME ExecTypes, NEW t \in Tasks, NEW pc, tasks' = [tasks EXCEPT ![t].pc = pc],
         pc \in {"ready", "asleep", "recorded", "failed", "done"},
         InUse(t), pc \in {"ready", "asleep"} => Waiting(t)
  PROVE  /\ tasks' \in [Tasks -> TaskRecord]
         /\ \A c \in Tasks : tasks'[c].kernel = tasks[c].kernel /\ tasks'[c].key = tasks[c].key
                             /\ tasks'[c].pc = IF c = t THEN pc ELSE tasks[c].pc
         /\ UNCHANGED <<cache, ops>> => ExecTypes'
         /\ pc # "done" => TasksGoOn
<1>1. tasks \in [Tasks -> TaskRecord]
  BY DEF ExecTypes
<1>2. PICK r \in TaskRecord : r = tasks[t]
  BY <1>1
<1>3. PICK v : v = [r EXCEPT !.pc = pc]
  OBVIOUS
<1>4. v \in TaskRecord /\ v.pc = pc /\ v.kernel = r.kernel /\ v.key = r.key
  BY <1>2, <1>3 DEF TaskRecord
<1>5. tasks' = [tasks EXCEPT ![t] = v]
  BY <1>2, <1>3
<1>6. tasks' \in [Tasks -> TaskRecord] /\ \A c \in Tasks : tasks'[c] = IF c = t THEN v ELSE tasks[c]
  BY <1>1, <1>4, <1>5
<1>7. \A c \in Tasks : tasks'[c].kernel = tasks[c].kernel /\ tasks'[c].key = tasks[c].key
                       /\ tasks'[c].pc = IF c = t THEN pc ELSE tasks[c].pc
  BY <1>2, <1>4, <1>6
<1>8. UNCHANGED <<cache, ops>> => ExecTypes'
  BY <1>6, <1>7 DEF ExecTypes, InUse
<1>9. pc # "done" => TasksGoOn
  BY <1>7 DEF TasksGoOn, InUse, Waiting
<1> QED  BY <1>6, <1>7, <1>8, <1>9

\* One task ends.
LEMMA TaskDone ==
  ASSUME ExecTypes, NEW t \in Tasks, TaskEnds(t)
  PROVE  \A c \in Tasks : /\ tasks'[c].kernel = tasks[c].kernel
                          /\ tasks'[c].key = tasks[c].key
                          /\ tasks'[c].pc = IF c = t THEN "done" ELSE tasks[c].pc
<1>1. PICK pc : pc = "done"
  OBVIOUS
<1>2. tasks' = [tasks EXCEPT ![t].pc = pc] /\ InUse(t) /\ pc \notin {"ready", "asleep"}
  BY <1>1 DEF TaskEnds
<1> QED  BY <1>1, <1>2, TaskUpdate

\* A specialisation goes on.
LEMMA OpUpdate ==
  ASSUME ExecTypes, NEW key \in DOMAIN ops, NEW pc \in {"notify", "done"},
         ops' = [ops EXCEPT ![key].pc = pc], ops[key].pc # "done",
         tasks' \in [Tasks -> TaskRecord], TasksGoOn,
         \/ cache' = cache
         \/ \E result \in {"pso", "error"} : cache' = [cache EXCEPT ![key] = result]
  PROVE  /\ ExecTypes'
         /\ DOMAIN ops' = DOMAIN ops
         /\ \A c \in DOMAIN ops : ops'[c].kernel = ops[c].kernel
                                  /\ ops'[c].pc = IF c = key THEN pc ELSE ops[c].pc
<1>1. PICK r \in OpRecord : r = ops[key]
  BY DEF ExecTypes
<1>2. PICK v : v = [r EXCEPT !.pc = pc]
  OBVIOUS
<1>3. v \in OpRecord /\ v.pc = pc /\ v.kernel = r.kernel
  BY <1>2 DEF OpRecord
<1>4. ops' = [ops EXCEPT ![key] = v]
  BY <1>1, <1>2
<1>5. DOMAIN ops' = DOMAIN ops /\ \A c \in DOMAIN ops : ops'[c] = IF c = key THEN v ELSE ops[c]
  BY <1>4
<1>6. DOMAIN cache' = DOMAIN cache
      /\ \A c \in DOMAIN cache : cache'[c] \in {"empty", "pso", "error"}
  BY DEF ExecTypes
<1>7. ExecTypes'
  BY <1>3, <1>5, <1>6 DEF ExecTypes, TasksGoOn
<1> QED  BY <1>1, <1>3, <1>5, <1>7

\* A faulting step changes nothing.
LEMMA FaultGoesOn ==
  ASSUME ExecTypes, NEW what, Fault(what), UNCHANGED execVars
  PROVE  ExecMoves
<1>1. KernelsSame /\ Still
  BY DEF Fault, KernelsSame, Still
<1> QED  BY <1>1, ExecSame DEF ExecMoves, GoOn, ProgramMoves, AnyStep

\* A function with one argument more.
LEMMA OneArgumentMore ==
  ASSUME NEW f, NEW key, key \notin DOMAIN f, NEW v, NEW g, g = TryEmplace(f, key, v)
  PROVE  /\ DOMAIN g = DOMAIN f \cup {key}
         /\ g[key] = v
         /\ \A c \in DOMAIN f : g[c] = f[c]
  BY DEF TryEmplace

\* An argument it has already.
LEMMA NoArgumentMore ==
  ASSUME NEW f, NEW key \in DOMAIN f, NEW v, NEW g, g = TryEmplace(f, key, v)
  PROVE  DOMAIN g = DOMAIN f /\ \A c \in DOMAIN f : g[c] = f[c]
  BY DEF TryEmplace

\* clEnqueueNDRangeKernel.
LEMMA EnqueueIs ==
  ASSUME TypeInv, KernelTypes, ExecTypes,
         NEW t \in Tasks, NEW k \in KernelObjects, NEW d \in Devices, NEW config \in Configs,
         ClEnqueueNDRangeKernel(t, k, d, config)
  PROVE  ExecMoves
<1>1. PICK p \in Programs : p = kernels[k].prog /\ kernels[k].pc = "live"
  BY DEF KernelTypes, ClEnqueueNDRangeKernel
<1>2. PICK key : key = KeyOf(k, d, config)
  OBVIOUS
<1>3. key \in Keys /\ key.data = buildData[p][d] /\ key.device = d
  <2>1. buildData[p][d] \in Nat
    BY DataAre
  <2> QED  BY <1>1, <1>2, <2>1 DEF KeyOf, Keys
<1>4. /\ tasks[t].pc = "none"
      /\ UnbuiltDevices \/ BuiltFor(p, d)
      /\ \/ Fault("build_data_of_a_device") /\ UNCHANGED execVars
         \/ /\ tasks' = [tasks EXCEPT ![t] = [pc |-> "queued", kernel |-> k, key |-> key]]
            /\ kernels' = [kernels EXCEPT ![k].refs = @ + References(key \notin DOMAIN cache)]
            /\ cache' = TryEmplace(cache, key, "empty")
            /\ ops' = IF key \notin DOMAIN cache
                      THEN TryEmplace(ops, key, [pc |-> "queued", kernel |-> k]) ELSE ops
            /\ UNCHANGED <<kind, handle, buildData, data, jobs, numLiveKernels, fault>>
  BY <1>1, <1>2 DEF ClEnqueueNDRangeKernel
<1>5. CASE Fault("build_data_of_a_device") /\ UNCHANGED execVars
  BY <1>5, FaultGoesOn
<1>6. CASE /\ tasks' = [tasks EXCEPT ![t] = [pc |-> "queued", kernel |-> k, key |-> key]]
           /\ kernels' = [kernels EXCEPT ![k].refs = @ + References(key \notin DOMAIN cache)]
           /\ cache' = TryEmplace(cache, key, "empty")
           /\ ops' = IF key \notin DOMAIN cache
                     THEN TryEmplace(ops, key, [pc |-> "queued", kernel |-> k]) ELSE ops
           /\ UNCHANGED <<kind, handle, buildData, data, jobs, numLiveKernels, fault>>
  <2>1. UnbuiltDevices \/ HasFor(p, key.device, key.data)
    BY <1>3, <1>4 DEF BuiltFor, HasFor
  <2>2. NewTask(t, k, key)
    BY <1>1, <1>3, <1>4, <1>6, <2>1 DEF NewTask
  <2>3. Still /\ numLiveKernels' = numLiveKernels
    BY <1>6 DEF Still
  <2>4. /\ DOMAIN cache' = DOMAIN cache \cup {key}
        /\ \A c \in DOMAIN cache' : cache'[c] \in {"empty", "pso", "error"}
    <3>1. PICK f, g, v : f = cache /\ g = cache' /\ v = "empty"
      OBVIOUS
    <3>2. g = TryEmplace(f, key, v)
      BY <1>6, <3>1
    <3>3. \A c \in DOMAIN f : f[c] \in {"empty", "pso", "error"}
      BY <3>1 DEF ExecTypes
    <3>4. /\ DOMAIN g = DOMAIN f \cup {key}
          /\ \A c \in DOMAIN g : g[c] \in {"empty", "pso", "error"}
      <4>1. CASE key \in DOMAIN f
        <5>1. DOMAIN g = DOMAIN f /\ \A c \in DOMAIN f : g[c] = f[c]
          BY <3>2, <4>1, NoArgumentMore
        <5> QED  BY <3>3, <4>1, <5>1
      <4>2. CASE key \notin DOMAIN f
        <5>1. DOMAIN g = DOMAIN f \cup {key} /\ g[key] = v /\ \A c \in DOMAIN f : g[c] = f[c]
          BY <3>2, <4>2, OneArgumentMore
        <5> QED  BY <3>1, <3>3, <5>1
      <4> QED  BY <4>1, <4>2
    <3> QED  BY <3>1, <3>4
  <2>5. PICK r \in TaskRecord : r = [pc |-> "queued", kernel |-> k, key |-> key]
    BY <1>3 DEF TaskRecord
  <2>6. tasks' \in [Tasks -> TaskRecord] /\ \A c \in Tasks : tasks'[c] = IF c = t THEN r ELSE tasks[c]
    BY <1>6, <2>5 DEF ExecTypes
  <2>7. CASE key \in DOMAIN ops
    <3>1. ops' = ops /\ Referred(k, 1)
      BY <1>1, <1>6, <2>3, <2>7 DEF ExecTypes, Referred, References
    <3>2. ExecTypes'
      <4>1. DOMAIN cache' = DOMAIN ops'
        BY <2>4, <2>7, <3>1 DEF ExecTypes
      <4>2. \A c \in Tasks : InUse(c)' => tasks'[c].kernel \in KernelObjects /\ tasks'[c].key \in DOMAIN ops'
        BY <2>5, <2>6, <2>7, <3>1 DEF ExecTypes, InUse
      <4>3. /\ DOMAIN ops' \subseteq Keys /\ IsFiniteSet(DOMAIN ops')
            /\ \A c \in DOMAIN ops' : ops'[c] \in OpRecord
        BY <3>1 DEF ExecTypes
      <4> QED  BY <2>4, <2>6, <4>1, <4>2, <4>3 DEF ExecTypes
    <3> QED  BY <1>3, <2>2, <2>3, <2>7, <3>1, <3>2 DEF ExecMoves, AnyStep, Enqueued
  <2>8. CASE key \notin DOMAIN ops
    <3>1. ops' = TryEmplace(ops, key, [pc |-> "queued", kernel |-> k]) /\ Referred(k, 2)
      BY <1>1, <1>6, <2>3, <2>8 DEF ExecTypes, Referred, References
    <3>2. NewOp(k, key)
      <4>1. PICK f, g, v : f = ops /\ g = ops' /\ v = [pc |-> "queued", kernel |-> k]
        OBVIOUS
      <4>2. g = TryEmplace(f, key, v)
        BY <3>1, <4>1
      <4>3. key \notin DOMAIN f
        BY <2>8, <4>1
      <4>4. DOMAIN g = DOMAIN f \cup {key} /\ g[key] = v /\ \A c \in DOMAIN f : g[c] = f[c]
        BY <4>2, <4>3 DEF TryEmplace
      <4> QED  BY <4>1, <4>4 DEF NewOp
    <3>3. ExecTypes'
      <4>1. IsFiniteSet(DOMAIN ops \cup {key})
        BY FS_AddElement DEF ExecTypes
      <4>2. ops'[key] \in OpRecord
        BY <3>2 DEF NewOp, OpRecord
      <4> QED  BY <1>3, <2>4, <2>5, <2>6, <3>2, <4>1, <4>2 DEF ExecTypes, InUse, NewOp
    <3> QED  BY <1>3, <2>2, <2>3, <2>8, <3>1, <3>2, <3>3 DEF ExecMoves, AnyStep, Enqueued
  <2> QED  BY <2>7, <2>8
<1> QED  BY <1>4, <1>5, <1>6

\* The steps of tasks.
LEMMA TaskStepIs ==
  ASSUME KernelTypes, ExecTypes, UsersInv, NEW t \in Tasks,
         ReleaseTask(t) \/ SpuriousWakeup(t) \/ RecordImpl(t)
  PROVE  ExecMoves
<1>1. CASE ReleaseTask(t)
  <2>1. InUse(t) /\ tasks' = [tasks EXCEPT ![t].pc = "done"] /\ UNCHANGED <<cache, ops>>
    BY <1>1 DEF ReleaseTask, InUse
  <2>2. ExecTypes'
    <3>1. PICK pc : pc = "done"
      OBVIOUS
    <3>2. tasks' = [tasks EXCEPT ![t].pc = pc] /\ pc \notin {"ready", "asleep"}
      BY <2>1, <3>1
    <3> QED  BY <2>1, <3>1, <3>2, TaskUpdate
  <2>3. Dropped(tasks[t].kernel)
    <3>1. kernels[tasks[t].kernel].pc = "live"
      BY <2>1, UsersAre
    <3> QED  BY <1>1, <3>1 DEF ReleaseTask, Dropped, Still
  <2>4. TaskEnds(t) /\ Still
    BY <2>1, <2>3 DEF TaskEnds, Dropped
  <2> QED  BY <2>2, <2>4 DEF ExecMoves, AnyStep
<1>2. CASE SpuriousWakeup(t) \/ RecordImpl(t)
  <2>1. UNCHANGED <<programVars, cache, ops>> /\ Waiting(t)
    BY <1>2 DEF SpuriousWakeup, RecordImpl, Waiting
  <2>2. PICK pc \in {"ready", "asleep", "recorded", "failed"} : tasks' = [tasks EXCEPT ![t].pc = pc]
    <3>1. CASE SpuriousWakeup(t)
      BY <3>1 DEF SpuriousWakeup
    <3>2. CASE RecordImpl(t)
      <4>1. cache[tasks[t].key] \in {"empty", "pso", "error"}
        BY <2>1 DEF ExecTypes, Waiting, InUse
      <4> QED  BY <3>2, <4>1 DEF RecordImpl
    <3> QED  BY <1>2, <3>1, <3>2
  <2>3. ExecTypes' /\ TasksGoOn
    BY <2>1, <2>2, TaskUpdate DEF Waiting, InUse
  <2>4. OpsGoOn /\ KernelsSame /\ Still
    BY <2>1 DEF OpsGoOn, KernelsSame, Still, programVars
  <2> QED  BY <2>3, <2>4 DEF ExecMoves, GoOn, ProgramMoves, AnyStep
<1> QED  BY <1>1, <1>2

\* The steps of specialisations.
LEMMA OpStepIs ==
  ASSUME KernelTypes, ExecTypes, UsersInv, NEW key \in DOMAIN ops,
         Specialize(key) \/ SpecializeNoKernel(key) \/ SpecializationComplete(key)
  PROVE  ExecMoves
<1>1. CASE Specialize(key)
  <2>1. /\ ops[key].pc = "queued" /\ ops' = [ops EXCEPT ![key].pc = "notify"]
        /\ UNCHANGED <<programVars, tasks>>
        /\ \E result \in {"pso", "error"} : cache' = [cache EXCEPT ![key] = result]
    BY <1>1 DEF Specialize
  <2>2. tasks' \in [Tasks -> TaskRecord] /\ TasksGoOn
    BY <2>1 DEF ExecTypes, TasksGoOn, InUse, Waiting
  <2>3. /\ ExecTypes' /\ DOMAIN ops' = DOMAIN ops
        /\ \A c \in DOMAIN ops : ops'[c].kernel = ops[c].kernel
                                 /\ ops'[c].pc = IF c = key THEN "notify" ELSE ops[c].pc
    <3>1. PICK pc \in {"notify", "done"} : pc = "notify"
      OBVIOUS
    <3>2. ops' = [ops EXCEPT ![key].pc = pc] /\ ops[key].pc # "done"
      BY <2>1, <3>1
    <3>3. /\ ExecTypes' /\ DOMAIN ops' = DOMAIN ops
          /\ \A c \in DOMAIN ops : ops'[c].kernel = ops[c].kernel
                                   /\ ops'[c].pc = IF c = key THEN pc ELSE ops[c].pc
      BY <2>1, <2>2, <3>2, OpUpdate
    <3> QED  BY <3>1, <3>3
  <2>4. OpsGoOn
    BY <2>1, <2>3 DEF OpsGoOn
  <2>5. KernelsSame /\ Still
    BY <2>1 DEF KernelsSame, Still, programVars
  <2> QED  BY <2>2, <2>3, <2>4, <2>5 DEF ExecMoves, GoOn, ProgramMoves, AnyStep
<1>2. CASE SpecializeNoKernel(key)
  <2>1. Fault("specialised_kernel") /\ UNCHANGED execVars
    BY <1>2 DEF SpecializeNoKernel
  <2> QED  BY <2>1, FaultGoesOn
<1>3. CASE SpecializationComplete(key)
  <2>1. PICK woken : /\ \A t \in woken : tasks[t].pc = "asleep"
                     /\ tasks' = [t \in Tasks |-> IF t \in woken
                                    THEN [tasks[t] EXCEPT !.pc = "ready"] ELSE tasks[t]]
    BY <1>3 DEF SpecializationComplete, WakeAll, AsleepOn
  <2>2. /\ ops[key].pc = "notify" /\ ops' = [ops EXCEPT ![key].pc = "done"]
        /\ DropKernel(ops[key].kernel)
        /\ UNCHANGED <<kind, handle, buildData, data, jobs, fault, cache>>
    BY <1>3 DEF SpecializationComplete
  <2>3. \A t \in Tasks :
          /\ tasks'[t] \in TaskRecord /\ tasks'[t].kernel = tasks[t].kernel
          /\ tasks'[t].key = tasks[t].key
          /\ tasks'[t].pc = IF t \in woken THEN "ready" ELSE tasks[t].pc
    <3> SUFFICES ASSUME NEW t \in Tasks
                 PROVE  /\ tasks'[t] \in TaskRecord /\ tasks'[t].kernel = tasks[t].kernel
                        /\ tasks'[t].key = tasks[t].key
                        /\ tasks'[t].pc = IF t \in woken THEN "ready" ELSE tasks[t].pc
      OBVIOUS
    <3>1. PICK r \in TaskRecord : r = tasks[t]
      BY DEF ExecTypes
    <3>2. tasks'[t] = IF t \in woken THEN [r EXCEPT !.pc = "ready"] ELSE r
      BY <2>1, <3>1
    <3> QED  BY <3>1, <3>2 DEF TaskRecord
  <2>4. tasks' \in [Tasks -> TaskRecord]
    BY <2>1, <2>3
  <2>5. TasksGoOn
    BY <2>1, <2>3 DEF TasksGoOn, InUse, Waiting
  <2>6. ExecTypes'
    BY <2>2, <2>4, <2>5, OpUpdate
  <2>7. Dropped(ops[key].kernel) /\ Still
    <3>1. kernels[ops[key].kernel].pc = "live"
      BY <2>2, UsersAre
    <3> QED  BY <2>2, <3>1 DEF Dropped, Still
  <2>8. OpEnds(key)
    BY <2>2, <2>5, <2>7 DEF OpEnds
  <2> QED  BY <2>6, <2>7, <2>8 DEF ExecMoves, AnyStep
<1> QED  BY <1>1, <1>2, <1>3

\* Every step.
LEMMA ExecNextIs ==
  ASSUME CoreInv, KernelTypes, ExecTypes, UsersInv, [ExecNext]_vars
  PROVE  ExecMoves
<1>1. TypeInv
  BY DEF CoreInv
<1>2. CASE (ProgramCall \/ ProgramStep) /\ UNCHANGED execVars
  <2>1. AnyStep
    <3>1. CASE ProgramCall
      BY <3>1, CallIs
    <3>2. ASSUME NEW j \in DOMAIN jobs, JobStep(j)
          PROVE  AnyStep
      BY <3>2, JobStepIs
    <3>3. ASSUME NEW k \in KernelObjects, KernelCreated(k)
          PROVE  AnyStep
      BY <3>3 DEF AnyStep, Still, KernelCreated
    <3> QED  BY <1>2, <3>1, <3>2, <3>3 DEF ProgramStep
  <2> QED  BY <1>2, <2>1, ExecSame, ProgramMovesKernels DEF ExecMoves, GoOn
<1>3. CASE CallExecution
  <2>1. ASSUME NEW k \in KernelObjects, ReleaseApiReference(k)
        PROVE  ExecMoves
    <3>1. ApiDropped(k) /\ Still
      BY <2>1 DEF ReleaseApiReference, ClReleaseKernel, ApiDropped, Dropped, Still
    <3>2. ExecTypes'
      BY <3>1, ExecSame DEF ApiDropped
    <3> QED  BY <3>1, <3>2 DEF ExecMoves, AnyStep
  <2> QED  BY <1>1, <1>3, <2>1, EnqueueIs, TaskStepIs DEF CallExecution
<1>4. CASE ExecutionStep
  BY <1>4, OpStepIs, TaskStepIs DEF ExecutionStep
<1>5. CASE UNCHANGED vars
  <2>1. KernelsSame /\ Still /\ UNCHANGED execVars
    BY <1>5 DEF vars, programVars, KernelsSame, Still
  <2> QED  BY <2>1, ExecSame DEF ExecMoves, GoOn, ProgramMoves, AnyStep
<1> QED  BY <1>2, <1>3, <1>4, <1>5 DEF ExecNext


-----------------------------------------------------------------------------
(* References.                                                             *)

\* Kernel k, which becomes v, has enough of them; nobody else is concerned.
LEMMA UsersUpdate ==
  ASSUME UsersInv, NEW k \in KernelObjects, NEW v, Becomes(k, v),
         \A c \in KernelObjects : c # k => TasksOn(c)' = TasksOn(c) /\ OpsOn(c)' = OpsOn(c),
         v.pc \in {"creating", "live"} => v.refs >= 1,
         IF v.pc = "live"
         THEN v.refs >= Cardinality(TasksOn(k)') + Cardinality(OpsOn(k)')
         ELSE TasksOn(k)' = {} /\ OpsOn(k)' = {}
  PROVE  UsersInv'
<1> SUFFICES ASSUME NEW c \in KernelObjects
             PROVE  /\ kernels'[c].pc \in {"creating", "live"} => kernels'[c].refs >= 1
                    /\ IF kernels'[c].pc = "live"
                       THEN kernels'[c].refs >= Cardinality(TasksOn(c)') + Cardinality(OpsOn(c)')
                       ELSE TasksOn(c)' = {} /\ OpsOn(c)' = {}
  BY DEF UsersInv
<1>1. CASE c = k
  BY <1>1 DEF Becomes
<1>2. CASE c # k
  <2>1. kernels'[c] = kernels[c] /\ TasksOn(c)' = TasksOn(c) /\ OpsOn(c)' = OpsOn(c)
    BY <1>2 DEF Becomes
  <2> QED  BY <2>1 DEF UsersInv
<1> QED  BY <1>1, <1>2

\* While users go on with their kernels, ...
LEMMA UsersGoOn ==
  ASSUME TypeInv, KernelTypes, LiveInv, ExecTypes, UsersInv, GoOn
  PROVE  UsersInv'
<1>1. \A k : TasksOn(k)' = TasksOn(k)
  BY DEF GoOn, TasksGoOn, TasksOn
<1>2. \A k : OpsOn(k)' = OpsOn(k)
  BY DEF GoOn, OpsGoOn, OpsOn
<1>3. CASE KernelsSame
  BY <1>1, <1>2, <1>3 DEF KernelsSame, UsersInv
<1>4. ASSUME NEW k \in KernelObjects, NEW v, Becomes(k, v), kernels[k].pc # "live",
             v.pc \in {"creating", "live"}, v.refs \in Int, v.refs >= 1
      PROVE  UsersInv'
  <2>1. TasksOn(k)' = {} /\ OpsOn(k)' = {}
    BY <1>1, <1>2, <1>4 DEF UsersInv
  <2>2. PICK n : n = Cardinality(TasksOn(k)') + Cardinality(OpsOn(k)')
    OBVIOUS
  <2>3. n = 0
    BY <2>1, <2>2, FS_EmptySet
  <2>4. v.refs >= n
    BY <1>4, <2>3
  <2> QED  BY <1>1, <1>2, <1>4, <2>1, <2>2, <2>4, UsersUpdate
<1>5. ASSUME NEW k \in KernelObjects, Begun(k)
      PROVE  UsersInv'
  <2>1. PICK v : Becomes(k, v) /\ v.pc = "creating" /\ v.refs = 1
    BY <1>5, BegunKeeps
  <2>2. kernels[k].pc = "none"
    BY <1>5 DEF Begun
  <2> QED  BY <1>4, <2>1, <2>2
<1>6. ASSUME NEW k \in KernelObjects, Made(k)
      PROVE  UsersInv'
  <2>1. PICK v : Becomes(k, v) /\ v.pc = "live" /\ v.refs = kernels[k].refs
    BY <1>6, MadeKeeps
  <2>2. kernels[k].pc = "creating" /\ v.refs \in Int /\ v.refs >= 1
    BY <1>6, <2>1 DEF Made, UsersInv, Becomes, KernelRecord
  <2> QED  BY <1>4, <2>1, <2>2
<1>7. ASSUME NEW k \in KernelObjects, NEW c \in KernelObjects, Copied(k, c)
      PROVE  UsersInv'
  <2>1. PICK v : Becomes(c, v) /\ v.pc = "live" /\ v.refs = 1
    BY <1>7, CopiedKeeps
  <2>2. kernels[c].pc = "none"
    BY <1>7 DEF Copied
  <2> QED  BY <1>4, <2>1, <2>2
<1> QED  BY <1>3, <1>5, <1>6, <1>7 DEF GoOn, ProgramMoves

\* ... when the kernel k loses a reference that nobody needs ...
LEMMA UsersDrop ==
  ASSUME KernelTypes, LiveInv, ExecTypes, ExecTypes', UsersInv,
         NEW k \in KernelObjects, Dropped(k),
         \A c \in KernelObjects : c # k => TasksOn(c)' = TasksOn(c) /\ OpsOn(c)' = OpsOn(c),
         TasksOn(k)' \subseteq TasksOn(k), OpsOn(k)' \subseteq OpsOn(k),
         Cardinality(TasksOn(k)') + Cardinality(OpsOn(k)') < kernels[k].refs
  PROVE  UsersInv'
<1>1. PICK r \in Int : r = kernels[k].refs
  BY DEF KernelTypes, KernelRecord
<1>2. PICK T, O : T = TasksOn(k)' /\ O = OpsOn(k)'
  OBVIOUS
<1>3. IsFiniteSet(T) /\ IsFiniteSet(O)
  BY <1>2, UsersFinite, FS_Subset DEF ExecTypes
<1>4. Cardinality(T) \in Nat /\ Cardinality(O) \in Nat
  BY <1>3, FS_CardinalityType
<1>5. Cardinality(T) + Cardinality(O) < r
  BY <1>1, <1>2
<1>6. PICK v : Becomes(k, v) /\ IF r = 1 THEN v.pc = "freed"
                                ELSE v.pc = "live" /\ v.refs = r - 1
  BY <1>1, DroppedKeeps
<1>7. CASE r = 1
  <2>1. T = {} /\ O = {}
    BY <1>3, <1>4, <1>5, <1>7, FS_EmptySet
  <2> QED  BY <1>2, <1>6, <1>7, <2>1, UsersUpdate
<1>8. CASE r # 1
  <2>1. r >= 1
    BY <1>1 DEF UsersInv, Dropped
  <2>2. v.refs >= 1 /\ v.refs >= Cardinality(T) + Cardinality(O)
    BY <1>4, <1>5, <1>6, <1>8, <2>1
  <2> QED  BY <1>2, <1>6, <1>8, <2>2, UsersUpdate
<1> QED  BY <1>7, <1>8

\* ... or gets one for each new user, every user has a reference.
LEMMA UsersStep ==
  ASSUME TypeInv, KernelTypes, LiveInv, ExecTypes, UsersInv, ExecMoves
  PROVE  UsersInv'
<1>1. ExecTypes'
  BY DEF ExecMoves
<1>2. ASSUME NEW k \in KernelObjects, ApiDropped(k)
      PROVE  UsersInv'
  <2>1. UNCHANGED <<tasks, ops>> /\ Dropped(k)
    BY <1>2 DEF ApiDropped, execVars
  <2>2. \A c : TasksOn(c)' = TasksOn(c) /\ OpsOn(c)' = OpsOn(c)
    BY <2>1 DEF TasksOn, OpsOn, InUse
  <2>3. PICK r \in Int : r = kernels[k].refs
    BY DEF KernelTypes, KernelRecord
  <2>4. PICK T, O : T = TasksOn(k) /\ O = OpsOn(k)
    OBVIOUS
  <2>5. Cardinality(T) \in Nat /\ Cardinality(O) \in Nat
    BY <2>4, UsersFinite DEF ExecTypes
  <2>6. r - Cardinality(T) - Cardinality(O) > 0
    BY <1>2, <2>3, <2>4 DEF ApiDropped, ApiReferences, TasksOn, OpsOn, InUse
  <2>7. Cardinality(T) + Cardinality(O) < r
    BY <2>5, <2>6
  <2> QED  BY <1>1, <2>1, <2>2, <2>3, <2>4, <2>7, UsersDrop
<1>3. ASSUME NEW t \in Tasks, TaskEnds(t)
      PROVE  UsersInv'
  <2>1. PICK k \in KernelObjects : k = tasks[t].kernel /\ kernels[k].pc = "live"
    BY <1>3, UsersAre DEF TaskEnds
  <2>2. PICK T, O : T = TasksOn(k) /\ O = OpsOn(k)
    OBVIOUS
  <2>3. IsFiniteSet(T) /\ Cardinality(T) \in Nat /\ Cardinality(O) \in Nat
    BY <2>2, UsersFinite DEF ExecTypes
  <2>4. \A c \in Tasks : /\ tasks'[c].kernel = tasks[c].kernel
                         /\ tasks'[c].pc = IF c = t THEN "done" ELSE tasks[c].pc
    BY <1>3, TaskDone
  <2>5. t \in T /\ TasksOn(k)' = T \ {t}
    BY <1>3, <2>1, <2>2, <2>4 DEF TasksOn, InUse, TaskEnds
  <2>6. \A c : c # k => TasksOn(c)' = TasksOn(c)
    BY <2>1, <2>4 DEF TasksOn, InUse
  <2>7. \A c : OpsOn(c)' = OpsOn(c)
    BY <1>3 DEF TaskEnds, OpsOn
  <2>8. Cardinality(T \ {t}) = Cardinality(T) - 1
    BY <2>3, <2>5, FS_RemoveElement
  <2>9. PICK r \in Int : r = kernels[k].refs
    BY DEF KernelTypes, KernelRecord
  <2>10. r >= Cardinality(T) + Cardinality(O)
    BY <2>1, <2>2, <2>9 DEF UsersInv
  <2>11. Cardinality(T \ {t}) + Cardinality(O) < r
    BY <2>3, <2>8, <2>10
  <2>12. Dropped(k)
    BY <1>3, <2>1 DEF TaskEnds
  <2> QED  BY <1>1, <2>2, <2>5, <2>6, <2>7, <2>9, <2>11, <2>12, UsersDrop
<1>4. ASSUME NEW key \in DOMAIN ops, OpEnds(key)
      PROVE  UsersInv'
  <2>1. PICK k \in KernelObjects : k = ops[key].kernel /\ kernels[k].pc = "live"
    BY <1>4, UsersAre DEF OpEnds
  <2>2. PICK T, O : T = TasksOn(k) /\ O = OpsOn(k)
    OBVIOUS
  <2>3. Cardinality(T) \in Nat /\ IsFiniteSet(O) /\ Cardinality(O) \in Nat
    BY <2>2, UsersFinite DEF ExecTypes
  <2>4. /\ DOMAIN ops' = DOMAIN ops
        /\ \A c \in DOMAIN ops : /\ ops'[c].kernel = ops[c].kernel
                                 /\ ops'[c].pc = IF c = key THEN "done" ELSE ops[c].pc
    <3>1. PICK f : f = ops /\ f[key] \in OpRecord /\ \A c \in DOMAIN f : f[c] \in OpRecord
      BY DEF ExecTypes
    <3>2. ops' = [f EXCEPT ![key].pc = "done"]
      BY <1>4, <3>1 DEF OpEnds
    <3> QED  BY <3>1, <3>2 DEF OpRecord
  <2>5. key \in O /\ OpsOn(k)' = O \ {key}
    BY <1>4, <2>1, <2>2, <2>4 DEF OpsOn, OpEnds
  <2>6. \A c : c # k => OpsOn(c)' = OpsOn(c)
    BY <2>1, <2>4 DEF OpsOn
  <2>7. \A c : TasksOn(c)' = TasksOn(c)
    BY <1>4 DEF OpEnds, TasksGoOn, TasksOn
  <2>8. Cardinality(O \ {key}) = Cardinality(O) - 1
    BY <2>3, <2>5, FS_RemoveElement
  <2>9. PICK r \in Int : r = kernels[k].refs
    BY DEF KernelTypes, KernelRecord
  <2>10. r >= Cardinality(T) + Cardinality(O)
    BY <2>1, <2>2, <2>9 DEF UsersInv
  <2>11. Cardinality(T) + Cardinality(O \ {key}) < r
    BY <2>3, <2>8, <2>10
  <2>12. Dropped(k)
    BY <1>4, <2>1 DEF OpEnds
  <2> QED  BY <1>1, <2>2, <2>5, <2>6, <2>7, <2>9, <2>11, <2>12, UsersDrop
<1>5. ASSUME NEW t \in Tasks, NEW k \in KernelObjects, NEW key \in Keys, Enqueued(t, k, key)
      PROVE  UsersInv'
  <2>1. tasks[t].pc = "none" /\ kernels[k].pc = "live"
        /\ tasks' = [tasks EXCEPT ![t] = [pc |-> "queued", kernel |-> k, key |-> key]]
    BY <1>5 DEF Enqueued, NewTask
  <2>2. PICK T, O : T = TasksOn(k) /\ O = OpsOn(k)
    OBVIOUS
  <2>3. /\ IsFiniteSet(T) /\ Cardinality(T) \in Nat
        /\ IsFiniteSet(O) /\ Cardinality(O) \in Nat
    BY <2>2, UsersFinite DEF ExecTypes
  <2>4. /\ tasks'[t].pc = "queued" /\ tasks'[t].kernel = k
        /\ \A c \in Tasks : c # t => tasks'[c] = tasks[c]
    BY <2>1 DEF ExecTypes
  <2>5. t \notin T /\ TasksOn(k)' = T \cup {t}
    BY <2>1, <2>2, <2>4 DEF TasksOn, InUse
  <2>6. \A c : c # k => TasksOn(c)' = TasksOn(c)
    BY <2>1, <2>4 DEF TasksOn, InUse
  <2>7. Cardinality(T \cup {t}) = Cardinality(T) + 1
    BY <2>3, <2>5, FS_AddElement
  <2>8. PICK r \in Int : r = kernels[k].refs
    BY DEF KernelTypes, KernelRecord
  <2>9. r >= 1 /\ r >= Cardinality(T) + Cardinality(O)
    BY <2>1, <2>2, <2>8 DEF UsersInv
  <2>10. CASE key \in DOMAIN ops /\ ops' = ops /\ Referred(k, 1)
    <3>1. \A c : OpsOn(c)' = OpsOn(c)
      BY <2>10 DEF OpsOn
    <3>2. PICK v : Becomes(k, v) /\ v.pc = "live" /\ v.refs = r + 1
      BY <2>8, <2>10, ReferredKeeps
    <3>3. v.refs >= 1 /\ v.refs >= Cardinality(T \cup {t}) + Cardinality(O)
      BY <2>3, <2>7, <2>9, <3>2
    <3> QED  BY <2>2, <2>5, <2>6, <3>1, <3>2, <3>3, UsersUpdate
  <2>11. CASE key \notin DOMAIN ops /\ NewOp(k, key) /\ Referred(k, 2)
    <3>1. /\ DOMAIN ops' = DOMAIN ops \cup {key} /\ ops'[key].pc = "queued" /\ ops'[key].kernel = k
          /\ \A c \in DOMAIN ops : ops'[c] = ops[c]
      BY <2>11 DEF NewOp
    <3>2. key \notin O /\ OpsOn(k)' = O \cup {key}
      BY <2>2, <2>11, <3>1 DEF OpsOn
    <3>3. \A c : c # k => OpsOn(c)' = OpsOn(c)
      BY <2>11, <3>1 DEF OpsOn
    <3>4. Cardinality(O \cup {key}) = Cardinality(O) + 1
      BY <2>3, <3>2, FS_AddElement
    <3>5. PICK v : Becomes(k, v) /\ v.pc = "live" /\ v.refs = r + 2
      BY <2>8, <2>11, ReferredKeeps
    <3>6. v.refs >= 1 /\ v.refs >= Cardinality(T \cup {t}) + Cardinality(O \cup {key})
      BY <2>3, <2>7, <2>9, <3>4, <3>5
    <3> QED  BY <2>5, <2>6, <3>2, <3>3, <3>5, <3>6, UsersUpdate
  <2> QED  BY <1>5, <2>10, <2>11 DEF Enqueued
<1> QED  BY <1>2, <1>3, <1>4, <1>5, UsersGoOn DEF ExecMoves

-----------------------------------------------------------------------------
(* What users need.                                                        *)

\* A kernel that is live before and after a step keeps what its users need.
LEMMA HeldStays ==
  ASSUME CoreInv, OwnedInv, UnbuiltInv, KernelTypes, LiveInv, AnyStep, Lasting,
         NEW k \in KernelObjects, kernels[k].pc = "live", kernels'[k].pc = "live",
         NEW key \in Keys, Held(k, key)
  PROVE  Held(k, key)'
<1>1. PICK p \in Programs : p = kernels[k].prog /\ Guarded(p)
  BY LiveGuards
<1>2. PICK d, x : d \in Devices /\ d = key.device /\ x = key.data
  BY DEF Keys
<1>3. HasFor(p, d, x)'
  <2>1. HasFor(p, d, x)
    BY <1>1, <1>2 DEF Held
  <2> QED  BY <1>1, <1>2, <2>1, BuiltStays
<1>4. kernels'[k].prog = p
  BY <1>1 DEF Lasting
<1> QED  BY <1>2, <1>3, <1>4 DEF Held, HasFor

\* Who goes on waiting has waited before, unless just enqueued.
LEMMA WaitersAre ==
  ASSUME ExecTypes, ExecMoves,
         \A t \in Tasks, k \in KernelObjects, key \in Keys : ~Enqueued(t, k, key)
  PROVE  /\ \A t \in Tasks : Waiting(t)' =>
              Waiting(t) /\ tasks'[t].kernel = tasks[t].kernel /\ tasks'[t].key = tasks[t].key
         /\ \A key \in DOMAIN ops' : ops'[key].pc # "done" =>
              /\ key \in DOMAIN ops /\ ops[key].pc # "done"
              /\ ops'[key].kernel = ops[key].kernel
<1>1. CASE GoOn
  BY <1>1 DEF GoOn, TasksGoOn, OpsGoOn
<1>2. ASSUME NEW k \in KernelObjects, ApiDropped(k)
      PROVE  UNCHANGED <<tasks, ops>>
  BY <1>2 DEF ApiDropped, execVars
<1>3. ASSUME NEW t \in Tasks, TaskEnds(t)
      PROVE  \A c \in Tasks : Waiting(c)' =>
               Waiting(c) /\ tasks'[c].kernel = tasks[c].kernel /\ tasks'[c].key = tasks[c].key
  <2>1. \A c \in Tasks : tasks'[c].kernel = tasks[c].kernel /\ tasks'[c].key = tasks[c].key
                         /\ tasks'[c].pc = IF c = t THEN "done" ELSE tasks[c].pc
    BY <1>3, TaskDone
  <2> QED  BY <2>1 DEF Waiting
<1>4. ASSUME NEW key \in DOMAIN ops, OpEnds(key)
      PROVE  /\ TasksGoOn /\ DOMAIN ops' = DOMAIN ops
             /\ \A c \in DOMAIN ops : ops'[c].pc # "done" =>
                  ops[c].pc # "done" /\ ops'[c].kernel = ops[c].kernel
  <2>1. PICK f : f = ops /\ f[key] \in OpRecord /\ \A c \in DOMAIN f : f[c] \in OpRecord
    BY DEF ExecTypes
  <2>2. ops' = [f EXCEPT ![key].pc = "done"]
    BY <1>4, <2>1 DEF OpEnds
  <2>3. DOMAIN ops' = DOMAIN f
        /\ \A c \in DOMAIN f : ops'[c].pc # "done" =>
             f[c].pc # "done" /\ ops'[c].kernel = f[c].kernel
    BY <2>1, <2>2 DEF OpRecord
  <2> QED  BY <1>4, <2>1, <2>3 DEF OpEnds
<1>5. \A t \in Tasks : TaskEnds(t) => ops' = ops
  BY DEF TaskEnds
<1>6. TasksGoOn => \A t \in Tasks : Waiting(t)' =>
        Waiting(t) /\ tasks'[t].kernel = tasks[t].kernel /\ tasks'[t].key = tasks[t].key
  BY DEF TasksGoOn
<1>7. UNCHANGED <<tasks, ops>> => \A t \in Tasks : Waiting(t)' => Waiting(t)
  BY DEF Waiting
<1>8. CASE \E k \in KernelObjects : ApiDropped(k)
  BY <1>2, <1>7, <1>8
<1>9. CASE \E t \in Tasks : TaskEnds(t)
  BY <1>3, <1>5, <1>9
<1>10. CASE \E key \in DOMAIN ops : OpEnds(key)
  BY <1>4, <1>6, <1>10
<1> QED  BY <1>1, <1>8, <1>9, <1>10 DEF ExecMoves

\* What users need stays while they have the kernel.
LEMMA HeldStep ==
  ASSUME CoreInv, OwnedInv, UnbuiltInv, KernelTypes, LiveInv, ExecTypes, UsersInv, HeldInv,
         ExecMoves, Lasting, UsersInv', ~UnbuiltDevices
  PROVE  HeldInv'
<1>1. AnyStep /\ ExecTypes'
  BY DEF ExecMoves
<1>2. ASSUME NEW t \in Tasks, InUse(t)'
      PROVE  /\ tasks'[t].kernel \in KernelObjects /\ tasks'[t].key \in DOMAIN ops'
             /\ tasks'[t].key \in Keys /\ kernels'[tasks'[t].kernel].pc = "live"
  <2>1. PICK k \in KernelObjects : k = tasks'[t].kernel
    BY <1>1, <1>2 DEF ExecTypes
  <2>2. t \in TasksOn(k)'
    BY <1>2, <2>1 DEF TasksOn
  <2>3. kernels'[k].pc = "live"
    BY <2>2 DEF UsersInv
  <2> QED  BY <1>1, <1>2, <2>1, <2>3 DEF ExecTypes
<1>3. ASSUME NEW key \in DOMAIN ops', ops'[key].pc # "done"
      PROVE  /\ ops'[key].kernel \in KernelObjects /\ key \in Keys
             /\ kernels'[ops'[key].kernel].pc = "live"
  <2>1. PICK k \in KernelObjects : k = ops'[key].kernel
    BY <1>1, <1>3 DEF ExecTypes, OpRecord
  <2>2. key \in OpsOn(k)'
    BY <1>3, <2>1 DEF OpsOn
  <2>3. kernels'[k].pc = "live"
    BY <2>2 DEF UsersInv
  <2> QED  BY <1>1, <1>3, <2>1, <2>3 DEF ExecTypes
<1>4. \A t \in Tasks : (Waiting(t) => InUse(t)) /\ (Waiting(t)' => InUse(t)')
  BY DEF Waiting, InUse
<1>5. ASSUME NEW t \in Tasks, Waiting(t), InUse(t)',
             tasks'[t].kernel = tasks[t].kernel, tasks'[t].key = tasks[t].key
      PROVE  Held(tasks[t].kernel, tasks[t].key)'
  <2>1. PICK k \in KernelObjects, key \in Keys :
          k = tasks[t].kernel /\ key = tasks[t].key /\ kernels'[k].pc = "live"
    BY <1>2, <1>5
  <2>2. kernels[k].pc = "live" /\ Held(k, key)
    BY <1>4, <1>5, <2>1, UsersAre DEF HeldInv
  <2>3. Held(k, key)'
    BY <1>1, <2>1, <2>2, HeldStays
  <2> QED  BY <1>5, <2>1, <2>3 DEF Held
<1>6. ASSUME NEW key \in DOMAIN ops, key \in DOMAIN ops', ops[key].pc # "done",
             ops'[key].pc # "done", ops'[key].kernel = ops[key].kernel
      PROVE  Held(ops[key].kernel, key)'
  <2>1. PICK k \in KernelObjects : k = ops[key].kernel /\ kernels'[k].pc = "live" /\ key \in Keys
    BY <1>3, <1>6
  <2>2. kernels[k].pc = "live" /\ Held(k, key)
    BY <1>6, <2>1, UsersAre DEF HeldInv
  <2>3. Held(k, key)'
    BY <1>1, <2>1, <2>2, HeldStays
  <2> QED  BY <1>6, <2>1, <2>3 DEF Held
<1>7. CASE \A t \in Tasks, k \in KernelObjects, key \in Keys : ~Enqueued(t, k, key)
  BY <1>4, <1>5, <1>6, <1>7, WaitersAre DEF HeldInv
<1>8. ASSUME NEW t \in Tasks, NEW k \in KernelObjects, NEW key \in Keys, Enqueued(t, k, key)
      PROVE  HeldInv'
  <2>1. NewTask(t, k, key) /\ \E n \in Nat : Referred(k, n)
    BY <1>8 DEF Enqueued
  <2>2. PICK p, d, x : /\ p \in Programs /\ d \in Devices
                      /\ p = kernels[k].prog /\ d = key.device /\ x = key.data
    BY <2>1 DEF NewTask, KernelTypes, Keys
  <2>3. HasFor(p, d, x)
    BY <2>1, <2>2 DEF NewTask
  <2>4. HasFor(p, d, x)'
    BY <2>1, <2>3 DEF Referred, Still, HasFor
  <2>5. kernels'[k].prog = p
    <3>1. kernels'[k].pc = "live" /\ kernels[k].pc = "live"
      BY <2>1, ReferredKeeps DEF Becomes, Referred
    <3> QED  BY <2>2, <3>1 DEF Lasting
  <2>6. Held(k, key)'
    BY <2>2, <2>4, <2>5 DEF Held, HasFor
  <2>7. /\ tasks'[t].kernel = k /\ tasks'[t].key = key
        /\ \A c \in Tasks : c # t => tasks'[c] = tasks[c]
    BY <2>1 DEF NewTask, ExecTypes
  <2>8. ASSUME NEW c \in Tasks, Waiting(c)'
        PROVE  Held(tasks[c].kernel, tasks[c].key)'
    <3>1. CASE c = t
      BY <2>6, <2>7, <3>1 DEF Held
    <3>2. CASE c # t
      BY <1>4, <1>5, <2>7, <2>8, <3>2 DEF Waiting
    <3> QED  BY <3>1, <3>2
  <2>9. ASSUME NEW c \in DOMAIN ops', ops'[c].pc # "done"
        PROVE  Held(ops[c].kernel, c)'
    <3>1. CASE c \in DOMAIN ops
      <4>1. ops'[c] = ops[c]
        BY <1>8, <3>1 DEF Enqueued, NewOp
      <4> QED  BY <1>6, <2>9, <3>1, <4>1
    <3>2. CASE c \notin DOMAIN ops
      <4>1. c = key /\ ops'[c].kernel = k
        BY <1>8, <2>9, <3>2 DEF Enqueued, NewOp
      <4> QED  BY <2>6, <4>1 DEF Held
    <3> QED  BY <3>1, <3>2
  <2> QED  BY <2>8, <2>9 DEF HeldInv
<1> QED  BY <1>7, <1>8

-----------------------------------------------------------------------------
(* Kernels and executions together.                                        *)

KernelInv == CoreInv /\ OwnedInv /\ LinksInv /\ KernelTypes /\ LiveInv
ExecInv   == KernelInv /\ ExecTypes /\ UsersInv

\* At the beginning there is no kernel.
LEMMA ExecInitInv ==
  ASSUME ExecInit
  PROVE  ExecInv /\ IntactInv /\ HeldInv
<1>1. /\ kernels = [k \in KernelObjects |-> NoKernel] /\ numLiveKernels = [p \in Programs |-> 0]
      /\ tasks = [t \in Tasks |-> NoTask] /\ DOMAIN cache = {} /\ DOMAIN ops = {}
  BY DEF ExecInit, Init
<1>2. CoreInv /\ OwnedInv /\ LinksInv
  BY InitInv DEF ExecInit, BuildsInv
<1>3. NoKernel \in KernelRecord /\ NoKernel.pc = "none"
  BY DEF NoKernel, KernelRecord
<1>4. KernelTypes
  BY <1>1, <1>3 DEF KernelTypes
<1>5. LiveInv
  <2>1. \A p : LiveOf(p) = {}
    BY <1>1, <1>3 DEF LiveOf
  <2> QED  BY <1>1, <2>1, FS_EmptySet DEF LiveInv
<1>6. NoTask \in TaskRecord /\ NoTask.pc = "none"
  BY DEF NoTask, TaskRecord
<1>7. ExecTypes
  BY <1>1, <1>6, FS_EmptySet DEF ExecTypes, InUse
<1>8. \A k : TasksOn(k) = {} /\ OpsOn(k) = {}
  BY <1>1, <1>6 DEF TasksOn, OpsOn, InUse
<1>9. UsersInv
  BY <1>1, <1>3, <1>8 DEF UsersInv
<1>10. IntactInv
  BY <1>1, <1>3 DEF IntactInv
<1>11. HeldInv
  BY <1>1, <1>6 DEF HeldInv, Waiting
<1> QED  BY <1>2, <1>4, <1>5, <1>7, <1>9, <1>10, <1>11 DEF ExecInv, KernelInv

\* What a step of ExecNext does to the kernels.
LEMMA ExecMovesKernels ==
  ASSUME ExecTypes, ExecMoves
  PROVE  KernelMoves
<1>1. ASSUME NEW t \in Tasks, TaskEnds(t)
      PROVE  KernelMoves
  BY <1>1 DEF TaskEnds, ExecTypes, KernelMoves
<1>2. ASSUME NEW key \in DOMAIN ops, OpEnds(key)
      PROVE  KernelMoves
  BY <1>2 DEF OpEnds, ExecTypes, OpRecord, KernelMoves
<1>3. ASSUME NEW k \in KernelObjects, ApiDropped(k)
      PROVE  KernelMoves
  BY <1>3 DEF ApiDropped, KernelMoves
<1>4. ASSUME NEW t \in Tasks, NEW k \in KernelObjects, NEW key \in Keys, Enqueued(t, k, key)
      PROVE  KernelMoves
  <2>1. \E n \in Nat : Referred(k, n)
    BY <1>4 DEF Enqueued
  <2> QED  BY <2>1 DEF KernelMoves
<1> QED  BY <1>1, <1>2, <1>3, <1>4 DEF ExecMoves, GoOn, KernelMoves

\* Every step keeps the invariant.
LEMMA ExecInvStep ==
  ASSUME ExecInv, [ExecNext]_vars
  PROVE  ExecInv' /\ ExecMoves /\ AnyStep /\ KernelMoves /\ Lasting
<1>1. /\ TypeInv /\ CoreInv /\ OwnedInv /\ LinksInv /\ KernelTypes /\ LiveInv
      /\ ExecTypes /\ UsersInv
  BY DEF ExecInv, KernelInv, CoreInv
<1>2. ExecMoves
  BY <1>1, ExecNextIs
<1>3. AnyStep /\ ExecTypes'
  BY <1>2 DEF ExecMoves
<1>4. KernelMoves
  BY <1>1, <1>2, ExecMovesKernels
<1>5. KernelTypes' /\ LiveInv' /\ Lasting
  BY <1>1, <1>4, KernelsStep DEF KernelsKept
<1>6. CoreInv' /\ OwnedInv' /\ LinksInv'
  BY <1>1, <1>3, CoreStep, OwnedStep, LinksStep
<1>7. UsersInv'
  BY <1>1, <1>2, UsersStep
<1> QED  BY <1>2, <1>3, <1>4, <1>5, <1>6, <1>7 DEF ExecInv, KernelInv

\* No build, compilation or link replaces or rewrites what a kernel refers to,
\* from the look-up in clCreateKernel until the kernel is freed, however many
\* kernels, copies, tasks and specialisations hold it and in whatever order
\* they let go: numLiveKernels, which every build looks at, counts the live
\* kernels, and until a kernel is counted the condition on the application
\* stands in for it.
THEOREM KernelsStayIntact ==
  ASSUME ~EarlyBuilds
  PROVE  ExecSpec => []KernelsIntact
<1>1. ExecInit => ExecInv /\ IntactInv
  BY ExecInitInv
<1>2. ExecInv /\ IntactInv /\ [ExecNext]_vars => (ExecInv /\ IntactInv)'
  <2> SUFFICES ASSUME ExecInv, IntactInv, [ExecNext]_vars
               PROVE  (ExecInv /\ IntactInv)'
    OBVIOUS
  <2>1. ExecInv' /\ AnyStep /\ KernelMoves
    BY ExecInvStep
  <2>2. IntactInv'
    BY <2>1, IntactStep DEF ExecInv, KernelInv, LinksInv
  <2> QED  BY <2>1, <2>2
<1>3. IntactInv => KernelsIntact
  BY DEF IntactInv, KernelsIntact, HasFor
<1> QED  BY <1>1, <1>2, <1>3, PTL DEF ExecSpec

\* What an enqueued kernel waits for lies in what its program has for the
\* device, and so does what its specialisation reads, until they are done
\* with it, whatever else the application builds, links, clones, enqueues or
\* releases meanwhile and also when it lets go of the kernel first: each task
\* and each specialisation has a reference, so the kernel lives, so no build
\* is let in.  The condition is that a kernel is enqueued only for devices
\* that its program has been built for.
THEOREM ExecutionsStayAlive ==
  ASSUME ~UnbuiltDevices
  PROVE  ExecSpec => []ExecutionsAlive
<1>1. ExecInit => ExecInv /\ HeldInv
  BY ExecInitInv
<1>2. ExecInv /\ HeldInv /\ [ExecNext]_vars => (ExecInv /\ HeldInv)'
  <2> SUFFICES ASSUME ExecInv, HeldInv, [ExecNext]_vars
               PROVE  (ExecInv /\ HeldInv)'
    OBVIOUS
  <2>1. ExecInv' /\ ExecMoves /\ Lasting
    BY ExecInvStep
  <2>2. HeldInv'
    BY <2>1, HeldStep DEF ExecInv, KernelInv, LinksInv
  <2> QED  BY <2>1, <2>2
<1>3. ExecInv /\ HeldInv => ExecutionsAlive
  <2> SUFFICES ASSUME ExecInv, HeldInv
               PROVE  ExecutionsAlive
    OBVIOUS
  <2>1. ASSUME NEW t \in Tasks, tasks[t].pc \in {"queued", "ready", "asleep"}
        PROVE  /\ Held(tasks[t].kernel, tasks[t].key) /\ tasks[t].key \in DOMAIN cache
    BY <2>1 DEF HeldInv, Waiting, ExecInv, ExecTypes, InUse
  <2>2. ASSUME NEW key \in DOMAIN ops, ops[key].pc \in {"queued", "notify"}
        PROVE  Held(ops[key].kernel, key)
    BY <2>2 DEF HeldInv
  <2> QED  BY <2>1, <2>2 DEF ExecutionsAlive, Held, HasFor
<1> QED  BY <1>1, <1>2, <1>3, PTL DEF ExecSpec

\* Both together: what kernels, tasks and queued specialisations refer to is
\* there, for an application that keeps to the two conditions.
THEOREM ValuesStayAlive ==
  ASSUME ~EarlyBuilds, ~UnbuiltDevices
  PROVE  ExecSpec => []ValuesAlive
<1>1. KernelsIntact /\ ExecutionsAlive => ValuesAlive
  BY DEF ValuesAlive
<1>2. ExecSpec => []KernelsIntact
  BY KernelsStayIntact
<1>3. ExecSpec => []ExecutionsAlive
  BY ExecutionsStayAlive
<1> QED  BY <1>1, <1>2, <1>3, PTL
=============================================================================
