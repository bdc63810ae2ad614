---------------------------- MODULE MapTracking ----------------------------
(***************************************************************************)
(* Mapping one memory object for the host (resources.cpp,                  *)
(* resource_tasks.cpp): the map commands, the registry of outstanding maps *)
(* that clEnqueueUnmapMemObject looks a pointer up in, the copies between  *)
(* the object and the memory the host sees, and the references that keep   *)
(* the object alive.                                                       *)
(*                                                                         *)
(* Threads of the application call concurrently.  A call holds the task    *)
(* pool lock while it queues its command, but looks up and registers       *)
(* before it has the lock: these are separate steps.  The application is   *)
(* a legal one: a region mapped for writing overlaps no other map, a       *)
(* pointer is unmapped as often as it was mapped, and no device command    *)
(* touches a mapped region.                                                *)
(***************************************************************************)
EXTENDS Integers, Sequences, SequencesExt

CONSTANTS
  Threads,      \* threads of the application
  Cells,        \* the bytes or texels of the object, as numbers
  Regions,      \* regions the application maps: sets of cells
  Values,       \* what host and device write
  MaxMaps,      \* bound: calls that map
  MaxDeviceWrites \* bound: commands of the device that write the object

ASSUME MapTrackingAssumption ==
  /\ Cells \subseteq Nat /\ Regions \subseteq SUBSET Cells /\ {} \notin Regions
  /\ {MaxMaps, MaxDeviceWrites} \subseteq Nat

VARIABLES
  kind,        \* what backs the object: "use" and "alloc" for the host pointer
               \* flags of these names, "copy" without them
  maps,        \* the map commands, in the order they were created
  unmaps,      \* the unmap commands
  outstanding, \* m_OutstandingMaps: pointer -> the map commands registered under it
  call,        \* what each thread is in the middle of
  held,        \* map commands whose pointer the application has
  device,      \* the content of the object
  host,        \* the content of the memory the application gave
  staging,     \* map command -> the content of its m_MappableResource
  truth,       \* what application and device wrote last
  writes,      \* commands of the device so far
  refs,        \* references to the object
  released,    \* whether the application released the object
  alive,       \* whether ~Resource has not run
  undone,      \* map command -> how often its Unmap ran
  raced        \* map commands that two overlapping calls have found

object == <<refs, released, alive>>
data   == <<device, host, staging, truth, writes>>
vars   == <<kind, maps, unmaps, outstanding, call, held, object, data, undone, raced>>

Garbage == -1
Idle == [at |-> "idle"]

Ended(command) == command.state \in {"complete", "failed"}

(* The host address of a mapping: that of its first cell, or of memory of  *)
(* its own.                                                                *)
Pointer(i, region) == IF kind = "copy" THEN <<"staging", i>> ELSE <<"cell", Min(region)>>

-----------------------------------------------------------------------------
(* The registry                                                            *)

MapsOf(ptr) == IF ptr \in DOMAIN outstanding THEN outstanding[ptr] ELSE <<>>

AddMapTask(i, ptr) ==
  [p \in DOMAIN outstanding \cup {ptr} |->
     IF p = ptr THEN Append(MapsOf(ptr), i) ELSE outstanding[p]]

GetMapTask(ptr) == Head(outstanding[ptr])

Without(ptr, rest) ==
  IF rest = <<>> THEN Restrict(outstanding, DOMAIN outstanding \ {ptr})
                 ELSE [outstanding EXCEPT ![ptr] = rest]

(* Mutant: the first map with the pointer is removed, whichever it is.     *)
RemoveOldest(i) ==
  LET ptr == maps[i].ptr IN
  IF ptr \in DOMAIN outstanding THEN Without(ptr, Tail(outstanding[ptr])) ELSE outstanding

(* Nothing happens when the map is not registered any more.                *)
RemoveMapTask(i) ==
  LET ptr == maps[i].ptr
      registered == MapsOf(ptr)
  IN  IF i \in Range(registered)
        THEN Without(ptr, RemoveAt(registered, CHOOSE k \in DOMAIN registered : registered[k] = i))
        ELSE outstanding

Registered == UNION {Range(outstanding[ptr]) : ptr \in DOMAIN outstanding}

-----------------------------------------------------------------------------
(* References.  Whoever drops the last one runs ~Resource: every           *)
(* outstanding map is undone, with no copy back.                           *)

AddReference ==
  /\ refs' = refs + 1
  /\ UNCHANGED <<released, alive>>

ReleaseReference(undoneSoFar) ==
  /\ refs' = refs - 1
  /\ alive' = (refs > 1)
  /\ undone' = [i \in DOMAIN undoneSoFar |->
                  undoneSoFar[i] + IF refs = 1 /\ i \in Registered THEN 1 ELSE 0]

-----------------------------------------------------------------------------
(* Calls of the application                                                *)

(* The maps the application may still use, or whose end it has not seen.   *)
InUse == {i \in DOMAIN maps :
            \/ i \in held \/ ~Ended(maps[i])
            \/ \E t \in Threads : call[t].at = "unmapping" /\ call[t].given = i
            \/ \E u \in DOMAIN unmaps : unmaps[u].given = i /\ ~Ended(unmaps[u])}

Legal(region, flags) ==
  \A i \in InUse : maps[i].region \cap region # {} => flags = "R" /\ maps[i].flags = "R"

(* clEnqueueMapBuffer and clEnqueueMapImage up to AddMapTask: the command  *)
(* is made, which takes a reference to the object, and registered.         *)
BeginMap(t) ==
  /\ call[t] = Idle /\ ~released /\ Len(maps) < MaxMaps
  /\ \E region \in Regions, flags \in {"R", "W"} :
       LET i == Len(maps) + 1 ptr == Pointer(i, region) IN
       /\ Legal(region, flags)
       /\ maps' = Append(maps, [region |-> region, flags |-> flags, ptr |-> ptr, state |-> "made"])
       /\ outstanding' = AddMapTask(i, ptr)
       /\ call' = [call EXCEPT ![t] = [at |-> "mapping", task |-> i]]
  /\ staging' = Append(staging, [c \in Cells |-> Garbage])
  /\ undone' = Append(undone, 0)
  /\ AddReference
  /\ UNCHANGED <<kind, unmaps, held, device, host, truth, writes, raced>>

(* The rest of the call: the command is queued and the pointer returned.   *)
FinishMap(t) ==
  /\ call[t].at = "mapping"
  /\ maps' = [maps EXCEPT ![call[t].task].state = "queued"]
  /\ held' = held \cup {call[t].task}
  /\ call' = [call EXCEPT ![t] = Idle]
  /\ UNCHANGED <<kind, unmaps, outstanding, object, data, undone, raced>>

(* AddDependencies or QueueTask throws: the map is removed again and the   *)
(* command, still in state Queued, gives its reference back as it dies.    *)
ThrowFromMap(t) ==
  /\ call[t].at = "mapping"
  /\ maps' = [maps EXCEPT ![call[t].task].state = "failed"]
  /\ outstanding' = RemoveMapTask(call[t].task)
  /\ call' = [call EXCEPT ![t] = Idle]
  /\ ReleaseReference(undone)
  /\ UNCHANGED <<kind, unmaps, held, released, data, raced>>

(* Host code writes through the pointer of a mapping that is complete.     *)
HostWrite ==
  \E i \in held, v \in Values : \E c \in maps[i].region :
    /\ maps[i].flags = "W" /\ maps[i].state = "complete" /\ ~released
    /\ truth' = [truth EXCEPT ![c] = v]
    /\ host' = IF kind = "use" THEN [host EXCEPT ![c] = v] ELSE host
    /\ device' = IF kind = "alloc" THEN [device EXCEPT ![c] = v] ELSE device
    /\ staging' = IF kind = "copy" THEN [staging EXCEPT ![i][c] = v] ELSE staging
    /\ UNCHANGED <<kind, maps, unmaps, outstanding, call, held, object, writes, undone, raced>>

(* A command of the device writes a cell that is not mapped.               *)
DeviceWrite ==
  /\ ~released /\ writes < MaxDeviceWrites
  /\ \E c \in Cells, v \in Values :
       /\ \A i \in InUse : c \notin maps[i].region
       /\ device' = [device EXCEPT ![c] = v]
       /\ truth' = [truth EXCEPT ![c] = v]
  /\ writes' = writes + 1
  /\ UNCHANGED <<kind, maps, unmaps, outstanding, call, held, object, host, staging, undone, raced>>

(* clEnqueueUnmapMemObject up to GetMapTask: the application gives back a  *)
(* pointer it holds, and the first map registered under it is found, which *)
(* another call may be about to unmap or still be making.                  *)
BeginUnmap(t) ==
  /\ call[t] = Idle /\ ~released
  /\ \E i \in held :
       LET found == GetMapTask(maps[i].ptr) IN
       /\ maps[i].ptr \in DOMAIN outstanding
       /\ held' = held \ {i}
       /\ call' = [call EXCEPT ![t] = [at |-> "unmapping", task |-> found, given |-> i]]
       /\ raced' = IF \E u \in Threads : call[u] # Idle /\ call[u].task = found
                     THEN raced \cup {found} ELSE raced
  /\ UNCHANGED <<kind, maps, unmaps, outstanding, object, data, undone>>

(* ... and from the task pool lock on: the unmap command, which refers to  *)
(* the object, is queued, and then the map is removed.                     *)
FinishUnmap(t) ==
  /\ call[t].at = "unmapping"
  /\ unmaps' = Append(unmaps,
       [map |-> call[t].task, given |-> call[t].given, state |-> "queued"])
  /\ outstanding' = RemoveMapTask(call[t].task)
  /\ call' = [call EXCEPT ![t] = Idle]
  /\ AddReference
  /\ UNCHANGED <<kind, maps, held, data, undone, raced>>

(* The call fails before the command is queued: the pointer stays mapped.  *)
ThrowFromUnmap(t) ==
  /\ call[t].at = "unmapping"
  /\ held' = held \cup {call[t].given}
  /\ call' = [call EXCEPT ![t] = Idle]
  /\ UNCHANGED <<kind, maps, unmaps, outstanding, object, data, undone, raced>>

(* clReleaseMemObject for the reference clCreateBuffer gave; maps may be   *)
(* outstanding, but no call is under way.                                  *)
clReleaseMemObject ==
  /\ ~released /\ \A t \in Threads : call[t] = Idle
  /\ released' = TRUE
  /\ ReleaseReference(undone)
  /\ UNCHANGED <<kind, maps, unmaps, outstanding, call, held, data, raced>>

-----------------------------------------------------------------------------
(* The commands                                                            *)

(* Mutant: a map for writing leaves the host memory as it is.              *)
RecordMapForReading(i) ==
  /\ LET take(old) == [c \in Cells |->
           IF maps[i].flags = "R" /\ c \in maps[i].region THEN device[c] ELSE old[c]] IN
     /\ host' = IF kind = "use" THEN take(host) ELSE host
     /\ staging' = IF kind = "copy" THEN [staging EXCEPT ![i] = take(staging[i])] ELSE staging
  /\ UNCHANGED <<device, truth, writes>>

(* RecordImpl: the region is read back even for a map that only writes, so *)
(* that unmapping does not write garbage where the host wrote nothing.     *)
RecordMap(i) ==
  /\ LET take(old) == [c \in Cells |-> IF c \in maps[i].region THEN device[c] ELSE old[c]] IN
     /\ host' = IF kind = "use" THEN take(host) ELSE host
     /\ staging' = IF kind = "copy" THEN [staging EXCEPT ![i] = take(staging[i])] ELSE staging
  /\ UNCHANGED <<device, truth, writes>>

(* Unmap(false): a map for writing copies its region back.                 *)
RecordUnmap(i) ==
  /\ device' = IF maps[i].flags = "W" /\ kind # "alloc"
       THEN [c \in Cells |-> IF c \notin maps[i].region THEN device[c]
                             ELSE IF kind = "use" THEN host[c] ELSE staging[i][c]]
       ELSE device
  /\ staging' = [staging EXCEPT ![i] = [c \in Cells |-> Garbage]]
  /\ UNCHANGED <<host, truth, writes>>

RunMap(i) ==
  /\ maps[i].state = "queued"
  /\ maps' = [maps EXCEPT ![i].state = "running"]
  /\ RecordMap(i)
  /\ UNCHANGED <<kind, unmaps, outstanding, call, held, object, undone, raced>>

(* Complete and OnComplete                                                 *)
CompleteMap(i) ==
  /\ maps[i].state = "running"
  /\ maps' = [maps EXCEPT ![i].state = "complete"]
  /\ ReleaseReference(undone)
  /\ UNCHANGED <<kind, unmaps, outstanding, call, held, released, data, raced>>

(* Mutant: a failed command gives its reference back, like a complete one, *)
(* and once more when it is deleted.                                       *)
FailMapTwice(i) ==
  /\ maps[i].state = "queued"
  /\ maps' = [maps EXCEPT ![i].state = "failed"]
  /\ refs' = refs - 2 /\ alive' = (refs > 2)
  /\ UNCHANGED <<kind, unmaps, outstanding, call, held, released,
                 undone, data, raced>>

(* A dependency failed, or recording threw.  OnComplete does not run, and  *)
(* ~MapTask takes the failed state for one whose reference is gone.        *)
FailMap(i) ==
  /\ maps[i].state = "queued"
  /\ maps' = [maps EXCEPT ![i].state = "failed"]
  /\ UNCHANGED <<kind, unmaps, outstanding, call, held, object, undone, data, raced>>

(* The application orders an unmap after the map it gives back.            *)
RunUnmap(u) ==
  /\ unmaps[u].state = "queued" /\ Ended(maps[unmaps[u].given])
  /\ unmaps' = [unmaps EXCEPT ![u].state = "running"]
  /\ RecordUnmap(unmaps[u].map)
  /\ undone' = [undone EXCEPT ![unmaps[u].map] = @ + 1]
  /\ UNCHANGED <<kind, maps, outstanding, call, held, object, raced>>

(* The references go with OnComplete, or with the command when it failed.  *)
EndUnmap(u) ==
  /\ \/ /\ unmaps[u].state = "running"
        /\ unmaps' = [unmaps EXCEPT ![u].state = "complete"]
     \/ /\ unmaps[u].state = "queued"
        /\ unmaps' = [unmaps EXCEPT ![u].state = "failed"]
  /\ ReleaseReference(undone)
  /\ UNCHANGED <<kind, maps, outstanding, call, held, released, data, raced>>

-----------------------------------------------------------------------------
Init ==
  /\ kind \in {"use", "alloc", "copy"}
  /\ maps = <<>> /\ unmaps = <<>> /\ outstanding = <<>>
  /\ call = [t \in Threads |-> Idle] /\ held = {}
  /\ device = [c \in Cells |-> 0] /\ host = device /\ truth = device
  /\ staging = <<>> /\ writes = 0
  /\ refs = 1 /\ released = FALSE /\ alive = TRUE
  /\ undone = <<>> /\ raced = {}

Next ==
  \/ \E t \in Threads :
       \/ BeginMap(t) \/ FinishMap(t) \/ ThrowFromMap(t)
       \/ BeginUnmap(t) \/ FinishUnmap(t) \/ ThrowFromUnmap(t)
  \/ HostWrite \/ DeviceWrite
  \/ clReleaseMemObject
  \/ \E i \in DOMAIN maps : RunMap(i) \/ CompleteMap(i) \/ FailMap(i)
  \/ \E u \in DOMAIN unmaps : RunUnmap(u) \/ EndUnmap(u)

Spec == Init /\ [][Next]_vars

-----------------------------------------------------------------------------
(* Properties                                                              *)

Failed(i) ==
  \/ maps[i].state = "failed"
  \/ \E u \in DOMAIN unmaps : unmaps[u].map = i /\ unmaps[u].state = "failed"

Spoilt(c) == \E i \in DOMAIN maps : c \in maps[i].region /\ maps[i].flags = "W" /\ Failed(i)

View(i) == CASE kind = "use" -> host [] kind = "alloc" -> device [] kind = "copy" -> staging[i]

(* What the host wrote through a mapping is in the object once the map is  *)
(* undone, cells it did not write keep what they had, and what it reads    *)
(* through a complete mapping is the content of the object: whichever way  *)
(* the object is backed, and with maps, unmaps and device commands of      *)
(* other regions in between.  A command that fails spoils the cells it     *)
(* maps for writing.  After a race of two calls for one pointer nothing is *)
(* certain: a map that was only read may stay registered, and a later      *)
(* unmap of the same pointer undoes that one and writes nothing back.      *)
MappingsCoherent ==
  alive /\ raced = {} => \A c \in Cells : Spoilt(c) \/
    /\ (\A i \in InUse : c \in maps[i].region => maps[i].flags = "R") => device[c] = truth[c]
    /\ \A i \in held : maps[i].state = "complete" /\ c \in maps[i].region => View(i)[c] = truth[c]

(* No map is undone twice, by two unmap calls or by one and ~Resource, and *)
(* none is left behind: when every pointer was given back and the unmap    *)
(* commands are complete, each of those maps was undone and no map stays   *)
(* registered.  The exception are maps two overlapping calls found, since  *)
(* look-up and removal are not under one lock.                             *)
UndoneOnce ==
  raced = {} =>
    /\ \A i \in DOMAIN maps : undone[i] <= 1
    /\ (held = {} /\ \A t \in Threads : call[t] = Idle) =>
         /\ Registered = {}
         /\ (\A u \in DOMAIN unmaps : unmaps[u].state = "complete") =>
              \A u \in DOMAIN unmaps : undone[unmaps[u].given] = 1

Pending == (\E i \in DOMAIN maps : ~Ended(maps[i])) \/ (\E u \in DOMAIN unmaps : ~Ended(unmaps[u]))

(* The object lives exactly as long as the application or a command that   *)
(* has not ended refers to it; only a map command that was queued and      *)
(* failed keeps it for ever.                                               *)
AliveWhileUsed ==
  /\ ~released \/ Pending => alive
  /\ released /\ ~Pending /\ alive => \E i \in DOMAIN maps : maps[i].state = "failed"
=============================================================================
