---------------------------- MODULE CommandLists ----------------------------
(***************************************************************************)
(* The command lists of one device (CommandListManager.cpp) and what is    *)
(* given back when they are through (ImmediateContext.cpp): command        *)
(* allocators, GPU memory and descriptors.  List n is over when the fence  *)
(* has the value n.                                                        *)
(*                                                                         *)
(* The execution thread records and submits.  The other threads create     *)
(* resources, and when memory is short they too wait for the fence, on the *)
(* one event that the manager has.                                         *)
(***************************************************************************)
EXTENDS FencedRing, Sequences, SequencesExt

CONSTANTS
  Buffers,      \* the pieces of GPU memory there are for buffers and images
  Heaps,        \* and those for descriptor heaps
  FreeThreads,  \* threads other than the execution thread
  MaxLists,     \* bound on the command lists submitted
  PoolDepth,    \* GetMaxInFlightDepth(): 1024 in the code
  StartSlots,   \* size of a descriptor heap at first
  MaxSlots,     \* m_MaxHeapSize
  SlotsOfDispatch

Memory == Buffers \cup Heaps

Exec == "exec"
Threads == {Exec} \cup FreeThreads

Never == MaxLists + 100   \* ~0ull, a value no list has
NoHeap == "no heap"

ASSUME CommandListsAssumption ==
  /\ Buffers \cap Heaps = {} /\ NoHeap \notin Memory /\ Exec \notin FreeThreads
  /\ MaxLists \in Nat \ {0} /\ PoolDepth \in Nat

VARIABLES
  nextID,      \* m_commandListID: of the list being recorded
  completed,   \* the completed value of m_Fence
  lists,       \* what each list uses, until it is over
  commands,    \* HasCommands()
  pool,        \* m_AllocatorPool
  memory,      \* every piece of memory
  retired,     \* the two deferred deletion queues
  heap,        \* m_ViewHeap, with its ring buffer and m_HeapPool
  frames,      \* the calls each thread is in, the innermost last
  registered,  \* SetEventOnCompletion calls whose value is to come
  signalled,   \* m_hWaitEvent is set
  early,       \* a wait has returned before its value came
  pressed      \* the lists submitted because memory had run out

vars == <<nextID, completed, lists, commands, pool, memory, retired, heap, frames,
          registered, signalled, early, pressed>>

Free    == [state |-> "free"]
Retired == [state |-> "retired"]
Live(kind) == [state |-> "live", kind |-> kind, last |-> 0, written |-> 0]

NewList(allocator) ==
  [allocator |-> allocator, uses |-> {}, writes |-> {}, slots |-> {}, torn |-> FALSE]
Over == NewList(0)

Init ==
  \E o \in Heaps :
  /\ nextID = 1 /\ completed = 0 /\ commands = FALSE
  /\ lists = [n \in 1 .. MaxLists |-> IF n = 1 THEN NewList(1) ELSE Over]
  /\ pool = <<>>
  /\ memory = [m \in Memory |-> IF m = o THEN Live("heap") ELSE Free]
  /\ retired = [object |-> <<>>, block |-> <<>>]
  /\ heap = [in |-> o, desc |-> StartSlots, ring |-> Ring(StartSlots), pool |-> <<>>]
  /\ frames = [t \in Threads |-> <<>>]
  /\ registered = {} /\ signalled = FALSE /\ early = FALSE /\ pressed = {}

-----------------------------------------------------------------------------
(* Call frames.                                                            *)

Idle(t)   == frames[t] = <<>>
Top(t)    == Last(frames[t])
In(t, op) == ~Idle(t) /\ Top(t).op = op

Pop(t)     == frames' = [frames EXCEPT ![t] = Front(@)]
Push(t, f) == frames' = [frames EXCEPT ![t] = @ \o f]

Wait(value, state) == [op |-> "wait", value |-> value, state |-> state]

-----------------------------------------------------------------------------
(* Deferred deletion.                                                      *)

Queues == {"object", "block"}
QueueOf(kind) == IF kind = "block" THEN "block" ELSE "object"

(* Mutant: it is enough that the list has been submitted.                  *)
ReadyOnceSubmitted(last) == last < nextID

ReadyToDestroy(last) == last <= completed

(* What TrimDeletedObjects leaves of a queue: it only takes heads, so that *)
(* one that must wait holds back those behind it.                          *)
Remaining(queue) ==
  LET blocked == {i \in DOMAIN queue : ~ReadyToDestroy(queue[i].last)}
  IN IF blocked = {} THEN <<>>
     ELSE SubSeq(queue, CHOOSE i \in blocked : \A j \in blocked : i <= j, Len(queue))

Left == [q \in Queues |-> Remaining(retired[q])]

Items(queues) == UNION {{e.item : e \in Range(queues[q])} : q \in Queues}

(* The heap in use and those in the pool have a reference besides the      *)
(* queue's.                                                                *)
Kept == {heap.in} \cup {e.item : e \in Range(heap.pool)}

TrimDeletedObjects ==
  LET destroyed == Items(retired) \ (Items(Left) \cup Kept) IN
  /\ retired' = Left
  /\ memory' = [m \in Memory |-> IF m \in destroyed THEN Free ELSE memory[m]]

(* The smaller of the values that the heads of the two queues wait for.    *)
SyncPoint ==
  LET heads == {Head(retired[q]).last : q \in {r \in Queues : retired[r] # <<>>}}
  IN IF heads = {} THEN Never ELSE CHOOSE v \in heads : \A w \in heads : v <= w

Retire(m, last) == [retired EXCEPT ![QueueOf(memory[m].kind)] = Append(@, [item |-> m, last |-> last])]

Usable(m) == m \in Buffers /\ memory[m].state = "live"

(* Whoever holds it last gives a resource up: ~Resource, and after it      *)
(* AddResourceToDeferredDeletionQueue or ReleaseSuballocatedHeap.  What is *)
(* being recorded is held by its task.                                     *)
Release(m) ==
  /\ Usable(m)
  /\ ~\E f \in Range(frames[Exec]) : f.op \in {"dispatch", "map"} /\ f.item = m
  /\ IF ReadyToDestroy(memory[m].last)
     THEN memory' = [memory EXCEPT ![m] = Free] /\ UNCHANGED retired
     ELSE memory' = [memory EXCEPT ![m] = Retired] /\ retired' = Retire(m, memory[m].last)
  /\ UNCHANGED <<nextID, completed, lists, commands, pool, heap, frames,
                 registered, signalled, early, pressed>>

-----------------------------------------------------------------------------
(* Submission.                                                             *)

(* The end of SubmitCommandListImpl, once there is an allocator for list   *)
(* n: both are reset, and PostSubmitNotification gives back what is over.  *)
StartList(n, allocator) ==
  /\ lists' = [lists EXCEPT ![n] = NewList(allocator)]
  /\ commands' = FALSE
  /\ TrimDeletedObjects
  /\ heap' = [heap EXCEPT !.ring = Deallocate(@, completed)]

NewAllocator(returned) ==
  CHOOSE a \in 1 .. PoolDepth + 1 : \A e \in Range(returned) : e.item # a

(* CBoundedFencePool: none is through, and there may be no more of them.   *)
MustWait(returned) == Head(returned).last > completed /\ Len(returned) >= PoolDepth

(* SubmitCommandListImpl, called where the frames "below" are left: the    *)
(* list is executed, its allocator goes back to the pool, the fence is     *)
(* signalled behind it, and the next list is prepared.                     *)
SubmitCommandListImpl(below) ==
  LET returned == Append(pool, [item |-> lists[nextID].allocator, last |-> nextID])
      oldest   == Head(returned)
      create   == oldest.last > completed /\ Len(returned) < PoolDepth
  IN /\ nextID < MaxLists
     /\ nextID' = nextID + 1
     /\ IF MustWait(returned)
        THEN /\ pool' = returned
             /\ frames' = [frames EXCEPT ![Exec] =
                  below \o <<[op |-> "retrieve"], Wait(oldest.last, "called")>>]
             /\ UNCHANGED <<lists, commands, memory, retired, heap>>
        ELSE /\ pool' = IF create THEN returned ELSE Tail(returned)
             /\ frames' = [frames EXCEPT ![Exec] = below]
             /\ StartList(nextID + 1, IF create THEN NewAllocator(returned) ELSE oldest.item)

(* The rest of it, when there has been a wait in RetrieveFromPool.         *)
Retrieve ==
  /\ In(Exec, "retrieve")
  /\ StartList(nextID, Head(pool).item)
  /\ pool' = Tail(pool)
  /\ Pop(Exec)
  /\ UNCHANGED <<nextID, completed, registered, signalled, early, pressed>>

(* EnqueueSetEvent at the end of a batch of tasks: their event is to come  *)
(* with the fence value of the list submitted last.                        *)
EnqueueSetEvent ==
  /\ Idle(Exec) /\ commands
  /\ SubmitCommandListImpl(<<>>)
  /\ UNCHANGED <<completed, registered, signalled, early, pressed>>

-----------------------------------------------------------------------------
(* Waits.                                                                  *)

(* The innermost wait of t is over, with what it waited for or without.    *)
Return(t) ==
  /\ frames' = [frames EXCEPT ![t] = Front(@)]
  /\ early' = (early \/ Top(t).value > completed)

(* Mutant: the list that is waited for is not submitted first.             *)
SubmitsNothing(t) == FALSE

(* WaitForFenceValueInternal: the execution thread first submits the list  *)
(* whose value it waits for; another thread returns false instead.         *)
SubmitsFirst(t) == Top(t).state = "called" /\ nextID <= Top(t).value

WaitForFenceValue(t) ==
  /\ In(t, "wait") /\ Top(t).state \in {"called", "submitted"}
  /\ IF SubmitsFirst(t)
     THEN IF t = Exec
          THEN LET below == Front(frames[t]) IN
               /\ SubmitCommandListImpl(Append(below, Wait(Top(t).value, "submitted")))
               /\ pressed' = IF Last(below).op = "fallback" THEN pressed \cup {nextID} ELSE pressed
               /\ UNCHANGED <<completed, registered, signalled, early>>
          ELSE /\ Pop(t)
               /\ UNCHANGED <<nextID, completed, lists, commands, pool, memory, retired, heap,
                              registered, signalled, early, pressed>>
     ELSE /\ IF Top(t).value <= completed
             THEN Pop(t) /\ UNCHANGED registered
             ELSE /\ frames' = [frames EXCEPT ![t] = Append(Front(@), Wait(Top(t).value, "registered"))]
                  /\ registered' = registered \cup {<<t, Top(t).value>>}
          /\ UNCHANGED <<nextID, completed, lists, commands, pool, memory, retired, heap,
                         signalled, early, pressed>>

(* WaitForSingleObject takes the signal away from the event.               *)
WaitForSingleObject(t) ==
  /\ In(t, "wait") /\ Top(t).state = "registered"
  /\ IF signalled THEN Return(t)
     ELSE /\ frames' = [frames EXCEPT ![t] = Append(Front(@), Wait(Top(t).value, "blocked"))]
          /\ UNCHANGED early
  /\ signalled' = FALSE
  /\ UNCHANGED <<nextID, completed, lists, commands, pool, memory, retired, heap, registered, pressed>>

Blocked == {t \in Threads : In(t, "wait") /\ Top(t).state = "blocked"}

(* A fence value that has come is as good as none.                         *)
Pending(value) == IF value <= completed' THEN 0 ELSE value

(* The device runs the lists in their order ...                            *)
GpuCompletes ==
  /\ completed < nextID - 1
  /\ completed' = completed + 1
  /\ lists' = [lists EXCEPT ![completed + 1] = Over]
  /\ pool' = [i \in DOMAIN pool |-> [pool[i] EXCEPT !.last = Pending(@)]]
  /\ memory' = [m \in Memory |-> IF memory[m].state # "live" THEN memory[m]
                  ELSE [memory[m] EXCEPT !.last = Pending(@), !.written = Pending(@)]]
  /\ UNCHANGED <<nextID, commands, retired, heap, frames,
                 registered, signalled, early, pressed>>

(* ... and sets the event for every value that has been waited for.  It is *)
(* an auto-reset event: of the threads that sleep on it, one wakes.        *)
SetEvent ==
  /\ \E r \in registered :
       /\ r[2] <= completed
       /\ registered' = registered \ {r}
  /\ IF Blocked = {} THEN signalled' = TRUE /\ UNCHANGED <<frames, early>>
     ELSE (\E t \in Blocked : Return(t)) /\ UNCHANGED signalled
  /\ UNCHANGED <<nextID, completed, lists, commands, pool, memory, retired, heap, pressed>>

-----------------------------------------------------------------------------
(* Allocation of memory.                                                   *)

(* A resource, or a block of an upload heap on the execution thread.       *)
BeginAllocate(t) ==
  /\ Idle(t)
  /\ Push(t, <<[op |-> "alloc", kind |-> IF t = Exec THEN "block" ELSE "object"]>>)
  /\ UNCHANGED <<nextID, completed, lists, commands, pool, memory, retired, heap,
                 registered, signalled, early, pressed>>

(* The head of m_HeapPool, if it was through when the heap rolled over.    *)
PooledHeap(t) == IF Top(t).kind = "heap" /\ heap.pool # <<>> /\ Head(heap.pool).last <= Top(t).seen
                 THEN {Head(heap.pool).item} ELSE {}

(* What the function that TryAllocateResourceWithFallback tries can have:  *)
(* a descriptor heap out of the pool, or whatever memory is free; which    *)
(* piece makes no difference.                                              *)
Available(t) ==
  IF PooledHeap(t) # {} THEN PooledHeap(t)
  ELSE {m \in IF Top(t).kind = "heap" THEN Heaps ELSE Buffers : memory[m].state = "free"}

Allocated(t) ==
  /\ In(t, "alloc") /\ Available(t) # {}
  /\ LET m == CHOOSE a \in Available(t) : TRUE IN
       /\ heap' = IF Top(t).kind # "heap" THEN heap
                  ELSE [heap EXCEPT !.in = m, !.ring = Ring(heap.desc),
                                    !.pool = IF PooledHeap(t) = {} THEN @ ELSE Tail(@)]
       /\ memory' = [k \in Memory |->
            IF k = m THEN Live(Top(t).kind)
            ELSE IF k = heap.in /\ k # heap'.in /\ k \notin Items(retired) THEN Free
            ELSE memory[k]]
  /\ Pop(t)
  /\ UNCHANGED <<nextID, completed, lists, commands, pool, retired,
                 registered, signalled, early, pressed>>

(* ResourceAllocationFallback: something destroyed, or else a wait until   *)
(* something can be.                                                       *)
ResourceAllocationFallback(t) ==
  /\ In(t, "alloc") /\ Available(t) = {}
  /\ IF Left # retired
     THEN TrimDeletedObjects /\ UNCHANGED frames
     ELSE /\ Push(t, <<[op |-> "fallback", sync |-> SyncPoint], Wait(SyncPoint, "called")>>)
          /\ UNCHANGED <<memory, retired>>
  /\ UNCHANGED <<nextID, completed, lists, commands, pool, heap,
                 registered, signalled, early, pressed>>

(* After the wait: the allocation is tried again when the sync point has   *)
(* moved or something can be destroyed now.  When not, the exception goes  *)
(* all the way up, and a heap that was moved to the pool is not replaced.  *)
FallbackReturns(t) ==
  LET moved == SyncPoint < Never /\ SyncPoint # Top(t).sync IN
  /\ In(t, "fallback")
  /\ IF moved \/ Left # retired
     THEN /\ Pop(t)
          /\ IF moved THEN UNCHANGED <<memory, retired>> ELSE TrimDeletedObjects
     ELSE frames' = [frames EXCEPT ![t] = <<>>] /\ UNCHANGED <<memory, retired>>
  /\ UNCHANGED <<nextID, completed, lists, commands, pool, heap,
                 registered, signalled, early, pressed>>

-----------------------------------------------------------------------------
(* Recording.                                                              *)

(* ProcessTransitioningResource with Resource::UsedInCommandList: list     *)
(* nextID uses m, and writes it where the state says so.                   *)
Used(piece, writes) ==
  [piece EXCEPT !.last = nextID, !.written = IF writes THEN nextID ELSE @]
MarkUsed(m, writes) == [memory EXCEPT ![m] = Used(@, writes)]

\* A list with a copy, and one with a dispatch that is about to be recorded.
WithCopy(list, m, writes) ==
  [list EXCEPT !.uses = @ \cup {m}, !.writes = IF writes THEN @ \cup {m} ELSE @]
WithDispatch(list, f, slots) ==
  LET args == IF f.list = nextID THEN {f.item} ELSE {} IN
  [list EXCEPT !.uses = @ \cup {heap.in} \cup args, !.writes = @ \cup args,
               !.slots = @ \cup slots, !.torn = @ \/ f.list # nextID]

(* A copy, a fill, a query: anything recorded in one go.                   *)
RecordCopy(m, writes) ==
  /\ Idle(Exec) /\ nextID < MaxLists /\ Usable(m)
  /\ memory' = MarkUsed(m, writes)
  /\ lists' = [lists EXCEPT ![nextID] = WithCopy(@, m, writes)]
  /\ commands' = TRUE
  /\ UNCHANGED <<nextID, completed, pool, retired, heap, frames,
                 registered, signalled, early, pressed>>

(* ExecuteKernel::RecordImpl up to the descriptors: the pipeline is set,   *)
(* and the transitions are applied.  The argument is one the kernel may    *)
(* write.                                                                  *)
BeginDispatch(m) ==
  /\ Idle(Exec) /\ nextID < MaxLists /\ Usable(m) /\ heap.in # NoHeap
  /\ memory' = MarkUsed(m, TRUE)
  /\ Push(Exec, <<[op |-> "dispatch", item |-> m, list |-> nextID]>>)
  /\ UNCHANGED <<nextID, completed, lists, commands, pool, retired, heap,
                 registered, signalled, early, pressed>>

(* ReserveSlots finds room, and the dispatch is recorded.                  *)
Dispatch ==
  LET got == Allocate(heap.ring, SlotsOfDispatch, nextID)
      slots == {heap.in} \X LastSlots(got.ring, SlotsOfDispatch)
  IN /\ In(Exec, "dispatch") /\ got.ok
     /\ heap' = [heap EXCEPT !.ring = got.ring]
     /\ lists' = [lists EXCEPT ![nextID] = WithDispatch(@, Top(Exec), slots)]
     /\ commands' = TRUE
     /\ Pop(Exec)
     /\ UNCHANGED <<nextID, completed, pool, memory, retired, registered, signalled, early, pressed>>

ReturnHeapToPool == Append(heap.pool, [item |-> heap.in, last |-> nextID])

(* Mutant: room is made by submitting what has been recorded.              *)
RollOverBySubmitting ==
  /\ In(Exec, "dispatch") /\ ~Allocate(heap.ring, SlotsOfDispatch, nextID).ok
  /\ SubmitCommandListImpl(frames[Exec])
  /\ UNCHANGED <<completed, registered, signalled, early, pressed>>

(* RollOverHeap: a heap twice the size for the one that is full, or, at    *)
(* the greatest size, another one.                                         *)
RollOverHeap ==
  LET grows == heap.desc < MaxSlots IN
  /\ In(Exec, "dispatch") /\ ~Allocate(heap.ring, SlotsOfDispatch, nextID).ok
  /\ Push(Exec, <<[op |-> "alloc", kind |-> "heap", seen |-> IF grows THEN 0 ELSE completed]>>)
  /\ IF grows
     THEN /\ heap' = [heap EXCEPT !.desc = IF 2 * @ < MaxSlots THEN 2 * @ ELSE MaxSlots]
          /\ memory' = [memory EXCEPT ![heap.in] = Retired]
          /\ retired' = Retire(heap.in, nextID)
     ELSE /\ heap' = [heap EXCEPT !.in = NoHeap, !.pool = ReturnHeapToPool]
          /\ UNCHANGED <<memory, retired>>
  /\ UNCHANGED <<nextID, completed, lists, commands, pool, registered, signalled, early, pressed>>

(* Mutant: a map for reading waits for the readers, and no writer.         *)
WaitForOthers(m, reads) == IF reads THEN 0 ELSE memory[m].last

(* SynchronizeForMap: a map for reading waits for the last list that       *)
(* writes, any other one for the last that uses the resource.              *)
MapFenceValue(m, reads) == IF reads THEN memory[m].written ELSE memory[m].last

Map(m, reads) ==
  /\ Idle(Exec) /\ Usable(m) /\ nextID < MaxLists
  /\ Push(Exec, <<[op |-> "map", item |-> m, reads |-> reads],
                  Wait(MapFenceValue(m, reads), "called")>>)
  /\ UNCHANGED <<nextID, completed, lists, commands, pool, memory, retired, heap,
                 registered, signalled, early, pressed>>

MapReturns ==
  /\ In(Exec, "map")
  /\ Pop(Exec)
  /\ UNCHANGED <<nextID, completed, lists, commands, pool, memory, retired, heap,
                 registered, signalled, early, pressed>>

-----------------------------------------------------------------------------
(* Specification.                                                          *)

ThreadStep(t) ==
  \/ WaitForFenceValue(t) \/ WaitForSingleObject(t)
  \/ Allocated(t) \/ ResourceAllocationFallback(t) \/ FallbackReturns(t)

ExecStep == ThreadStep(Exec) \/ Retrieve \/ Dispatch \/ RollOverHeap \/ MapReturns

Gpu == GpuCompletes \/ SetEvent

Next ==
  \/ ExecStep \/ Gpu \/ EnqueueSetEvent
  \/ \E t \in FreeThreads : ThreadStep(t)
  \/ \E t \in Threads : BeginAllocate(t)
  \/ \E m \in Memory :
       \/ Release(m)
       \/ BeginDispatch(m)
       \/ \E b \in BOOLEAN : RecordCopy(m, b) \/ Map(m, b)

Spec == Init /\ [][Next]_vars

(* The device goes on with what it was given, the fence sets the event,    *)
(* and threads that are inside a call go on.                               *)
Fairness == WF_vars(GpuCompletes) /\ WF_vars(SetEvent) /\ WF_vars(ExecStep)
            /\ \A t \in FreeThreads : WF_vars(ThreadStep(t))

FairSpec == Spec /\ Fairness

-----------------------------------------------------------------------------
(* Properties.                                                             *)

InFlight == completed + 1 .. nextID

(* Nothing that a list uses is given to someone else before the list is    *)
(* over: not its memory, not its command allocator, not its descriptors.   *)
(* A thread that a wait has failed may break this; the dispatches that     *)
(* have lost their list are the subject of the next property.              *)
NothingReusedInFlight ==
  early \/
  /\ \A n \in InFlight : \A m \in lists[n].uses : memory[m].state # "free"
  /\ \A n, k \in InFlight : n # k /\ lists[n] # Over /\ lists[k] # Over =>
       /\ lists[n].allocator # lists[k].allocator
       /\ lists[n].slots \cap lists[k].slots = {}

(* A dispatch is recorded in the list that its pipeline was set in and     *)
(* that its resources are marked for, unless memory ran out in between.    *)
DispatchesWhole ==
  \A n \in 1 .. nextID : lists[n].torn => \E p \in pressed : p < n

(* When a map returns, no list that is not over writes what is mapped, nor *)
(* reads it where the map is to write.                                     *)
MapsSynchronized ==
  In(Exec, "map") /\ ~early =>
    \A n \in InFlight :
      /\ Top(Exec).item \notin lists[n].writes
      /\ ~Top(Exec).reads => Top(Exec).item \notin lists[n].uses

(* Threads share m_hWaitEvent: one whose signal woke another sleeps on.    *)
Forsaken(t) == t \in Blocked /\ ~signalled /\ <<t, Top(t).value>> \notin registered

(* With nothing to be destroyed, the value waited for is ~0.               *)
WaitsForNothing(t) == In(t, "wait") /\ Top(t).value = Never

(* Every wait for the fence ends, but for those two.                       *)
WaitsEnd ==
  \A t \in Threads :
    In(t, "wait") /\ Top(t).state \in {"registered", "blocked"}
      ~> ~In(t, "wait") \/ Top(t).state = "called" \/ Forsaken(t) \/ WaitsForNothing(t)

=============================================================================
