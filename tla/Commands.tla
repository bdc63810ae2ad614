------------------------------ MODULE Commands ------------------------------
(***************************************************************************)
(* Memory objects, the commands that the application has the runtime      *)
(* execute on them (transfers, and kernels), and the memory the lists of   *)
(* these commands need: what must be resident, and the upload and readback *)
(* memory.  A command is followed from the call to its completion; what    *)
(* happens between two of them is TaskPool's subject.  Residency and       *)
(* Suballocator know what is allocated by its size alone: they share no    *)
(* state with the rest, and take their steps where there are no objects.   *)
(***************************************************************************)
EXTENDS Transfers, NDRange, Residency, Suballocator

CONSTANT MaxBound    \* bound: objects there are when a kernel is created

vars == <<objects, transferVars, NDVars, residencyVars, suballocatorVars>>

Init == TransferInit /\ NDInit /\ ResidencyInit /\ SuballocatorInit

ResidencyInUse == listID > 1 \/ \E a \in Allocations : Tracked(a)
SuballocatorInUse == owned # {}
MemoryInUse == ResidencyInUse \/ SuballocatorInUse

Next ==
  \/ /\ kernel = NoKernel /\ ~MemoryInUse
     /\ TransferNext /\ UNCHANGED <<NDVars, residencyVars, suballocatorVars>>
  \/ /\ phase = "idle" /\ Len(objects) <= MaxBound /\ ~MemoryInUse
     /\ NDNext /\ UNCHANGED <<transferVars, residencyVars, suballocatorVars>>
  \/ /\ objects = <<>> /\ kernel = NoKernel /\ ~SuballocatorInUse
     /\ ResidencyNext /\ UNCHANGED <<objects, transferVars, NDVars, suballocatorVars>>
  \/ /\ objects = <<>> /\ kernel = NoKernel /\ ~ResidencyInUse
     /\ SuballocatorNext /\ UNCHANGED <<objects, transferVars, NDVars, residencyVars>>

Spec == Init /\ [][Next]_vars
=============================================================================
