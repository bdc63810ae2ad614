----------------------------- MODULE Residency ------------------------------
(***************************************************************************)
(* Which allocations of a device lie in its memory (Residency.cpp).  A     *)
(* command list is executed after everything it uses has been asked to be  *)
(* made resident, for which what has not been used for longest is evicted, *)
(* if need be after a wait for the lists that use it.                      *)
(*                                                                         *)
(* List n is over when the fence has the value n.  The manager's mutex is  *)
(* held while it waits: other threads then neither create nor destroy      *)
(* anything.  Nothing is ever pinned, and EnqueueMakeResident succeeds.    *)
(***************************************************************************)
EXTENDS Integers, Sequences, FiniteSets, SequencesExt

CONSTANTS
  Allocations,   \* the objects that may be tracked
  SizeOf,        \* their sizes
  Spaces,        \* budget less usage, as the operating system may tell it
  MaxExecuted    \* bound on the lists executed

ASSUME ResidencyAssumption ==
  /\ IsFiniteSet(Allocations) /\ SizeOf \in [Allocations -> Nat \ {0}]
  /\ Spaces \subseteq Int /\ MaxExecuted \in Nat

VARIABLES
  lru,        \* ResidentObjectListHead: what is taken to be resident, stalest first
  lastUsed,   \* LastUsedFenceValue of what is tracked
  opened,     \* the ResidencySet of the list that is recorded
  listID,     \* the number of that list
  over,       \* the last list that is over
  flight,     \* what each list uses, and the requests that must be met before it runs
  onDevice,   \* what is resident
  requests,   \* EnqueueMakeResident calls the device has not come to
  paging      \* ProcessPagingWork in progress

residencyVars ==
  <<lru, lastUsed, opened, listID, over, flight, onDevice, requests, paging>>

Untracked == -1
Idle == [missing |-> <<>>, active |-> FALSE]
Gone == [uses |-> {}, waits |-> 0]

Tracked(a) == lastUsed[a] # Untracked
Evicted == {a \in Allocations : Tracked(a)} \ ToSet(lru)

\* The size of the objects of a list, and those of them that are in a set.
TotalSize(s) ==
  LET sum[i \in 0 .. Len(s)] == IF i = 0 THEN 0 ELSE sum[i - 1] + SizeOf[s[i]]
  IN  sum[Len(s)]
Those(s, S) ==
  LET kept[i \in 0 .. Len(s)] ==
        IF i = 0 THEN <<>> ELSE IF s[i] \in S THEN Append(kept[i - 1], s[i]) ELSE kept[i - 1]
  IN  kept[Len(s)]
Drop(s, n) == SubSeq(s, n + 1, Len(s))
Leading(s, n) == ToSet(SubSeq(s, 1, n))

-----------------------------------------------------------------------------
(* Objects.                                                                *)

(* A new object is the first to be evicted.                                *)
BeginTrackingObject(a, resident) ==
  /\ ~paging.active /\ ~Tracked(a)
  /\ lastUsed' = [lastUsed EXCEPT ![a] = 0]
  /\ lru' = IF resident THEN <<a>> \o lru ELSE lru
  /\ onDevice' = IF resident THEN onDevice \cup {a} ELSE onDevice
  /\ UNCHANGED <<opened, listID, over, flight, requests, paging>>

(* Deferred deletion: no list that uses the object is left.                *)
EndTrackingObject(a) ==
  /\ ~paging.active /\ lastUsed[a] \in 0 .. over /\ a \notin ToSet(opened)
  /\ lastUsed' = [lastUsed EXCEPT ![a] = Untracked]
  /\ lru' = Those(lru, Allocations \ {a})
  /\ onDevice' = onDevice \ {a}
  /\ UNCHANGED <<opened, listID, over, flight, requests, paging>>

Insert(a) ==
  /\ ~paging.active /\ Tracked(a) /\ a \notin ToSet(opened) /\ listID <= MaxExecuted
  /\ opened' = Append(opened, a)
  /\ UNCHANGED <<lru, lastUsed, listID, over, flight, onDevice, requests, paging>>

-----------------------------------------------------------------------------
(* ProcessPagingWork.                                                      *)

(* How many of the first n in order were last used no later than in list   *)
(* fence: the first that was not ends the trimming.                        *)
Stale(order, n, used, fence) ==
  LET ends == {i \in 1 .. n : used[order[i]] > fence}
  IN  IF ends = {} THEN n ELSE (CHOOSE i \in ends : \A j \in ends : i <= j) - 1

(* What the list uses becomes the most recent, what it misses is noted     *)
(* (and taken to be resident), and what is old enough, a matter of time,   *)
(* is evicted: TrimAgedAllocations.  Lists that use nothing are left out.  *)
ProcessPagingWork(old, space) ==
  LET used  == [a \in Allocations |-> IF a \in ToSet(opened) THEN listID ELSE lastUsed[a]]
      order == Those(lru, Allocations \ ToSet(opened)) \o opened
      n     == Stale(order, IF old < Len(order) THEN old ELSE Len(order), used, over)
  IN  /\ ~paging.active /\ opened # <<>>
      /\ lastUsed' = used
      /\ lru' = Drop(order, n)
      /\ onDevice' = onDevice \ Leading(order, n)
      /\ paging' = [active |-> TRUE, missing |-> Those(opened, Evicted),
                    space |-> space, waitFor |-> Untracked, rounds |-> 0]
      /\ UNCHANGED <<opened, listID, over, flight, requests>>

(* Those of the missing that fit into the space, which is not updated.     *)
Fitting ==
  LET m == paging.missing IN
  CHOOSE n \in 0 .. Len(m) :
    /\ TotalSize(SubSeq(m, 1, n)) <= paging.space \/ n = 0
    /\ n < Len(m) => TotalSize(SubSeq(m, 1, n + 1)) > paging.space

(* GPUWait and ExecuteCommandLists: the list runs after all the requests   *)
(* made by now.                                                            *)
ExecuteCommandList ==
  /\ flight' = [flight EXCEPT ![listID] = [uses |-> ToSet(opened), waits |-> Len(requests')]]
  /\ listID' = listID + 1 /\ opened' = <<>> /\ paging' = Idle

(* One round of the loop: a batch is requested; if that was not all of     *)
(* them, the rest is when only this list's objects are left to evict, or   *)
(* else the last list that uses the stalest object is waited for.          *)
MakeResident ==
  LET n       == IF paging.space > 0 THEN Fitting ELSE 0
      rest    == Drop(paging.missing, n)
      batched == IF paging.missing = <<>> \/ paging.space <= 0 THEN requests
                 ELSE Append(requests, Leading(paging.missing, n))
      forced  == lastUsed[Head(lru)] > listID - 1
  IN  /\ paging.active /\ paging.waitFor = Untracked
      /\ IF rest = <<>> \/ forced
         THEN /\ requests' = IF rest = <<>> THEN batched ELSE Append(batched, ToSet(rest))
              /\ ExecuteCommandList
         ELSE /\ requests' = batched
              /\ paging' = [paging EXCEPT !.missing = rest, !.waitFor = lastUsed[Head(lru)]]
              /\ UNCHANGED <<opened, listID, flight>>
      /\ UNCHANGED <<lru, lastUsed, over, onDevice>>

(* Mutant: whatever is stale enough for the budget is evicted.             *)
TrimmedToBudget(fence) ==
  CHOOSE n \in 0 .. Len(lru) :
    LET enough(k) == TotalSize(paging.missing) - TotalSize(SubSeq(lru, 1, k)) < paging.space
    IN  /\ n = Len(lru) \/ enough(n)
        /\ \A k \in 0 .. n - 1 : ~enough(k)

(* TrimToSyncPointInclusive: how many it evicts, until what is missing     *)
(* fits or something was used after the list that has been waited for.     *)
Trimmed(fence) ==
  LET stale == Stale(lru, Len(lru), lastUsed, fence)
      enough(k) == TotalSize(paging.missing) - TotalSize(SubSeq(lru, 1, k)) < paging.space
  IN  CHOOSE n \in 0 .. stale :
        /\ n = stale \/ enough(n)
        /\ \A k \in 0 .. n - 1 : ~enough(k)

TrimToSyncPointInclusive ==
  /\ paging.active /\ paging.waitFor \in 0 .. over
  /\ LET n == Trimmed(paging.waitFor) IN
     lru' = Drop(lru, n) /\ onDevice' = onDevice \ Leading(lru, n)
  /\ paging' = [paging EXCEPT !.waitFor = Untracked, !.rounds = @ + 1]
  /\ UNCHANGED <<lastUsed, opened, listID, over, flight, requests>>

-----------------------------------------------------------------------------
(* External: the device.  Requests are met one after the other ...         *)
MeetsRequest ==
  /\ requests # <<>>
  /\ onDevice' = onDevice \cup Head(requests)
  /\ requests' = Tail(requests)
  /\ flight' = [n \in DOMAIN flight |->
       [flight[n] EXCEPT !.waits = IF @ = 0 THEN 0 ELSE @ - 1]]
  /\ UNCHANGED <<lru, lastUsed, opened, listID, over, paging>>

(* ... and lists run in their order, each after those it waits for.        *)
FinishesList ==
  /\ over + 1 < listID /\ flight[over + 1].waits = 0
  /\ over' = over + 1
  /\ flight' = [flight EXCEPT ![over + 1] = Gone]
  /\ UNCHANGED <<lru, lastUsed, opened, listID, onDevice, requests, paging>>

ResidencyInit ==
  /\ lru = <<>> /\ lastUsed = [a \in Allocations |-> Untracked] /\ opened = <<>>
  /\ listID = 1 /\ over = 0 /\ flight = [n \in 1 .. MaxExecuted |-> Gone]
  /\ onDevice = {} /\ requests = <<>> /\ paging = Idle

ResidencyNext ==
  \/ \E a \in Allocations :
       EndTrackingObject(a) \/ Insert(a) \/ \E b \in BOOLEAN : BeginTrackingObject(a, b)
  \/ \E old \in 0 .. Cardinality(Allocations), space \in Spaces : ProcessPagingWork(old, space)
  \/ MakeResident \/ TrimToSyncPointInclusive
  \/ MeetsRequest \/ FinishesList

ResidencySpec == ResidencyInit /\ [][ResidencyNext]_residencyVars

-----------------------------------------------------------------------------
(* What the manager takes to be resident is, or has been asked to be.      *)
BooksAgree ==
  /\ IsInjective(lru)
  /\ ToSet(lru) = onDevice \cup (UNION ToSet(requests)) \cup ToSet(paging.missing)

(* Everything that an executed list uses lies in the device's memory from  *)
(* when the list may run until it is over, whatever is evicted meanwhile   *)
(* for lists behind it; what the manager takes to be resident agrees with  *)
(* the device, and its loop ends: each round but the last evicts.          *)
ResidentWhenRun ==
  /\ \A n \in over + 1 .. listID - 1 : flight[n].waits = 0 => flight[n].uses \subseteq onDevice
  /\ BooksAgree
  /\ paging.active => paging.rounds <= Cardinality(Allocations)
=============================================================================
