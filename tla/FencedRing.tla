----------------------------- MODULE FencedRing -----------------------------
(***************************************************************************)
(* CFencedRingBuffer (ImmediateContext.hpp): the slots of a descriptor     *)
(* heap, handed out in a ring and given back by fence value.  A ledger of  *)
(* LedgerSize entries says how many slots each command list has taken.     *)
(***************************************************************************)
EXTENDS Naturals, FiniteSetsExt

CONSTANT LedgerSize

ASSUME LedgerAssumption == LedgerSize \in Nat \ {0}

Entries == 0 .. LedgerSize - 1

Ring(size) ==
  [size |-> size, head |-> size, tail |-> 0, index |-> 0, taken |-> {0},
   ledger |-> [i \in Entries |-> [fence |-> 0, count |-> 0]]]

Done(r)   == [ok |-> TRUE, ring |-> r]
Failed(r) == [ok |-> FALSE, ring |-> r]

(* The index moves on even where the next entry is still taken.            *)
MoveToNextLedgerEntry(r, fence) ==
  LET i == (r.index + 1) % LedgerSize IN
  IF i \in r.taken
  THEN Failed([r EXCEPT !.index = i])
  ELSE Done([r EXCEPT !.index = i, !.taken = @ \cup {i},
                      !.ledger[i] = [fence |-> fence, count |-> 0]])

EnterLedger(r, fence) ==
  IF fence > r.ledger[r.index].fence THEN MoveToNextLedgerEntry(r, fence) ELSE Done(r)

Take(r, n) ==
  IF r.tail + n <= r.head
  THEN Done([r EXCEPT !.tail = @ + n, !.ledger[r.index].count = @ + n])
  ELSE Failed(r)

(* Slots are contiguous: those before the end that do not suffice are      *)
(* thrown away.                                                            *)
Allocate(r, n, fence) ==
  LET entered == EnterLedger(r, fence)
      at      == r.tail % r.size
      padded  == IF at + n > r.size THEN Take(entered.ring, r.size - at) ELSE entered
  IN IF entered.ok /\ padded.ok THEN Take(padded.ring, n)
     ELSE Failed(IF entered.ok THEN padded.ring ELSE entered.ring)

(* The slots of the n allocated last.                                      *)
LastSlots(r, n) == {i % r.size : i \in r.tail - n .. r.tail - 1}

Deallocate(r, completed) ==
  LET freed == {i \in r.taken : r.ledger[i].fence <= completed} IN
  [r EXCEPT !.head = @ + MapThenSumSet(LAMBDA i : r.ledger[i].count, freed),
            !.taken = @ \ freed,
            !.ledger = [i \in Entries |-> IF i \in freed THEN [fence |-> 0, count |-> 0] ELSE @[i]]]
=============================================================================
