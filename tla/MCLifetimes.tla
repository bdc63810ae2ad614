---------------------------- MODULE MCLifetimes -----------------------------
(* Two contexts: one of two devices, and one that shares a device with GL. *)
EXTENDS Lifetimes

CONSTANTS c1, c2, a1, a2

OwnDevice(a) == [device |-> a, gl |-> FALSE]
GlDevice(a)  == [device |-> a, gl |-> TRUE]

TwoContexts == [c \in Contexts |-> IF c = c1 THEN <<OwnDevice(a1), OwnDevice(a2)>> ELSE <<GlDevice(a1)>>]
InTheFirst == [e \in Events |-> c1]
=============================================================================
