-------------------------- MODULE MCKernelExecution --------------------------
(* Small instances of KernelExecution, with Program under it.              *)
EXTENDS KernelExecution

CONSTANTS p1, d1, d2, k1, k2, t1, t2, c1

OneDevice == <<d1>>
TwoDevices == <<d1, d2>>

\* One program, of either of the two ways to build one.
OneProgram == {p1 :> "il", p1 :> "binary"}
=============================================================================
