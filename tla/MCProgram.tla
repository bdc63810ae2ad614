----------------------------- MODULE MCProgram -----------------------------
(* Small instances of Program.                                             *)
EXTENDS Program

CONSTANTS p1, p2, d1, d2

TwoDevices == <<d1, d2>>

\* A program to link, and the program that the link makes.
InputAndLinked == {p1 :> "source" @@ p2 :> "linked", p1 :> "binary" @@ p2 :> "linked"}
=============================================================================
