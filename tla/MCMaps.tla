------------------------------- MODULE MCMaps -------------------------------
(* An object of two cells, mapped as a whole or by the cell.               *)
EXTENDS MapTracking

MCRegions == {{1}, {2}, {1, 2}}
MCSymmetry == Permutations(Threads)
=============================================================================
