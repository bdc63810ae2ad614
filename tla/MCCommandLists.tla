--------------------------- MODULE MCCommandLists ---------------------------
(* A small instance of CommandLists: the heap is doubled once and has then *)
(* room for two dispatches.                                                *)
EXTENDS CommandLists
=============================================================================
