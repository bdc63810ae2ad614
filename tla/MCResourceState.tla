-------------------------- MODULE MCResourceState ---------------------------
(* A texture of two subresources, a buffer, and the staging buffer.        *)
EXTENDS ResourceState

(* What the last command did decides nothing of what the next one does.    *)
(* The properties are of steps, which TLC checks each by itself.           *)
View == <<nextID, tracked, half, actual, inList>>
=============================================================================
