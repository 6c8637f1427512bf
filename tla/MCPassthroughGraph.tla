------------------------- MODULE MCPassthroughGraph -------------------------
(* Instances of the graph.  A file of a few chunks, a ring of one and a     *)
(* half, so that it fills, runs dry and ends within a chunk.                *)
EXTENDS PassthroughGraph

AllFaults == FaultKinds
AllDeadlines == DeadlineKinds
=============================================================================
