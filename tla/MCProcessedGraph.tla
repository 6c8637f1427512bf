-------------------------- MODULE MCProcessedGraph --------------------------
(* A chain of two stages that hold a frame each, in front of a device at    *)
(* twice the source's rate.                                                 *)
EXTENDS ProcessedGraph

MCHolds == <<1, 1>>
=============================================================================
