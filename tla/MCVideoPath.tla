----------------------------- MODULE MCVideoPath -----------------------------
(* A file of two frames, one to decode and let go before the target of a  *)
(* seek, and one kind of fault in a behaviour.                              *)
EXTENDS VideoPath

MCFaultSets == {{f} : f \in FaultKinds}
=============================================================================
