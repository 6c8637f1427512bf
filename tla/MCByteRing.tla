----------------------------- MODULE MCByteRing -----------------------------
(* Four bytes of ring and indices of three bits: within MaxBytes bytes the  *)
(* indices wrap, and every way of splitting a copy in two happens.          *)
EXTENDS ByteRing

MCCapacity == 4
MCModulus == 8
MCMaxBytes == 10
=============================================================================
