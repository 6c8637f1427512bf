----------------------------- MODULE MCIpcServer -----------------------------
(* A shell that asks, twice if the other never comes, which only hangs on.   *)
EXTENDS IpcServer

CONSTANTS s1, s2

Asks(n) == [s \in Shells |-> IF s = s1 THEN n ELSE 0]
MCRequests == Asks(1)
MCLone == Asks(2)
=============================================================================
