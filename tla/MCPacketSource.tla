--------------------------- MODULE MCPacketSource ---------------------------
(* Streams of six frames in packets of one to three, with and without a     *)
(* delay, a stated length and padding, alone and together.                  *)
EXTENDS PacketSource

MCEdits ==
    [skip : {0, 2}, play : {0, 3}, trim : {0, 2, 9}, self : BOOLEAN]
    \cup {[skip |-> 1, play |-> 5, trim |-> 1, self |-> FALSE]}
=============================================================================
