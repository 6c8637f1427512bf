--------------------------- MODULE MCPacketRouter ---------------------------
(* Files of an audio and a video stream, and packets of one nobody selected: *)
(* interleaved well, all of one stream first, and with a packet over a cap. *)
EXTENDS PacketRouter

A(n) == [stream |-> "audio", bytes |-> n]
V(n) == [stream |-> "video", bytes |-> n]
O == [stream |-> "other", bytes |-> 1]

MCFiles ==
    {<<A(1), V(2), A(1), O, V(2), A(1)>>, <<V(2), V(2), V(1), A(1), A(1), A(1)>>,
     <<A(1), V(5), V(1), V(1), O, A(1)>>}
MCStreams == {"audio", "video"}
MCLimits ==
    {[soft |-> 3, floor |-> 0, hard |-> 0], [soft |-> 2, floor |-> 2, hard |-> 4],
     [soft |-> 8, floor |-> 4, hard |-> 0]}
=============================================================================
