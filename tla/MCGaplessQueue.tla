--------------------------- MODULE MCGaplessQueue ---------------------------
(* Playlists of three and four short entries: tracks that join, one that    *)
(* will not open between two that do, another format, a picture, and tracks *)
(* that cannot seek or refuse some seeks.                                   *)
EXTENDS GaplessQueue

Any(format, frames, seeks) == [format |-> format, frames |-> frames, seeks |-> seeks]
Track(n) == Any("44k", n, "always")
Stream(n) == Any("44k", n, "never")
Wayward(n) == Any("44k", n, "sometimes")
OtherTrack == Any("96k", 1, "always")
Picture == Any("silent", 1, "always")
Broken == Any("closed", 1, "always")

MCPlaylists ==
    {<<Track(2), Track(1), Track(1)>>,
     <<Track(1), Broken, Track(2), Picture, Track(1)>>,
     <<Track(2), OtherTrack>>,
     <<Stream(2), Wayward(1)>>,
     <<Picture, Broken>>}
MCTargets == {1, 3}
=============================================================================
