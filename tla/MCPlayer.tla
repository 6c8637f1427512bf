------------------------------ MODULE MCPlayer ------------------------------
(* Playlists with two tracks that join, another format, a picture, and an   *)
(* entry that will not open.                                                *)
EXTENDS Player

MCKind == [a |-> "44k", b |-> "44k", c |-> "96k", p |-> "silent", x |-> "closed"]
MCFiles == DOMAIN MCKind
MCLists == {<<"a", "b", "c">>, <<"p", "x", "a">>}
MCAskSets ==
    {{"play", "stop", "pause", "seek", "next", "previous"},
     {"play", "set", "set_node", "pause", "resume"},
     {"play", "play_at", "move", "enqueue", "clear", "calibrate", "shutdown"}}
=============================================================================
