------------------------------ MODULE Playback ------------------------------
(***************************************************************************)
(* What a graph promises whoever drives it (passthrough.hpp:130-160):      *)
(* frames of the source go to the device in order, each once; only a seek  *)
(* moves what comes next; a seek is answered after it landed, unless the   *)
(* run is over.  A seek the run ended on is left behind: it is done by the *)
(* next run, and may then be taken for the seek asked there.  A stop that  *)
(* comes while it is done takes the ring from a reader, so that what comes *)
(* next is promised no more.  Threads, rings and handshakes do not appear. *)
(***************************************************************************)
EXTENDS Integers

CONSTANTS
    Length,     \* frames in the source
    Begins,     \* where the source may stand at first
    Targets,    \* frames one may seek to
    Most        \* frames in the largest buffer

VARIABLES
    run,        \* "off", "on", or "over": ended, its threads not joined
    next,       \* the frame the device is given next
    seek,       \* of the caller: "none", "asked" or "landed"
    goal,       \* the frame asked for, until the source moves there
    left        \* a seek was left behind

vars == <<run, next, seek, goal, left>>

None == -1

Init ==
    /\ run = "off"
    /\ next \in Begins
    /\ seek = "none" /\ goal = None
    /\ left = FALSE

Least(a, b) == IF a < b THEN a ELSE b
Further(n) == next..Least(next + n, Length)

(* What may come next, n frames on at most. *)
Comes(n) == IF left THEN 0..Length ELSE Further(n)

(* What an earlier run had read ahead, the next one does not play.          *)
Skip ==
    /\ run = "off"
    /\ next' \in Comes(Length)
    /\ UNCHANGED <<run, seek, goal, left>>

(* A run begins with the device's first buffer, if there is anything for it. *)
Begin ==
    /\ run = "off"
    /\ run' = "on"
    /\ next' \in Comes(Most)
    /\ UNCHANGED <<seek, goal, left>>

Give ==
    /\ run # "off"
    /\ next' \in Comes(Most)
    /\ UNCHANGED <<run, seek, goal, left>>

End ==
    /\ run = "on"
    /\ run' = "over"
    /\ UNCHANGED <<next, seek, goal, left>>

Join ==
    /\ run = "over"
    /\ run' = "off"
    /\ UNCHANGED <<next, seek, goal, left>>

(* Of a graph that is not playing a seek is asked and answered at once.     *)
Ask(frame) ==
    /\ run # "over" /\ seek = "none"
    /\ seek' = IF run = "on" THEN "asked" ELSE "none"
    /\ goal' = frame
    /\ UNCHANGED <<run, next, left>>

Land ==
    /\ goal # None
    /\ next' \in IF left THEN Targets ELSE {goal}
    /\ goal' = None
    /\ seek' = IF seek = "asked" THEN "landed" ELSE seek
    /\ UNCHANGED <<run, left>>

Answer ==
    /\ seek = "landed" \/ (seek = "asked" /\ (run = "over" \/ left))
    /\ seek' = "none"
    /\ left' \in {left, left \/ run = "over"}
    /\ UNCHANGED <<run, next, goal>>

Next ==
    \/ Skip \/ Begin \/ Give \/ End \/ Join \/ Land \/ Answer
    \/ \E frame \in Targets : Ask(frame)

Spec == Init /\ [][Next]_vars
=============================================================================
