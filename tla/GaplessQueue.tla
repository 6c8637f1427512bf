---------------------------- MODULE GaplessQueue ----------------------------
(***************************************************************************)
(* mp::Queue (queue.hpp, queue.cpp) over Player::Playlist, as a graph and  *)
(* a player use it.  The queue is a source whose read goes on into the     *)
(* next entry at the end of a track.  The decode thread reads it a ring    *)
(* ahead of the device and performs the seeks; the shell's thread asks for *)
(* seeks, "next" and "previous" at the frame the device is at, one at a    *)
(* time; the device plays what was read.                                   *)
(*                                                                         *)
(* Entries are numbered from 1.  The playlist keeps every entry it opened, *)
(* so an entry stands where it was left (at): Player::Playlist::at_media   *)
(* hands the same source out again.  The ring is the frames between heard  *)
(* and position.                                                           *)
(***************************************************************************)
EXTENDS Integers, Sequences, FiniteSetsExt

CONSTANTS
    Playlists,  \* the playlists explored: sequences of Entry
    Ahead,      \* frames the decoder may be ahead of the device
    Grace,      \* frames into a track "previous" still means the one before
    Targets,    \* frames of the run a shell may seek to
    MayGiveUp,  \* whether a call's five seconds may run out
    MaxCalls    \* bound of the exploration: calls the shell makes

AudioFormats == {"44k", "96k"}
Seeking == {"always", "sometimes", "never"}
Entry == [format : AudioFormats \cup {"silent", "closed"}, frames : Nat \ {0},
          seeks : Seeking]

ASSUME QueueAssumption ==
    /\ Playlists \subseteq Seq(Entry)
    /\ Ahead \in Nat \ {0}
    /\ Grace \in Nat
    /\ Targets \subseteq Nat
    /\ MayGiveUp \in BOOLEAN
    /\ MaxCalls \in Nat

VARIABLES
    playlist,   \* the entries, fixed for the run
    phase,      \* of the queue: "new", "open" or "refused"
    running,    \* the graph plays it
    at,         \* where the source of each entry stands, in its own frames
    index,      \* index_, and current_ is that entry's source
    position,   \* position_: frames of the run handed out
    marks,      \* marks_: from (run_base), index, base (item_base)
    skip, nextWanted, done, stopped,
    request,    \* the frame the graph is asked to seek to
    shell,      \* "idle", or the call it is in: "seek" or "next", or what is
                \* left of a "next" that did not move: "cancels", "skips"
    goal,       \* the frame that call has not asked the graph for yet
    calls,
    heard,      \* the device's place in the run
    pressed,    \* history: the frame the device was at when "next" was pressed
    tape,       \* history: what was handed out at each frame of the run
    cuts,       \* history: marks a "next" or a skip put inside a track
    undone,     \* history: a seek went back before such a mark
    reread,     \* history: an entry was gone into where it had been left
    lost        \* history: a seek failed, and with it the frames in the ring

queue == <<index, position, marks, skip, nextWanted, done, stopped>>
history == <<tape, cuts, undone, reread, lost>>
call == <<shell, goal, calls, pressed>>
vars == <<playlist, phase, running, at, queue, request, call, heard, history>>

None == -1
Nothing == [item |-> None, frame |-> None]

Count == Len(playlist)
HasAudio(i) == i <= Count /\ playlist[i].format \in AudioFormats

(* first_from(): the first entry at or after i that is not refused; one past*)
(* the end when all are.                                                    *)
FirstFrom(i) ==
    Min({j \in i..(Count + 1) : j = Count + 1 \/ playlist[j].format # "closed"})

Joins(j) == HasAudio(j) /\ playlist[j].format = playlist[index].format

WhyUnseen(j) ==      \* mutant: a picture is not told from the end
    IF HasAudio(j) THEN "format_change" ELSE "end"

Why(j) == IF HasAudio(j) THEN "format_change"
          ELSE IF j <= Count /\ playlist[j].format = "silent" THEN "silent"
          ELSE "end"

MarkFor(frame) ==
    Max({m \in 1..Len(marks) : m = 1 \/ marks[m].from <= frame})

IndexAt(frame) == marks[MarkFor(frame)].index

MarkedKeeping(frame, i) ==      \* mutant: marks of an undone pass are kept
    Append(marks, [from |-> frame, index |-> i, base |-> 0])

(* What was recorded at or after this frame was recorded on a pass since    *)
(* undone, and is taken off the back.                                       *)
Before(frame) ==
    SubSeq(marks, 1, Max({0} \cup {m \in 1..Len(marks) : marks[m].from < frame}))

(* The boundary at this frame, into entry i.                                *)
Marked(frame, i) == Append(Before(frame), [from |-> frame, index |-> i, base |-> 0])

Init ==
    /\ playlist \in Playlists
    /\ phase = "new" /\ running = FALSE
    /\ at = [i \in 1..Count |-> 0]
    /\ index \in 1..Count
    /\ position = 0 /\ marks = <<>>
    /\ skip = FALSE /\ nextWanted = FALSE /\ done = FALSE /\ stopped = "end"
    /\ request = None /\ shell = "idle" /\ goal = None /\ calls = 0
    /\ heard = 0 /\ pressed = None
    /\ tape = <<>> /\ cuts = {} /\ undone = FALSE /\ reread = FALSE
    /\ lost = FALSE

IndexRefusedWalked(j) == j      \* mutant: the walk is not taken back

(* open() refused: index_ is what the walk stopped at, or where it began.   *)
IndexRefused(j) == IF j <= Count THEN j ELSE index

(* open(), and the graph over the queue started.                            *)
Open ==
    /\ phase = "new"
    /\ LET j == FirstFrom(index)
       IN  IF HasAudio(j)
             THEN /\ phase' = "open" /\ running' = TRUE
                  /\ index' = j
                  /\ marks' = <<[from |-> 0, index |-> j, base |-> 0]>>
                  /\ UNCHANGED stopped
             ELSE /\ phase' = "refused"
                  /\ index' = IndexRefused(j)
                  /\ stopped' = Why(j)
                  /\ UNCHANGED <<running, marks>>
    /\ UNCHANGED <<playlist, at, position, skip, nextWanted, done, request, call,
                   heard, history>>

-----------------------------------------------------------------------------
(* The decode thread, in read(). *)

ReadFrame ==
    /\ running /\ ~done /\ ~skip
    /\ position - heard < Ahead
    /\ at[index] < playlist[index].frames
    /\ at' = [at EXCEPT ![index] = @ + 1]
    /\ position' = position + 1
    /\ tape' = Append(tape, [item |-> index, frame |-> at[index]])
    /\ UNCHANGED <<playlist, phase, running, index, marks, skip, nextWanted,
                   done, stopped, request, call, heard, cuts, undone,
                   reread, lost>>

(* advance(): what follows is joined as it stands, or the queue is done.    *)

AdvanceUnended ==      \* mutant: the end of the queue is not remembered
    LET j == FirstFrom(index + 1)
    IN  IF Joins(j)
          THEN /\ index' = j
               /\ marks' = Marked(position, j)
               /\ reread' = (reread \/ at[j] # 0)
               /\ UNCHANGED <<done, stopped>>
          ELSE /\ stopped' = Why(j)
               /\ UNCHANGED <<index, marks, done, reread>>

Advance ==
    LET j == FirstFrom(index + 1)
    IN  IF Joins(j)
          THEN /\ index' = j
               /\ marks' = Marked(position, j)
               /\ reread' = (reread \/ at[j] # 0)
               /\ UNCHANGED <<done, stopped>>
          ELSE /\ done' = TRUE
               /\ stopped' = Why(j)
               /\ UNCHANGED <<index, marks, reread>>

ReadSkips ==
    /\ running /\ ~done /\ skip
    /\ position - heard < Ahead
    /\ skip' = FALSE
    /\ Advance
    /\ cuts' = {c \in cuts : c < position} \cup {position}
    /\ UNCHANGED <<playlist, phase, running, at, position, nextWanted, request,
                   call, heard, tape, undone, lost>>

ReadCrosses ==
    /\ running /\ ~done /\ ~skip
    /\ position - heard < Ahead
    /\ at[index] = playlist[index].frames
    /\ Advance
    /\ cuts' = {c \in cuts : c <= position}
    /\ UNCHANGED <<playlist, phase, running, at, position, skip, nextWanted,
                   request, call, heard, tape, undone, lost>>

-----------------------------------------------------------------------------
(* The decode thread, in seek(): the graph has emptied the ring, and plays   *)
(* from frame once the queue says it moved.                                 *)

Rewritten(frame) == [r \in 1..frame |-> IF r <= Len(tape) THEN tape[r] ELSE Nothing]

Lands(frame, place, i) ==
    /\ position' = frame
    /\ heard' = frame
    /\ tape' = Rewritten(frame)
    /\ at' = [at EXCEPT ![i] = place]
    /\ index' = i
    /\ done' = FALSE /\ skip' = FALSE /\ stopped' = "end"
    /\ UNCHANGED <<reread, lost>>

(* Whether a source moves to a frame of its own: not past its end, and not  *)
(* if it cannot seek; one that can may refuse all the same, and is then     *)
(* somewhere unknown.  A refusal leaves the queue as it was, though not the *)
(* ring, which the graph had emptied by then.                               *)
MayMove(i, place) ==
    playlist[i].seeks # "never" /\ place <= playlist[i].frames
MayRefuse(i, place) ==
    playlist[i].seeks # "always" \/ place > playlist[i].frames

Refuses(i, place) ==
    /\ MayRefuse(i, place)
    /\ \E p \in 0..playlist[i].frames :
           /\ playlist[i].seeks = "never" => p = at[i]
           /\ at' = [at EXCEPT ![i] = p]
    /\ lost' = TRUE
    /\ UNCHANGED <<index, position, marks, skip, done, stopped, heard, tape,
                   cuts, reread>>

(* jump(): the track after, from its start, if it moves there; or, with     *)
(* none, the end, here.                                                     *)
Jump(i, frame) ==
    LET j == FirstFrom(i)
    IN  \/ /\ Joins(j) /\ MayMove(j, 0)
           /\ Lands(frame, 0, j)
           /\ marks' = Marked(frame, j)
           /\ cuts' = {c \in cuts : c < frame} \cup {frame}
        \/ Joins(j) /\ Refuses(j, 0)
        \/ /\ ~Joins(j)
           /\ done' = TRUE /\ stopped' = Why(j)
           /\ position' = frame /\ heard' = frame
           /\ tape' = Rewritten(frame)
           /\ UNCHANGED <<index, at, marks, skip, cuts, reread, lost>>

Move(mark, frame) ==
    LET place == mark.base + (frame - mark.from)
    IN  \/ /\ MayMove(mark.index, place)
           /\ Lands(frame, place, mark.index)
           /\ UNCHANGED <<marks, cuts>>
        \/ Refuses(mark.index, place)

SeekNextOfDecoder ==      \* mutant: the track after the one being decoded
    /\ running /\ request # None
    /\ LET mark == marks[MarkFor(request)]
       IN  IF nextWanted THEN Jump(index + 1, request) ELSE Move(mark, request)
    /\ nextWanted' = FALSE
    /\ request' = None
    /\ undone' = (undone \/ \E c \in cuts : c > request)
    /\ UNCHANGED <<playlist, phase, running, call>>

Seek ==
    /\ running /\ request # None
    /\ LET mark == marks[MarkFor(request)]
       IN  IF nextWanted THEN Jump(mark.index + 1, request)
                         ELSE Move(mark, request)
    /\ nextWanted' = FALSE
    /\ request' = None
    /\ undone' = (undone \/ \E c \in cuts : c > request)
    /\ UNCHANGED <<playlist, phase, running, call>>

Decode == ReadFrame \/ ReadSkips \/ ReadCrosses \/ Seek

-----------------------------------------------------------------------------
(* The device, and the graph that ends when it has played everything. *)

Play ==
    /\ running /\ heard < position
    /\ heard' = heard + 1
    /\ UNCHANGED <<playlist, phase, running, at, queue, request, call,
                   history>>

RunEnds ==
    /\ running /\ done /\ heard = position
    /\ running' = FALSE
    /\ UNCHANGED <<playlist, phase, at, queue, request, call, heard,
                   history>>

Device == Play \/ RunEnds

-----------------------------------------------------------------------------
(* The shell's thread, in Player. *)

(* Whether the queue can seek, which it says of the track it is decoding.   *)
Seekable == playlist[index].seeks # "never"

Call(what) ==
    /\ running /\ shell = "idle" /\ calls < MaxCalls
    /\ shell' = what
    /\ calls' = calls + 1

AskSeek(frame) ==
    /\ Call("seek")
    /\ Seekable
    /\ request' = frame
    /\ UNCHANGED <<playlist, phase, running, at, queue, goal, pressed, heard,
                   history>>

(* "Next": the device's position, and request_next(); the seek is to come.  *)
AskNext ==
    /\ Call("next")
    /\ nextWanted' = TRUE
    /\ goal' = heard /\ pressed' = heard
    /\ UNCHANGED <<playlist, phase, running, at, index, position, marks, skip,
                   done, stopped, request, heard, history>>

AskPrevious ==
    /\ Call("seek")
    /\ LET m     == MarkFor(heard)
           start == marks[m].from
       IN  goal' = IF heard > start + Grace \/ m = 1
                   THEN start ELSE marks[m - 1].from
    /\ UNCHANGED <<playlist, phase, running, at, queue, request, pressed,
                   heard, history>>

(* The graph's seek() takes the frame while the run is on and can seek.     *)
Asks ==
    /\ goal # None /\ shell \in {"seek", "next"}
    /\ running /\ Seekable
    /\ request' = goal
    /\ goal' = None
    /\ UNCHANGED <<playlist, phase, running, at, queue, shell, calls, pressed,
                   heard, history>>

Answered ==
    /\ shell \in {"seek", "next"} /\ goal = None
    /\ request = None \/ ~running
    /\ shell' = "idle" /\ pressed' = None
    /\ UNCHANGED <<playlist, phase, running, at, queue, request, goal, calls,
                   heard, history>>

(* seek() said no: it was not asked, or its five seconds are over, and then *)
(* the request is still the graph's.                                        *)
Refused ==
    /\ shell \in {"seek", "next"}
    /\ \/ goal # None /\ ~(running /\ Seekable)
       \/ MayGiveUp /\ running /\ goal = None /\ request # None
    /\ IF shell = "next" THEN shell' = "cancels" /\ UNCHANGED goal
                         ELSE shell' = "idle" /\ goal' = None
    /\ UNCHANGED <<playlist, phase, running, at, queue, request, calls,
                   pressed, heard, history>>

(* What next() does when nothing moved: the request is taken back, and the  *)
(* decoder told to leave its track; the decode thread may act in between.   *)
CancelsNext ==
    /\ shell = "cancels"
    /\ nextWanted' = FALSE
    /\ goal' = None
    /\ shell' = "skips"
    /\ UNCHANGED <<playlist, phase, running, at, index, position, marks, skip,
                   done, stopped, request, calls, pressed, heard, history>>

Skips ==
    /\ shell = "skips"
    /\ skip' = TRUE
    /\ shell' = "idle" /\ pressed' = None
    /\ UNCHANGED <<playlist, phase, running, at, index, position, marks,
                   nextWanted, done, stopped, request, goal, calls, heard,
                   history>>

Shell ==
    \/ \E frame \in Targets : AskSeek(frame)
    \/ AskNext \/ AskPrevious
    \/ Asks \/ Answered \/ Refused \/ CancelsNext \/ Skips

Next == Open \/ Decode \/ Device \/ Shell

Spec == Init /\ [][Next]_vars

(* The decode thread and the device run on; the shell need not call.        *)
FairSpec == Spec /\ WF_vars(Open) /\ WF_vars(Decode) /\ WF_vars(Device)

-----------------------------------------------------------------------------
TypeOK ==
    /\ playlist \in Playlists
    /\ phase \in {"new", "open", "refused"}
    /\ \A b \in {running, skip, nextWanted, done, undone, reread, lost} :
           b \in BOOLEAN
    /\ DOMAIN at = 1..Count
    /\ \A i \in 1..Count : at[i] \in 0..playlist[i].frames
    /\ index \in 1..Count
    /\ position \in Nat /\ heard \in 0..position
    /\ marks \in Seq([from : Nat, index : 1..Count, base : {0}])
    /\ phase = "open" => marks # <<>> /\ HasAudio(index)
    /\ stopped \in {"end", "format_change", "silent"}
    /\ request \in Nat \cup {None} /\ goal \in Nat \cup {None}
    /\ pressed \in Nat \cup {None}
    /\ shell \in {"idle", "seek", "next", "cancels", "skips"}
    /\ calls \in 0..MaxCalls
    /\ Len(tape) = position
    /\ cuts \subseteq Nat

(* No seek has failed, none has gone back before a mark that cut a track    *)
(* short, and no boundary was crossed into the middle of a track.           *)
AsLaid == ~undone /\ ~lost /\ ~reread

(* queue.cpp:207-214: mark_for scans back for the last mark not after a     *)
(* frame, which is the track of that frame only while the marks ascend,     *)
(* whatever order seeks, skips and boundaries came in.                      *)
MarksAscend ==
    \A m \in 1..(Len(marks) - 1) :
        /\ marks[m].from < marks[m + 1].from
        /\ AsLaid => marks[m].index < marks[m + 1].index

Handed(f) == tape[f + 1]
HandedOut == {f \in 0..(position - 1) : Handed(f) # Nothing}

(* queue.hpp:111-136: of any frame the queue has handed out it says which   *)
(* track it is of, however far ahead of the device the decoder is.          *)
MarksNameTheTrack ==
    AsLaid =>
        \A f \in HandedOut : IndexAt(f) = Handed(f).item

(* queue.hpp:182-188: a mark says where in its own file the track began, so *)
(* that a frame of the run is turned into a frame of the file by it.        *)
MarksPlaceTheFrame ==
    AsLaid =>
        \A f \in HandedOut :
            LET mark == marks[MarkFor(f)]
            IN  Handed(f).frame = mark.base + (f - mark.from)

(* queue.cpp:190-192: what follows the last frame of a track on the run is  *)
(* the first frame of the next one that opens; within a track, the next     *)
(* frame.  Only a "next" or a skip leaves a track before its end.           *)
Follows(a, b) ==
    \/ b.item = a.item /\ b.frame = a.frame + 1
    \/ /\ a.frame = playlist[a.item].frames - 1
       /\ b = [item |-> FirstFrom(a.item + 1), frame |-> 0]
Joined ==
    \A f \in HandedOut \ {0} :
        f - 1 \in HandedOut /\ f \notin cuts =>
            Follows(Handed(f - 1), Handed(f))
TracksJoin == AsLaid => Joined

(* queue.hpp:111-136, 182-188: what a shell reads off the marks is what was  *)
(* handed out.                                                              *)
MarksAreRight == MarksAscend /\ MarksNameTheTrack /\ MarksPlaceTheFrame

(* queue.hpp:37-54, player.cpp:1928-1953: the host goes on by the word of   *)
(* `stopped`, which is what stands behind the track the run stopped in.     *)
StopSaysWhy ==
    done /\ AsLaid =>
        LET behind == FirstFrom(IndexAt(position) + 1)
        IN  CASE stopped = "end"    -> behind = Count + 1
              [] stopped = "silent" -> playlist[behind].format = "silent"
              [] OTHER              -> HasAudio(behind) /\ ~Joins(behind)

(* queue.cpp:190-198: tracks join, and where they do not the run says why.  *)
JoinsOrSaysWhy == TracksJoin /\ StopSaysWhy

(* What a "next" asks for: the start of the track after the one that frame  *)
(* of the run is of, if that track moves there, or the end of the queue.    *)
TrackOf(f) == IF f \in HandedOut THEN Handed(f).item ELSE IndexAt(f)
GoesPast(f) ==
    LET j == FirstFrom(TrackOf(f) + 1)
    IN  IF ~Joins(j) THEN done'
        ELSE \/ index' = j /\ at'[j] = 0
             \/ MayRefuse(j, 0) /\ UNCHANGED <<index, position, marks>>

TakesTheNext == nextWanted /\ request # None /\ request' = None

(* The seek performed is the one the "next" asked for: it was asked by then.*)
ItsOwnSeek == goal = None

(* queue.hpp:138-157: a "next" whose own seek is performed, also one nobody *)
(* waits for any more, is the start of the track after the one the device   *)
(* was in when it was pressed, however far ahead of it the decoder had read *)
(* and whatever the device played meanwhile.  A "next" that an older seek,  *)
(* performed late, takes for its own is left out, by ItsOwnSeek: it lands   *)
(* on the track after that seek's frame.                                    *)
NextIsTheTrackAfter ==
    [][TakesTheNext /\ ItsOwnSeek /\ AsLaid => GoesPast(pressed)]_vars

(* passthrough.cpp:306-309 over queue.cpp:194-197: however it is moved, the *)
(* run comes to the end of the queue.                                       *)
RunEndsAtLast == phase = "open" ~> ~running
=============================================================================
