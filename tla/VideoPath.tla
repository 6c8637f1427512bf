------------------------------ MODULE VideoPath ------------------------------
(***************************************************************************)
(* mp::VideoPath (video_path.cpp) with a picture on its own clock, the     *)
(* DisplayLoop that turns it on a thread of its own (display.cpp), its     *)
(* VideoGraph (video.cpp) and FreeClock (clock.cpp).                       *)
(*                                                                         *)
(* The caller is whoever holds VideoPath's gate: start, stop, retrack,     *)
(* seek_alone and what tells the presenter something (on_loop); the        *)
(* player's pause and resume are under the mutex its seek holds.  A frame  *)
(* is its number, which is the time it is due; the clock is in frames.     *)
(* A decoder holds Delay frames back.  Of the semaphore's turned one is    *)
(* kept: more would only make who waits look again.  Left out: what a turn *)
(* learns of the refresh, reconcile(), a feed that answers BUSY (this file *)
(* has one consumer).                                                      *)
(***************************************************************************)
EXTENDS Integers, Sequences, FiniteSetsExt, SequencesExt

CONSTANTS
    Length,         \* frames in the file
    Syncs,          \* frames a demuxer can move to
    Targets,        \* frames a user seeks to
    Delay,          \* frames the decoder holds back
    FaultSets,      \* sets of faults, one of which may happen in a behaviour
    MaxCalls        \* bound of the exploration: calls made

(* A decode fails or the display goes away; the file refuses to move; a turn *)
(* outlasts the deadline of a seek, or of a setting; the presenter will not   *)
(* take the next track's picture, or no decoder will.                        *)
FaultKinds == {"fail", "refuse", "seek timeout", "job timeout", "no track"}

ASSUME PathAssumption ==
    /\ Length \in Nat \ {0} /\ Delay \in Nat /\ MaxCalls \in Nat
    /\ Syncs \subseteq 0..Length /\ 0 \in Syncs
    /\ Targets \subseteq 0..Length
    /\ FaultSets \subseteq SUBSET FaultKinds

VARIABLES
    faults, at, error,                          \* the file's position, error_
    inside, drained, hand, finished, preroll,   \* decoder and graph
    paused, time,                               \* the FreeClock
    holders, serial, parkedSerial, turned,      \* the loop's hold
    posts, closed,                              \* the loop's posts
    abandoned, promise,                         \* the jobs' tickets, the last one's future
    resumeOnArrival, ended, cancelled, opened,
    loop, sawHold, seen, job,                   \* the loop's thread and its locals
    caller, wasPaused, held, moved, target,     \* the caller and its locals
    calls, jobs,                                \* history: calls and jobs so far
    asked,                                      \* history: does the user want it paused
    moves,                                      \* history: times the file moved
    shown,                                      \* history: frames shown since
    goal, fresh, late, crossed,                 \* history: of the last seek
    done, told                                  \* history: of the last job

file == <<faults, at, error>>
graph == <<inside, drained, hand, finished, preroll>>
clock == <<paused, time>>
hold == <<holders, serial, parkedSerial, turned>>
post == <<posts, closed, abandoned, promise>>
path == <<resumeOnArrival, ended, cancelled, opened>>
turn == <<sawHold, seen, job>>
seek == <<wasPaused, held, moved, target>>
count == <<calls, jobs, asked, moves, goal, fresh, late,
           crossed>>
outcome == <<done, told>>
vars == <<file, graph, clock, hold, post, path, loop, turn, caller, seek, count,
          shown, outcome>>

None == -1
Jobs == 1..MaxCalls
Frame(n) == [number |-> n, move |-> moves]
Nothing == [number |-> None, move |-> 0]
Running == loop # "none"                \* thread_.joinable()
Arriving == {"arriving", "lowering", "resuming"}    \* read the flag, not done with it

(* A pre-roll is on: the loop's thread is yet to resume the clock. *)
Prerolling == resumeOnArrival \/ loop \in Arriving
Wishes == {"no", "yes", "in a pre-roll"}    \* a pause is asked for, and when

FreshGraph ==
    /\ inside = <<>> /\ drained = FALSE /\ hand = Nothing
    /\ finished = FALSE /\ preroll = None

Init ==
    /\ faults \in FaultSets
    /\ at = 0 /\ error = FALSE /\ FreshGraph
    /\ paused = FALSE /\ time = 0
    /\ holders = 0 /\ serial = 0 /\ parkedSerial = 0 /\ turned = FALSE
    /\ posts = <<>> /\ closed = FALSE
    /\ abandoned = {} /\ promise = "none"
    /\ resumeOnArrival = FALSE /\ ended = FALSE /\ cancelled = FALSE
    /\ opened = TRUE
    /\ loop = "none" /\ sawHold = FALSE /\ seen = 0 /\ job = 0
    /\ caller = "idle" /\ wasPaused = FALSE /\ held = 0 /\ moved = FALSE
    /\ target = 0
    /\ calls = 0 /\ jobs = 0 /\ asked = "no" /\ moves = 0 /\ shown = <<>>
    /\ goal = 0 /\ fresh = FALSE /\ late = FALSE /\ crossed = FALSE
    /\ done = 0 /\ told = "none"

-----------------------------------------------------------------------------
(* The loop's thread: a turn, and what start()'s thread does after it.      *)

(* A step that moves the thread along and changes nothing anybody reads. *)
LoopGoes ==
    UNCHANGED <<file, graph, clock, hold, post, path, turn, caller, seek, count,
                shown, outcome>>

TurnWaits ==
    /\ loop = "wait" /\ ~cancelled
    /\ loop' = "drain"
    /\ LoopGoes

(* The frame clock was cancelled, or the display went away. *)
TurnIsOver ==
    /\ loop = "wait" /\ (cancelled \/ "fail" \in faults)
    /\ loop' = "closing"
    /\ LoopGoes

DrainTakes ==
    /\ loop = "drain" /\ posts # <<>>
    /\ job' = Head(posts) /\ posts' = Tail(posts)
    /\ loop' = "job"
    /\ UNCHANGED <<file, graph, clock, hold, closed, abandoned, promise, path,
                   sawHold, seen, caller, seek, count, shown, outcome>>

(* Under the ticket's lock, which the job keeps while it works. *)
JobBegins ==
    /\ loop = "job"
    /\ loop' = IF job \in abandoned THEN "answer" ELSE "working"
    /\ LoopGoes

JobWorks ==
    /\ loop = "working"
    /\ done' = done + 1
    /\ loop' = "answer"
    /\ UNCHANGED <<file, graph, clock, hold, post, path, turn, caller, seek, count,
                   shown, told>>

JobIsAnswered ==
    /\ loop = "answer"
    /\ promise' = IF job = jobs THEN "ran" ELSE promise
    /\ abandoned' = abandoned \ {job}
    /\ job' = 0 /\ loop' = "drain"
    /\ UNCHANGED <<file, graph, clock, hold, posts, closed, path, sawHold, seen,
                   caller, seek, count, shown, outcome>>

TurnLooksForHold ==
    /\ loop = "drain" /\ posts = <<>>
    /\ sawHold' = (holders # 0)
    /\ loop' = "say"
    /\ UNCHANGED <<file, graph, clock, hold, post, path, seen, job, caller, seek,
                   count, shown, outcome>>

TurnSaysAnyway ==      \* mutant: the serial is stored whether it holds or not
    /\ loop = "say"
    /\ parkedSerial' = serial
    /\ loop' = IF sawHold THEN "held" ELSE "look"
    /\ UNCHANGED <<file, graph, clock, holders, serial, turned, post, path, turn,
                   caller, seek, count, shown, outcome>>

TurnSays ==
    /\ loop = "say"
    /\ parkedSerial' = IF sawHold THEN serial ELSE 0
    /\ loop' = IF sawHold THEN "held" ELSE "look"
    /\ UNCHANGED <<file, graph, clock, holders, serial, turned, post, path, turn,
                   caller, seek, count, shown, outcome>>

TurnHeldUnsaid ==      \* mutant: whoever waits for the turn is not told
    /\ loop = "held"
    /\ loop' = "after"
    /\ LoopGoes

TurnIsHeld ==
    /\ loop = "held"
    /\ turned' = TRUE
    /\ loop' = "after"
    /\ UNCHANGED <<file, graph, clock, holders, serial, parkedSerial, post, path,
                   turn, caller, seek, count, shown, outcome>>

TurnReadsClock ==
    /\ loop = "look"
    /\ seen' = time
    /\ loop' = "pump"
    /\ UNCHANGED <<file, graph, clock, hold, post, path, sawHold, job, caller, seek,
                   count, shown, outcome>>

Pumping == loop = "pump" /\ ~finished /\ ~error

(* fetch(): packets into the decoder until it gives a frame. *)
PumpFeeds ==
    /\ Pumping /\ hand = Nothing
    /\ ~drained /\ Len(inside) <= Delay
    /\ IF at < Length
         THEN inside' = Append(inside, Frame(at)) /\ at' = at + 1 /\ UNCHANGED drained
         ELSE drained' = TRUE /\ UNCHANGED <<inside, at>>
    /\ UNCHANGED <<faults, error, hand, finished, preroll, clock, hold, post, path, loop,
                   turn, caller, seek, count, shown, outcome>>

(* What precedes the target of a seek is let go. *)
PumpTakes ==
    /\ Pumping /\ hand = Nothing
    /\ Len(inside) > Delay \/ (drained /\ inside # <<>>)
    /\ inside' = Tail(inside)
    /\ IF Head(inside).number < preroll
         THEN UNCHANGED <<hand, preroll>>
         ELSE hand' = Head(inside) /\ preroll' = None
    /\ UNCHANGED <<file, drained, finished, clock, hold, post, path, loop, turn,
                   caller, seek, count, shown, outcome>>

PumpFinishes ==
    /\ loop = "pump"
    /\ finished \/ (~error /\ hand = Nothing /\ drained /\ inside = <<>>)
    /\ finished' = TRUE
    /\ loop' = "closing"
    /\ UNCHANGED <<file, inside, drained, hand, preroll, clock, hold, post, path,
                   turn, caller, seek, count, shown, outcome>>

PumpRepeats ==
    /\ Pumping
    /\ hand # Nothing /\ hand.number > seen
    /\ loop' = "after"
    /\ LoopGoes

PumpDrops ==
    /\ Pumping
    /\ hand # Nothing /\ hand.number < seen
    /\ hand' = Nothing
    /\ UNCHANGED <<file, inside, drained, finished, preroll, clock, hold, post, path,
                   loop, turn, caller, seek, count, shown, outcome>>

PumpShows ==
    /\ Pumping
    /\ hand # Nothing /\ hand.number = seen
    /\ shown' = Append(shown, hand)
    /\ hand' = Nothing
    /\ loop' = "after"
    /\ UNCHANGED <<file, inside, drained, finished, preroll, clock, hold, post, path,
                   turn, caller, seek, count, outcome>>

(* A packet, a frame or a present that fails: no seek clears error_.  *)
PumpFails ==
    /\ loop = "pump" /\ ~finished
    /\ error \/ "fail" \in faults
    /\ error' = TRUE
    /\ loop' = "closing"
    /\ UNCHANGED <<faults, at, graph, clock, hold, post, path, turn, caller, seek,
                   count, shown, outcome>>

(* turn() has returned, and its locals are gone.  Then the two loads, the   *)
(* store and the call that follow a turn.                                   *)
AfterLooks ==
    /\ loop = "after"
    /\ loop' = IF resumeOnArrival THEN "arriving" ELSE "wait"
    /\ sawHold' = FALSE /\ seen' = 0
    /\ UNCHANGED <<file, graph, clock, hold, post, path, job, caller, seek, count,
                   shown, outcome>>

AfterArrivesAtOnce ==      \* mutant: the pre-roll is not waited for
    /\ loop = "arriving"
    /\ loop' = "lowering"
    /\ LoopGoes

AfterArrives ==
    /\ loop = "arriving"
    /\ loop' = IF preroll = None THEN "lowering" ELSE "wait"
    /\ LoopGoes

AfterLowers ==
    /\ loop = "lowering"
    /\ resumeOnArrival' = FALSE
    /\ loop' = "resuming"
    /\ UNCHANGED <<file, graph, clock, hold, post, ended, cancelled, opened, turn,
                   caller, seek, count, shown, outcome>>

AfterResumes ==
    /\ loop = "resuming"
    /\ paused' = FALSE
    /\ loop' = "wait"
    /\ UNCHANGED <<file, graph, time, hold, post, path, turn, caller, seek, count,
                   shown, outcome>>

(* close_posts(): what is queued is answered false, and what is posted later *)
(* too.                                                                      *)
ClosePosts ==
    /\ closed' = TRUE /\ posts' = <<>>
    /\ promise' = IF jobs \in ToSet(posts) THEN "closed" ELSE promise
    /\ abandoned' = abandoned \ ToSet(posts)

TurnCloses ==
    /\ loop = "closing"
    /\ ClosePosts
    /\ loop' = "ending"
    /\ UNCHANGED <<file, graph, clock, hold, path, turn, caller, seek, count,
                   shown, outcome>>

LoopEnds ==
    /\ loop = "ending"
    /\ ended' = TRUE
    /\ loop' = "leaving"
    /\ UNCHANGED <<file, graph, clock, hold, post, resumeOnArrival, cancelled, opened,
                   turn, caller, seek, count, shown, outcome>>

LoopLeaves ==
    /\ loop = "leaving"
    /\ turned' = TRUE
    /\ loop' = "done"
    /\ UNCHANGED <<file, graph, clock, holders, serial, parkedSerial, post, path,
                   turn, caller, seek, count, shown, outcome>>

(* The clock runs. *)
Tick ==
    /\ Running /\ ~paused /\ time < Length
    /\ time' = time + 1
    /\ UNCHANGED <<file, graph, paused, hold, post, path, loop, turn, caller, seek,
                   count, shown, outcome>>

LoopStep ==
    \/ TurnWaits \/ TurnIsOver \/ DrainTakes \/ JobBegins \/ JobWorks
    \/ JobIsAnswered \/ TurnLooksForHold \/ TurnSays \/ TurnIsHeld
    \/ TurnReadsClock \/ PumpFeeds \/ PumpTakes \/ PumpFinishes \/ PumpRepeats
    \/ PumpDrops \/ PumpShows \/ PumpFails \/ AfterLooks \/ AfterArrives
    \/ AfterLowers \/ AfterResumes \/ TurnCloses \/ LoopEnds \/ LoopLeaves

-----------------------------------------------------------------------------
(* The caller. *)

Call ==
    /\ caller = "idle" /\ calls < MaxCalls
    /\ calls' = calls + 1

(* start() with nothing to follow: a new clock and a new loop on the graph. *)
Start ==
    /\ caller = "idle" /\ ~Running /\ opened
    /\ ended' = FALSE /\ resumeOnArrival' = FALSE
    /\ paused' = FALSE /\ time' = 0
    /\ holders' = 0 /\ serial' = 0 /\ parkedSerial' = 0 /\ turned' = FALSE
    /\ posts' = <<>> /\ closed' = FALSE
    /\ loop' = "wait"
    /\ asked' = "no" /\ fresh' = FALSE /\ crossed' = FALSE
    /\ UNCHANGED <<file, graph, abandoned, promise, cancelled, opened, turn, caller,
                   seek, calls, jobs, moves, goal, late, shown, outcome>>

(* Player::pause and Player::resume, of a picture on its own clock. *)
Pause ==
    /\ Call /\ Running
    /\ paused' = TRUE
    /\ asked' = IF Prerolling THEN "in a pre-roll" ELSE "yes"
    /\ fresh' = FALSE
    /\ UNCHANGED <<file, graph, time, hold, post, path, loop, turn, caller, seek,
                   jobs, moves, goal, late, crossed, shown, outcome>>

Resume ==
    /\ Call /\ Running
    /\ paused' = FALSE
    /\ asked' = "no" /\ fresh' = FALSE /\ crossed' = FALSE
    /\ UNCHANGED <<file, graph, time, hold, post, path, loop, turn, caller, seek,
                   jobs, moves, goal, late, shown, outcome>>

(* seek_alone().  What the clock was and its pause are one step: between    *)
(* them only a resume could come, of a clock that runs.                     *)
Seek(frame) ==
    /\ Call /\ Running
    /\ target' = frame
    /\ wasPaused' = paused /\ paused' = TRUE
    /\ caller' = "hold"
    /\ fresh' = FALSE
    /\ crossed' = (crossed \/ Prerolling)
    /\ UNCHANGED <<file, graph, time, hold, post, path, loop, turn, held, moved,
                   jobs, asked, moves, goal, late, shown, outcome>>

SeekHolds ==
    /\ caller = "hold"
    /\ holders' = holders + 1
    /\ caller' = "number"
    /\ UNCHANGED <<file, graph, clock, serial, parkedSerial, turned, post, path,
                   loop, turn, seek, count, shown, outcome>>

SeekIsNumbered ==
    /\ caller = "number"
    /\ serial' = serial + 1 /\ held' = serial + 1
    /\ caller' = "await"
    /\ UNCHANGED <<file, graph, clock, holders, parkedSerial, turned, post, path,
                   loop, turn, wasPaused, moved, target, count, shown, outcome>>

SeekAwaits ==
    /\ caller = "await"
    /\ caller' = IF parkedSerial >= held \/ ended THEN "move" ELSE "sleep"
    /\ UNCHANGED <<file, graph, clock, hold, post, path, loop, turn, seek, count,
                   shown, outcome>>

SeekWakes ==
    /\ caller = "sleep" /\ turned
    /\ turned' = FALSE
    /\ caller' = "await"
    /\ UNCHANGED <<file, graph, clock, holders, serial, parkedSerial, post, path,
                   loop, turn, seek, count, shown, outcome>>

SeekTimesOut ==
    /\ caller = "sleep" /\ "seek timeout" \in faults
    /\ late' = TRUE
    /\ caller' = "move"
    /\ UNCHANGED <<file, graph, clock, hold, post, path, loop, turn, seek, calls,
                   jobs, asked, moves, goal, fresh, crossed, shown, outcome>>

(* move(): the demuxer lands where it can, at or before the target. *)
SeekMoves ==
    /\ caller = "move"
    /\ caller' = "rewind"
    /\ \/ /\ at' = Max({n \in Syncs : n <= target})
          /\ moved' = TRUE
          /\ moves' = moves + 1 /\ goal' = target /\ shown' = <<>>
          /\ fresh' = (~late /\ ~crossed)
       \/ /\ "refuse" \in faults /\ moved' = FALSE
          /\ UNCHANGED <<at, moves, goal, shown, fresh>>
    /\ UNCHANGED <<faults, error, graph, clock, hold, post, path, loop, turn,
                   wasPaused, held, target, calls, jobs, asked, late, crossed, outcome>>

SeekRewindsHand ==      \* mutant: the decoder keeps what it holds back
    /\ caller = "rewind"
    /\ drained' = FALSE /\ hand' = Nothing /\ finished' = FALSE
    /\ preroll' = IF moved THEN target ELSE None
    /\ caller' = "reclock"
    /\ UNCHANGED <<file, inside, clock, hold, post, path, loop, turn, seek, count,
                   shown, outcome>>

(* VideoGraph::rewound() *)
SeekRewinds ==
    /\ caller = "rewind"
    /\ inside' = <<>> /\ drained' = FALSE /\ hand' = Nothing /\ finished' = FALSE
    /\ preroll' = IF moved THEN target ELSE None
    /\ caller' = "reclock"
    /\ UNCHANGED <<file, clock, hold, post, path, loop, turn, seek, count, shown,
                   outcome>>

SeekMovesClock ==
    /\ caller = "reclock"
    /\ time' = IF moved THEN target ELSE time
    /\ caller' = "flag"
    /\ UNCHANGED <<file, graph, paused, hold, post, path, loop, turn, seek, count,
                   shown, outcome>>

SeekFlags ==
    /\ caller = "flag"
    /\ resumeOnArrival' = ~wasPaused
    /\ caller' = "release"
    /\ UNCHANGED <<file, graph, clock, hold, post, ended, cancelled, opened, loop,
                   turn, seek, count, shown, outcome>>

SeekReleasesIfMoved ==      \* mutant: a seek that failed returns before release()
    /\ caller = "release"
    /\ holders' = IF moved THEN holders - 1 ELSE holders
    /\ caller' = "idle"
    /\ wasPaused' = FALSE /\ held' = 0 /\ moved' = FALSE /\ target' = 0
    /\ UNCHANGED <<file, graph, clock, serial, parkedSerial, turned, post, path,
                   loop, turn, count, shown, outcome>>

SeekReleases ==
    /\ caller = "release"
    /\ holders' = IF holders = 0 THEN 0 ELSE holders - 1
    /\ caller' = "idle"
    /\ wasPaused' = FALSE /\ held' = 0 /\ moved' = FALSE /\ target' = 0
    /\ UNCHANGED <<file, graph, clock, serial, parkedSerial, turned, post, path,
                   loop, turn, count, shown, outcome>>

SeekStep ==
    \/ SeekHolds \/ SeekIsNumbered \/ SeekAwaits \/ SeekWakes
    \/ SeekTimesOut \/ SeekMoves \/ SeekRewinds \/ SeekMovesClock \/ SeekFlags
    \/ SeekReleases

(* on_loop(), for a setting or a row: posted to the loop, or done here when *)
(* there is no loop.                                                        *)
Tell ==
    /\ Call
    /\ jobs' = jobs + 1 /\ done' = 0 /\ told' = "none"
    /\ IF ~Running
         THEN caller' = "working" /\ UNCHANGED <<posts, promise>>
         ELSE /\ caller' = "asking"
              /\ promise' = IF closed THEN "closed" ELSE "none"
              /\ posts' = IF closed THEN posts ELSE Append(posts, jobs')
    /\ UNCHANGED <<file, graph, clock, hold, closed, abandoned, path, loop, turn,
                   seek, asked, moves, goal, fresh, late, crossed, shown>>

ToldSo(what) ==
    /\ told' = what
    /\ caller' = "idle"

Answered ==
    \/ (promise = "ran" /\ ToldSo("done"))
    \/ (promise = "closed" /\ caller' = "working" /\ UNCHANGED told)

TellIsAnswered ==
    /\ caller = "asking"
    /\ Answered
    /\ UNCHANGED <<file, graph, clock, hold, post, path, loop, turn, seek, count,
                   shown, done>>

TellTimesOut ==
    /\ caller = "asking" /\ "job timeout" \in faults
    /\ caller' = "giving up"
    /\ UNCHANGED <<file, graph, clock, hold, post, path, loop, turn, seek, count,
                   shown, outcome>>

TicketIsFree == ~(loop = "working" /\ job = jobs)

(* Under the ticket's lock: it ran meanwhile, or it never will. *)
TellGivesUp ==
    /\ caller = "giving up" /\ TicketIsFree
    /\ \/ (Answered /\ UNCHANGED abandoned)
       \/ /\ promise = "none"
          /\ abandoned' = abandoned \cup {jobs} /\ ToldSo("nothing was changed")
    /\ UNCHANGED <<file, graph, clock, hold, posts, closed, promise, path, loop,
                   turn, seek, count, shown, done>>

TellWorksHere ==
    /\ caller = "working"
    /\ done' = done + 1
    /\ ToldSo("done")
    /\ UNCHANGED <<file, graph, clock, hold, post, path, loop, turn, seek, count,
                   shown>>

(* stop(), alone or as retrack() begins: the frame clock is cancelled and   *)
(* the loop joined.                                                         *)
Stop(then) ==
    /\ Call /\ Running
    /\ cancelled' = TRUE
    /\ caller' = then
    /\ UNCHANGED <<file, graph, clock, hold, post, resumeOnArrival, ended, opened,
                   loop, turn, seek, jobs, asked, moves, goal, fresh, late, crossed,
                   shown, outcome>>

StopJoins ==
    /\ caller \in {"joining", "retracking"} /\ loop = "done"
    /\ ClosePosts
    /\ loop' = "none"
    /\ caller' = IF caller = "joining" THEN "idle" ELSE "renewing"
    /\ UNCHANGED <<file, graph, clock, hold, path, turn, seek, count, shown,
                   outcome>>

(* The rest of retrack(): the old graph, decoder and frame clock are gone,   *)
(* and there are others for another file, unless one of them was refused.    *)
Retrack ==
    /\ caller = "renewing"
    /\ (opened' = TRUE \/ ("no track" \in faults /\ opened' = FALSE))
    /\ at' = 0 /\ error' = FALSE
    /\ inside' = <<>> /\ drained' = FALSE /\ hand' = Nothing
    /\ finished' = FALSE /\ preroll' = None
    /\ cancelled' = FALSE
    /\ goal' = 0 /\ shown' = <<>> /\ fresh' = FALSE /\ late' = FALSE
    /\ moves' = moves + 1
    /\ caller' = "idle"
    /\ UNCHANGED <<faults, clock, hold, post, resumeOnArrival, ended, loop, turn, seek,
                   calls, jobs, asked, crossed, outcome>>

(* What the player does when its picture will not take a track: another      *)
(* VideoPath, opened from nothing.                                           *)
Open ==
    /\ caller = "idle" /\ ~opened
    /\ opened' = TRUE
    /\ UNCHANGED <<file, graph, clock, hold, post, resumeOnArrival, ended, cancelled,
                   loop, turn, caller, seek, count, shown, outcome>>

CallStep ==
    \/ SeekStep
    \/ TellIsAnswered \/ TellTimesOut \/ TellGivesUp \/ TellWorksHere
    \/ StopJoins \/ Retrack

Calls ==
    \/ Start \/ Pause \/ Resume \/ Tell \/ Open
    \/ \E frame \in Targets : Seek(frame)
    \/ \E then \in {"joining", "retracking"} : Stop(then)

Next == Calls \/ CallStep \/ LoopStep \/ Tick

Spec == Init /\ [][Next]_vars

(* Both threads are run while they can go on, and the frame clock answers.  *)
FairSpec == Spec /\ WF_vars(LoopStep) /\ WF_vars(CallStep)

-----------------------------------------------------------------------------
LoopLabels ==
    {"none", "wait", "drain", "job", "working", "answer", "say", "held", "look",
     "pump", "after", "arriving", "lowering", "resuming", "closing", "ending",
     "leaving", "done"}
SeekLabels ==
    {"hold", "number", "await", "sleep", "move", "rewind", "reclock",
     "flag", "release"}
CallerLabels ==
    SeekLabels \cup {"idle", "asking", "giving up", "working", "joining",
                     "retracking", "renewing"}
Frames == [number : 0..(Length - 1), move : 0..(2 * MaxCalls)]

FileOK ==
    /\ faults \in FaultSets /\ opened \in BOOLEAN /\ at \in 0..Length
    /\ target \in Targets \cup {0} /\ goal \in Targets \cup {0}
    /\ time \in 0..Length /\ seen \in 0..Length

GraphOK ==
    /\ inside \in Seq(Frames) /\ Len(inside) <= Delay + 1
    /\ hand \in Frames \cup {Nothing} /\ preroll \in Targets \cup {None}
    /\ shown \in Seq(Frames)

FlagsOK ==
    /\ error \in BOOLEAN /\ drained \in BOOLEAN /\ finished \in BOOLEAN
    /\ paused \in BOOLEAN /\ closed \in BOOLEAN /\ resumeOnArrival \in BOOLEAN
    /\ ended \in BOOLEAN /\ cancelled \in BOOLEAN /\ sawHold \in BOOLEAN
    /\ wasPaused \in BOOLEAN /\ moved \in BOOLEAN /\ asked \in Wishes
    /\ fresh \in BOOLEAN /\ late \in BOOLEAN /\ crossed \in BOOLEAN
    /\ turned \in BOOLEAN

HoldOK ==
    /\ holders \in 0..1 /\ calls \in 0..MaxCalls /\ moves \in 0..(2 * MaxCalls)
    /\ serial \in 0..MaxCalls /\ parkedSerial \in 0..MaxCalls /\ held \in 0..MaxCalls

PostOK ==
    /\ posts \in Seq(Jobs) /\ abandoned \subseteq Jobs
    /\ job \in 0..MaxCalls /\ jobs \in 0..MaxCalls
    /\ promise \in {"none", "ran", "closed"}
    /\ done \in 0..1 /\ told \in {"none", "done", "nothing was changed"}

TypeOK ==
    /\ FileOK /\ GraphOK /\ FlagsOK /\ HoldOK /\ PostOK
    /\ loop \in LoopLabels /\ caller \in CallerLabels

(* display.hpp:115-139: while a seek moves the file, rewinds the graph and   *)
(* moves the clock, the loop decides about nothing and is not about to; as   *)
(* long as its turn does not outlast the seek's deadline.                    *)
NoMoveUnderAPump ==
    caller \in {"move", "rewind", "reclock", "flag"} /\ ~late =>
        /\ loop \notin {"look", "pump"}
        /\ loop = "say" => sawHold

(* video.hpp:200-228: what is shown after a move is of the place the file    *)
(* was moved to, at or past the target, each frame after the one before.     *)
ShowsWhereItIs ==
    ~late =>
        /\ \A i \in DOMAIN shown :
             shown[i].move = moves /\ shown[i].number >= goal
        /\ \A i, k \in DOMAIN shown : i < k => shown[i].number < shown[k].number

(* video_path.hpp:201-209: the clock is held until the pre-roll is over, so  *)
(* after a seek no frame is dropped before one was shown.  Said of a fresh   *)
(* seek: nobody paused or resumed since, no deadline let it through, and it  *)
(* was not crossed, that is no earlier seek's pre-roll was still on.         *)
Drop == loop = "pump" /\ hand # Nothing /\ hand' = Nothing /\ shown' = shown
TargetIsShown == [][Drop /\ fresh => shown # <<>>]_vars

(* video_path.cpp:563-590, display.hpp:158-167: work runs on the loop's      *)
(* thread only while the caller whose it is waits for it, nobody else is in  *)
(* the presenter when it runs on the caller's, and who is told that it was   *)
(* done is told so of work done once.                                        *)
WorkIsTheCallers ==
    /\ loop = "working" => job = jobs /\ caller \in {"asking", "giving up"}
    /\ caller = "working" => loop \notin {"working", "look", "pump"}
    /\ told = "done" => done = 1

(* display.hpp:115-167: a seek and a setting have the loop to themselves,    *)
(* and what is shown tells of it.                                            *)
LoopIsTheirs == NoMoveUnderAPump /\ WorkIsTheCallers

(* display.hpp:145-151, 173-177: whatever the loop does meanwhile, a seek, a *)
(* setting and a stop return, their deadlines aside.                         *)
CallsReturn == []<>(caller = "idle")

(* video_path.hpp:206-208: a clock nobody asked to pause is paused by a seek *)
(* until the first frame is in hand, and then runs again, or the loop ends.  *)
(* A crossed seek is left out: it takes the first one's pause for somebody's *)
(* and leaves the clock paused for ever.                                     *)
ClockComesBack ==
    (paused /\ asked = "no" /\ ~crossed) ~>
        (~paused \/ asked # "no" \/ crossed \/ ended)

(* video_path.hpp:208-209: a clock somebody paused stays paused until they   *)
(* resume it or the loop is started anew, through seeks, crossed or late     *)
(* ones, that find it paused.  A pause that came in a pre-roll is left out:  *)
(* the end of the pre-roll resumes the clock under the seek that found it.   *)
PauseStays == [][paused /\ asked = "yes" => paused' \/ asked' = "no"]_vars

(* video_path.hpp:201-209: a pre-roll begins with the clock held and ends     *)
(* with it running, and a pause asked for outside one is not its to end.     *)
PrerollHoldsTheClock == TargetIsShown /\ ClockComesBack /\ PauseStays
=============================================================================
