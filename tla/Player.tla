------------------------------- MODULE Player -------------------------------
(***************************************************************************)
(* mp::Player (player.cpp): the engine thread, which takes one request at  *)
(* a time and walks its playlist through runs, and the shells' commands,   *)
(* each called from a reader thread of its own (ipc_server.cpp).           *)
(*                                                                         *)
(* Every section under mutex_ is one step.  The graph of a run and its     *)
(* queue are what PassthroughGraph and GaplessQueue are about; here they   *)
(* are the entry the decoder is on (dec), the one the device plays         *)
(* (heard), why the queue stopped, and whether the graph still runs.  A    *)
(* picture of its own is the entry at first.  A configuration is what the  *)
(* device is asked for and what the chain is built of.  A seek lands on a  *)
(* track between the run's first and the decoder's.  Left out: status and  *)
(* graph, which read, the presenter's and the picture's settings, and what *)
(* a calibration measures.                                                 *)
(***************************************************************************)
EXTENDS Integers, FiniteSetsExt, SequencesExt

CONSTANTS
    Shells,         \* reader threads that call the player
    Files,          \* what a playlist names
    Kind,           \* what host.open_media makes of each
    Lists,          \* playlists a shell asks for
    AskSets,        \* sets of commands, one of which is given in a behaviour
    MaxEvents,      \* bound of the exploration: commands, and devices that fail
    None            \* no request

Formats == {"44k", "96k"}                   \* kinds with audio
Kinds == Formats \cup {"silent", "closed"}
Transports == {"pause", "resume", "seek", "next", "previous"}
Commands == Transports \cup {"play", "play_at", "move", "enqueue", "clear",
                             "stop", "calibrate", "set", "set_node", "shutdown"}

(* Settings a device takes and one it does not; a chain that builds as it is *)
(* made, with one key more, and with one its stage refuses.                  *)
Wires == {"plain", "other", "odd"}
Chains == {"plain", "set", "bad"}
Configs == [wire : Wires, chain : Chains]

ASSUME PlayerAssumption ==
    /\ Kind \in [Files -> Kinds]
    /\ Lists \subseteq Seq(Files) /\ AskSets \subseteq SUBSET Commands
    /\ MaxEvents \in Nat

VARIABLES
    files, request, sweeps,     \* files_, requests_, sweeps_
    state, public,              \* state_; queue_, graph_a_ or _b_, alone_, ...
    stop, rebuild, step, quit,  \* the flags
    config, applied,            \* config_, applied_
    pc, list, first,            \* the engine thread, its Playlist, play_request's first
    running, built,             \* the config copied and the chain built of it
    refitting, end,             \* rebuilding, the run's end
    refused,                    \* files the Playlist could not open
    q,                          \* the run's queue and graph
    showing, shown,             \* pump's showing; the entry the picture is of
    cmd, asleep,                \* the shells; who sleeps on seekable_
    copied,                     \* play_at's copy; history: what set_node wrote over
    asks,                       \* the commands given in this behaviour
    asked, last, wanted,        \* history: commands and faults, the last ask
                                \* for a run or an end, one since the request
    erased, measured            \* history: a refusal took a key that was there;
                                \* a calibration ended and told nobody

asking == <<files, request, sweeps>>
flags == <<stop, rebuild, step, quit>>
settings == <<config, applied>>
run == <<running, built, refitting, end>>
picture == <<showing, shown>>
shells == <<cmd, copied, asleep>>
history == <<asks, asked, last, wanted, erased, measured>>
vars == <<asking, state, public, flags, settings, pc, list, first, run,
          refused, q, picture, shells, history>>

Nobody == [queue |-> FALSE, list |-> FALSE, graph |-> FALSE,
           alone |-> FALSE, opening |-> FALSE]
NoRun == [dec |-> 0, heard |-> 0, why |-> "end", up |-> FALSE, error |-> "none"]
NoCopy == [files |-> <<>>, first |-> 0, over |-> "plain"]
Plain == [wire |-> "plain", chain |-> "plain"]

Init ==
    /\ files = <<>> /\ request = None /\ sweeps = 0
    /\ state = "stopped" /\ public = Nobody
    /\ stop = FALSE /\ rebuild = FALSE /\ step = 0 /\ quit = FALSE
    /\ config = Plain /\ applied = Plain
    /\ pc = "idle" /\ list = <<>> /\ first = 1
    /\ running = Plain /\ built = "plain" /\ refitting = FALSE /\ end = "none"
    /\ refused = {} /\ q = NoRun /\ showing = 0 /\ shown = 0
    /\ cmd = [s \in Shells |-> "idle"] /\ copied = [s \in Shells |-> NoCopy] /\ asleep = {}
    /\ asks \in AskSets /\ asked = 0 /\ last = "none" /\ wanted = FALSE
    /\ erased = FALSE /\ measured = FALSE

-----------------------------------------------------------------------------
(* The playlist and the queue over it. *)

KindAt(i) == IF i > Len(list) THEN "end" ELSE Kind[list[i]]

(* The entries from i on that first_from walks past, and where it comes to. *)
Walked(i) == {j \in i..Len(list) : \A k \in i..j : KindAt(k) = "closed"}
Following(i) == i + Cardinality(Walked(i))

(* The queue goes on from entry i: it joins a track of one format, and *)
(* stops before anything else.                                         *)
Advanced(i) ==
    LET j == Following(i + 1) IN
    IF KindAt(j) = KindAt(i)
    THEN [q EXCEPT !.dec = j, !.why = "none"]
    ELSE [q EXCEPT !.dec = i,
                   !.why = CASE KindAt(j) = "silent" -> "silent"
                             [] KindAt(j) = "end" -> "end"
                             [] OTHER -> "format"]

Refusing(i) == refused' = refused \cup {list[j] : j \in Walked(i)}

(* Playlist::previous_from. *)
PreviousFrom(i) ==
    LET before == {j \in 1..(i - 1) : list[j] \notin refused}
    IN  IF before = {} THEN i ELSE Max(before)

Moved(s, i, j) == InsertAt(RemoveAt(s, i), j, s[i])

TellEveryone == asleep' = {} /\ measured' = FALSE

-----------------------------------------------------------------------------
(* What a shell asks for. *)

(* Shell s gives one more command. *)
Gives(s, what) ==
    /\ what \in asks
    /\ cmd[s] = "idle" /\ ~quit /\ asked < MaxEvents
    /\ asked' = asked + 1

(* A device that does not answer, a source that will not move. *)
Fault == asked < MaxEvents /\ asked' = asked + 1

(* It asks for a run, or for the end of one. *)
Says(what) == last' = what /\ wanted' = TRUE /\ UNCHANGED <<asks, erased, measured>>
SaysNothing == UNCHANGED <<asks, last, wanted, erased, measured>>

Requests(l, i) ==
    /\ files' = l
    /\ request' = [files |-> l, first |-> i]
    /\ stop' = TRUE

Play(s) ==
    /\ Gives(s, "play") /\ Says("play")
    /\ \E l \in Lists : Requests(l, 1)
    /\ UNCHANGED <<sweeps, state, public, rebuild, step, quit, settings, pc, list,
                   first, run, refused, q, picture, shells>>

(* play_at takes the playlist under one lock and asks for it under another. *)
PlayAtReads(s) ==
    /\ Gives(s, "play_at") /\ SaysNothing
    /\ \E i \in DOMAIN files : copied' = [copied EXCEPT ![s].files = files, ![s].first = i]
    /\ cmd' = [cmd EXCEPT ![s] = "play_at"]
    /\ UNCHANGED <<asking, state, public, flags, settings, pc, list, first, run,
                   refused, q, picture, asleep>>
PlayAtAsks(s) ==
    /\ cmd[s] = "play_at" /\ Says("play")
    /\ Requests(copied[s].files, copied[s].first)
    /\ cmd' = [cmd EXCEPT ![s] = "idle"] /\ copied' = [copied EXCEPT ![s] = NoCopy]
    /\ UNCHANGED <<sweeps, state, public, rebuild, step, quit, settings, pc, list,
                   first, run, refused, q, picture, asleep, asked>>

(* move_entry; the entry a run has read up to is its queue's or its own. *)
MoveEntry(s) ==
    LET read == IF public.queue THEN q.dec ELSE IF public.alone THEN first ELSE 0 IN
    /\ Gives(s, "move") /\ SaysNothing
    /\ \E i, j \in DOMAIN files :
         /\ i # j /\ i > read /\ j > read
         /\ files' = Moved(files, i, j)
         /\ list' = IF public.list /\ pc # "idle" /\ {i, j} \subseteq DOMAIN list
                    THEN Moved(list, i, j) ELSE list
    /\ UNCHANGED <<request, sweeps, state, public, flags, settings, pc, first, run,
                   refused, q, picture, shells>>

Enqueue(s) ==
    /\ Gives(s, "enqueue") /\ SaysNothing
    /\ \E f \in Files : files' = Append(files, f)
    /\ UNCHANGED <<request, sweeps, state, public, flags, settings, pc, list, first,
                   run, refused, q, picture, shells>>

Clear(s) ==
    /\ Gives(s, "clear") /\ Says("stop")
    /\ files' = <<>> /\ request' = None /\ stop' = TRUE
    /\ UNCHANGED <<sweeps, state, public, rebuild, step, quit, settings, pc, list,
                   first, run, refused, q, picture, shells>>

Stop(s) ==
    /\ Gives(s, "stop") /\ Says("stop")
    /\ request' = None /\ stop' = TRUE
    /\ UNCHANGED <<files, sweeps, state, public, rebuild, step, quit, settings, pc,
                   list, first, run, refused, q, picture, shells>>

Calibrate(s) ==
    /\ Gives(s, "calibrate") /\ Says("sweep")
    /\ sweeps' = sweeps + 1 /\ stop' = TRUE
    /\ UNCHANGED <<files, request, state, public, rebuild, step, quit, settings, pc,
                   list, first, run, refused, q, picture, shells>>

Shutdown(s) ==
    /\ Gives(s, "shutdown") /\ Says("shutdown")
    /\ quit' = TRUE /\ stop' = TRUE
    /\ UNCHANGED <<asking, state, public, rebuild, step, settings, pc, list, first,
                   run, refused, q, picture, shells>>

-----------------------------------------------------------------------------
(* Settings: written under the lock, the flag raised after it. *)

SetWrites(s) ==
    /\ Gives(s, "set") /\ SaysNothing
    /\ \/ \E v \in Wires \ {"plain"} : config' = [config EXCEPT !.wire = v]
       \/ \E v \in Chains \ {"plain"} : config' = [config EXCEPT !.chain = v]
    /\ cmd' = [cmd EXCEPT ![s] = "raise"]
    /\ UNCHANGED <<asking, state, public, flags, applied, pc, list, first, run,
                   refused, q, picture, copied, asleep>>

(* set_node writes a stage's key, builds the chain to see, and then raises *)
(* the flag, or takes the key out again.                                   *)
NodeWrites(s) ==
    /\ Gives(s, "set_node") /\ SaysNothing
    /\ \E v \in {"set", "bad"} : config' = [config EXCEPT !.chain = v]
    /\ cmd' = [cmd EXCEPT ![s] = "try"] /\ copied' = [copied EXCEPT ![s].over = config.chain]
    /\ UNCHANGED <<asking, state, public, flags, applied, pc, list, first, run,
                   refused, q, picture, asleep>>
NodeTries(s) ==
    /\ cmd[s] = "try"
    /\ cmd' = [cmd EXCEPT ![s] = IF config.chain = "bad" THEN "take back" ELSE "raise"]
    /\ UNCHANGED <<asking, state, public, flags, settings, pc, list, first, run,
                   refused, q, picture, copied, asleep, history>>
NodeTakesBack(s) ==
    /\ cmd[s] = "take back"
    /\ config' = [config EXCEPT !.chain = "plain"]
    /\ cmd' = [cmd EXCEPT ![s] = "idle"]
    /\ copied' = [copied EXCEPT ![s] = NoCopy]
    /\ erased' = (erased \/ "set" \in {copied[s].over, config.chain})
    /\ UNCHANGED <<asking, state, public, flags, applied, pc, list, first, run,
                   refused, q, picture, asleep, asks, asked, last, wanted, measured>>

Raises(s) ==
    /\ cmd[s] = "raise"
    /\ rebuild' = TRUE
    /\ cmd' = [cmd EXCEPT ![s] = "idle"] /\ copied' = [copied EXCEPT ![s] = NoCopy]
    /\ UNCHANGED <<asking, state, public, stop, step, quit, settings, pc, list,
                   first, run, refused, q, picture, asleep, history>>

-----------------------------------------------------------------------------
(* The transport.  A command waits, asleep on seekable_, for the run to have *)
(* something to move or to stop saying it plays; five seconds at most.       *)

CanMove == public.graph \/ public.alone \/ state # "playing"

(* The graph moves the queue to a track it has been on, unless its run is *)
(* over or the source will not move.                                       *)
MovesTo(entries) ==
    \/ /\ public.graph /\ q.up
       /\ \E i \in entries : q' = [q EXCEPT !.dec = i, !.heard = i, !.why = "none"]
       /\ UNCHANGED refused
    \/ UNCHANGED <<q, refused>>
Tracks(i, j) == {k \in i..j : KindAt(k) \in Formats}

Seeks == MovesTo(Tracks(first, q.dec))

(* The track after the one heard, and the ring goes with it.  A skip, where *)
(* a seek is refused, ends the decoder's track as its end would.            *)
StepsOn ==
    \/ /\ public.graph /\ q.up
       /\ q' = [Advanced(q.heard) EXCEPT !.heard = Advanced(q.heard).dec]
       /\ Refusing(q.heard + 1)
    \/ UNCHANGED <<q, refused>>

(* The start of the track heard, or of the one before it. *)
StepsBack ==
    LET before == Tracks(first, q.heard - 1)
    IN  MovesTo({q.heard} \cup IF before = {} THEN {} ELSE {Max(before)})

(* What the command does once it has waited. *)
Does(what) ==
    CASE what \in {"pause", "resume"} ->
           /\ state' = IF ~(public.graph \/ public.alone) THEN state
                       ELSE IF what = "pause" THEN "paused" ELSE "playing"
           /\ UNCHANGED <<q, refused, step>>
      [] what = "seek" -> Seeks /\ UNCHANGED <<state, step>>
      [] what = "next" ->
           IF public.alone \/ public.opening
           THEN step' = 1 /\ UNCHANGED <<state, q, refused>>
           ELSE StepsOn /\ UNCHANGED <<state, step>>
      [] what = "previous" ->
           IF public.alone     \* a seek to its start, unless it only just began
           THEN step' \in {step, -1} /\ UNCHANGED <<state, q, refused>>
           ELSE StepsBack /\ UNCHANGED <<state, step>>

Transport(s, what) ==
    /\ Gives(s, what) /\ SaysNothing
    /\ IF public.opening /\ what \in {"next", "previous"}
       THEN /\ step' = IF what = "next" THEN 1 ELSE -1
            /\ UNCHANGED <<state, q, refused, cmd, asleep>>
       ELSE IF CanMove
       THEN Does(what) /\ UNCHANGED <<cmd, asleep>>
       ELSE /\ cmd' = [cmd EXCEPT ![s] = what] /\ asleep' = asleep \cup {s}
            /\ UNCHANGED <<state, q, refused, step>>
    /\ UNCHANGED <<asking, public, stop, rebuild, quit, settings, pc, list, first,
                   run, picture, copied>>

(* Told, it looks again; the five seconds over, it does what it can. *)
Wakes(s) ==
    /\ cmd[s] \in Transports /\ s \notin asleep
    /\ IF CanMove
       THEN Does(cmd[s]) /\ cmd' = [cmd EXCEPT ![s] = "idle"] /\ UNCHANGED asleep
       ELSE asleep' = asleep \cup {s} /\ UNCHANGED <<cmd, state, q, refused, step>>
    /\ UNCHANGED <<asking, public, stop, rebuild, quit, settings, pc, list, first,
                   run, picture, copied, history>>
WaitsOut(s) ==
    /\ cmd[s] \in Transports /\ s \in asleep
    /\ Does(cmd[s])
    /\ cmd' = [cmd EXCEPT ![s] = "idle"] /\ asleep' = asleep \ {s}
    /\ UNCHANGED <<asking, public, stop, rebuild, quit, settings, pc, list, first,
                   run, picture, copied, history>>

-----------------------------------------------------------------------------
(* The graph's own threads, while it runs. *)

GraphSteps == UNCHANGED <<asking, state, public, flags, settings, pc, list, first,
                          run, picture, shells, asks, last, wanted, erased, measured>>

(* The decoder comes to the end of its track; the device catches up with it; *)
(* what was read ahead is played out, and the run is over.                   *)
Decodes ==
    /\ q.up /\ q.why = "none"
    /\ q' = Advanced(q.dec) /\ Refusing(q.dec + 1)
    /\ GraphSteps /\ UNCHANGED asked
Hears ==
    /\ q.up /\ q.heard < q.dec /\ state # "paused"
    /\ q' = [q EXCEPT !.heard = Following(@ + 1)]
    /\ GraphSteps /\ UNCHANGED <<refused, asked>>
PlaysOut ==
    /\ q.up /\ q.heard = q.dec /\ q.why # "none" /\ state # "paused"
    /\ q' = [q EXCEPT !.up = FALSE]
    /\ GraphSteps /\ UNCHANGED <<refused, asked>>
GoesWrong ==
    /\ q.up /\ Fault
    /\ \E e \in {"lost", "failed"} : q' = [q EXCEPT !.up = FALSE, !.error = e]
    /\ GraphSteps /\ UNCHANGED refused

-----------------------------------------------------------------------------
(* The engine thread: what it takes. *)

ShellsStay == UNCHANGED <<files, sweeps, quit, cmd, copied, asks, last, erased>>
Goes(from, to) == pc = from /\ pc' = to

Leaves ==
    /\ quit /\ pc \in {"idle", "chooses"}
    /\ pc' = "gone"
    /\ ShellsStay /\ UNCHANGED <<request, state, public, stop, rebuild, step, settings,
                     list, first, run, refused, q, picture, asleep, measured, wanted, asked>>

(* The flag a request raised to end the run before it is lowered as it is *)
(* taken.                                                                 *)
ConsumesLate == UNCHANGED stop      \* mutant: left up

Consumes == stop' = FALSE

(* A calibration first; the flag that ended the last run is lowered under *)
(* the lock it is raised with.                                            *)
TakesSweep ==
    /\ Goes("idle", "measures") /\ ~quit /\ sweeps > 0
    /\ sweeps' = sweeps - 1 /\ Consumes /\ wanted' = FALSE /\ end' = "sweep"
    /\ UNCHANGED <<files, request, state, public, rebuild, step, quit, settings, list,
                   first, running, built, refitting, refused, q, picture, shells, asks,
                   asked, last, erased, measured>>
Measures ==
    /\ pc = "measures"
    /\ \/ state # "playing" /\ state' = "playing" /\ UNCHANGED pc
          /\ UNCHANGED measured
       \/ state' = "stopped" /\ pc' = "idle" /\ measured' = TRUE
    /\ ShellsStay /\ UNCHANGED <<request, public, stop, rebuild, step, settings, list,
                     first, run, refused, q, picture, asleep, wanted, asked>>

Takes ==
    /\ Goes("idle", "begins") /\ ~quit /\ sweeps = 0 /\ request # None
    /\ list' = request.files /\ first' = request.first /\ request' = None
    /\ Consumes /\ wanted' = FALSE /\ end' = "none" /\ refused' = {}
    /\ q' = NoRun /\ showing' = 0
    /\ ShellsStay /\ UNCHANGED <<state, public, rebuild, step, settings, running, built,
                     refitting, shown, asleep, measured, asked>>

(* play_request, whose Playlist opens nothing yet. *)
Begins ==
    /\ pc = "begins"
    /\ step' = 0
    /\ pc' = IF list = <<>> THEN "idle" ELSE "chooses"
    /\ state' = IF list = <<>> THEN "stopped" ELSE state
    /\ ShellsStay /\ UNCHANGED <<request, public, stop, rebuild, settings, list, first,
                     run, refused, q, picture, asleep, measured, wanted, asked>>

(* What is at first: walked past, a queue's, a run of its own, or the end. *)
Chooses ==
    /\ pc = "chooses" /\ ~quit
    /\ CASE KindAt(first) = "closed" ->
              /\ first' = first + 1 /\ refused' = refused \cup {list[first]}
              /\ UNCHANGED <<pc, state, q, end, asleep, measured, refitting>>
         [] KindAt(first) = "silent" ->
              pc' = "alone" /\ UNCHANGED <<first, refused, state, q, end, asleep, measured, refitting>>
         [] KindAt(first) \in Formats ->
              /\ pc' = "copies" /\ refitting' = FALSE
              /\ q' = [NoRun EXCEPT !.dec = first, !.heard = first, !.why = "none"]
              /\ UNCHANGED <<first, refused, state, end, asleep, measured>>
         [] OTHER ->
              /\ pc' = "idle" /\ state' = "stopped" /\ end' = "finished" /\ TellEveryone
              /\ UNCHANGED <<first, refused, q, refitting>>
    /\ ShellsStay /\ UNCHANGED <<request, public, stop, rebuild, step, settings, list,
                     running, built, picture, wanted, asked>>

-----------------------------------------------------------------------------
(* play_run. *)

(* The configuration is copied and the flag lowered under one lock. *)

Copy == running' = config /\ rebuild' = FALSE /\ UNCHANGED stop
Copies ==
    /\ Goes("copies", "builds") /\ Copy
    /\ ShellsStay /\ UNCHANGED <<request, state, public, step, settings, list, first,
                     built, refitting, end, refused, q, picture, asleep, measured, wanted, asked>>

(* build_chain reads config_ itself, and not the copy. *)
TakesAnything(chain) == TRUE      \* mutant: bad, too

Takeable(chain) == chain # "bad"
Builds ==
    /\ pc = "builds"
    /\ IF Takeable(config.chain)
       THEN pc' = "wires" /\ built' = config.chain /\ UNCHANGED end
       ELSE pc' = "ran" /\ end' = "failed" /\ UNCHANGED built
    /\ ShellsStay /\ UNCHANGED <<request, state, public, stop, rebuild, step, settings, list,
                     first, running, refitting, refused, q, picture, asleep, measured, wanted, asked>>

(* The device opens and takes the format, and the run says it plays. *)
AppliesAndLowers == applied' = running /\ rebuild' = FALSE      \* mutant: lowered late

Applies == applied' = running /\ UNCHANGED rebuild
Wired ==
    /\ Goes("wires", "opens") /\ running.wire # "odd"
    /\ Applies
    /\ public' = [public EXCEPT !.queue = TRUE, !.list = TRUE]
    /\ state' = "playing"
    /\ ShellsStay /\ UNCHANGED <<request, stop, step, config, list, first, run,
                     refused, q, picture, asleep, measured, wanted, asked>>
Unwired ==
    /\ Goes("wires", "ran") /\ end' = "failed"
    /\ \/ running.wire = "odd" /\ UNCHANGED asked
       \/ Fault
    /\ ShellsStay /\ UNCHANGED <<request, state, public, stop, rebuild, step, settings, list,
                     first, running, built, refitting, refused, q, picture, asleep, measured, wanted>>

(* The picture of the entry the decoder is on, kept for the pump. *)
OpensPicture ==
    /\ Goes("opens", "starts")
    /\ shown' = q.dec /\ showing' = q.dec
    /\ ShellsStay /\ UNCHANGED <<request, state, public, stop, rebuild, step, settings, list,
                     first, run, refused, q, asleep, measured, wanted, asked>>

(* pump: the graph starts, and is published once it runs. *)
Starts ==
    /\ pc = "starts"
    /\ \/ pc' = "publishes" /\ q' = [q EXCEPT !.up = TRUE, !.error = "none"]
          /\ UNCHANGED <<end, asked>>
       \/ Fault
          /\ pc' = "clears" /\ end' \in {"lost", "failed"} /\ UNCHANGED q
    /\ ShellsStay /\ UNCHANGED <<request, state, public, stop, rebuild, step, settings, list,
                     first, running, built, refitting, refused, picture, asleep, measured, wanted>>
BeginsWithHeard == showing' = q.heard      \* mutant: not what opened

BeginsWithOpened == UNCHANGED showing
Publishes ==
    /\ Goes("publishes", "turns")
    /\ public' = [public EXCEPT !.graph = TRUE] /\ TellEveryone
    /\ end' = "finished" /\ BeginsWithOpened
    /\ ShellsStay /\ UNCHANGED <<request, state, stop, rebuild, step, settings, list, first,
                     running, built, refitting, refused, q, shown, wanted, asked>>

(* One turn of the loop that looks up from the graph.  What is raised since *)
(* the turn looked at it is for the next turn.                             *)
TurnEnds == Goes("turns", "takes back") /\ ~q.up /\ UNCHANGED <<end, rebuild, picture>>
TurnStops ==
    /\ Goes("turns", "takes back") /\ q.up /\ (quit \/ stop)
    /\ end' = "stopped" /\ UNCHANGED <<rebuild, picture>>
TurnRebuilds ==
    /\ Goes("turns", "takes back") /\ q.up /\ rebuild
    /\ end' = "rebuild" /\ rebuild' = FALSE /\ UNCHANGED picture
TurnFollows ==
    /\ Goes("turns", "follows") /\ q.up
    /\ q.heard # showing /\ showing' = q.heard
    /\ UNCHANGED <<end, rebuild, shown>>
TurnShows ==
    /\ Goes("follows", "turns")
    /\ shown' = showing /\ UNCHANGED <<end, rebuild, showing>>
Turn ==
    /\ TurnEnds \/ TurnStops \/ TurnRebuilds \/ TurnFollows \/ TurnShows
    /\ ShellsStay /\ UNCHANGED <<request, state, public, stop, step, settings, list, first,
                     running, built, refitting, refused, q, asleep, measured, wanted, asked>>

(* The graph is taken back before it stops; then it is asked how it ended, *)
(* and the queue is taken back too.                                        *)
KeepsGraph == UNCHANGED public      \* mutant: not taken back

WithdrawsGraph == public' = [public EXCEPT !.graph = FALSE]
TakesBack ==
    /\ Goes("takes back", "clears")
    /\ WithdrawsGraph /\ TellEveryone
    /\ ShellsStay /\ UNCHANGED <<request, state, stop, rebuild, step, settings, list, first,
                     run, refused, q, picture, wanted, asked>>
Clears ==
    /\ Goes("clears", "ran")
    /\ public' = [public EXCEPT !.queue = FALSE, !.list = FALSE]
    /\ end' = IF end = "finished" /\ q.error # "none" THEN q.error ELSE end
    /\ q' = [q EXCEPT !.up = FALSE] /\ shown' = 0
    /\ ShellsStay /\ UNCHANGED <<request, state, stop, rebuild, step, settings, list, first,
                     running, built, refitting, refused, showing, asleep, measured, wanted, asked>>

-----------------------------------------------------------------------------
(* play_request goes on from how the run ended. *)

(* The request is over. *)
StopsUnsaid == pc' = "idle" /\ state' = "stopped" /\ UNCHANGED <<asleep, measured>>      \* mutant: nobody is told

Stops == pc' = "idle" /\ state' = "stopped" /\ TellEveryone
Resumes == pc' = "copies" /\ q' = [q EXCEPT !.dec = q.heard, !.why = "none"]
Walks == UNCHANGED <<state, asleep, measured>>

(* Out of the loop with no run to follow: the word of the queue decides. *)
Breaks ==
    /\ end' = "given up"
    /\ IF q.why \in {"format", "silent"} THEN pc' = "chooses" /\ Walks ELSE Stops
    /\ UNCHANGED q

(* What it stopped in front of, read off the queue: the graph cannot tell. *)
OfTheGraph == end = "format"      \* mutant: the graph is asked

OfTheQueue == end = "finished" /\ q.why \in {"format", "silent"}

GoesOn ==
    /\ pc = "ran"
    /\ CASE end = "lost" ->
              /\ \/ pc' = "awaits" /\ Walks /\ UNCHANGED <<q, end>>
                 \/ Breaks                              \* recover is off
              /\ UNCHANGED asked
         [] end = "rebuild" ->
              \/ Resumes /\ Walks /\ UNCHANGED <<end, asked>>
              \/ Fault /\ Breaks                       \* it will not seek
         [] end = "failed" /\ refitting ->
              \/ Resumes /\ Walks /\ UNCHANGED <<end, asked>>
              \/ Fault /\ Stops /\ UNCHANGED <<q, end>>
         [] OfTheQueue ->
              pc' = "chooses" /\ Walks /\ UNCHANGED <<q, end, asked>>
         [] OTHER -> Stops /\ UNCHANGED <<q, end, asked>>
    /\ config' = IF end = "failed" /\ refitting THEN applied ELSE config
    /\ refitting' = (end = "rebuild" /\ pc' = "copies")
    /\ first' = IF end = "finished" /\ pc' = "chooses" THEN q.dec + 1 ELSE first
    /\ ShellsStay /\ UNCHANGED <<request, public, stop, rebuild, step, applied, list,
                     running, built, refused, picture, wanted>>

(* wait_for_device. *)
Awaits ==
    /\ pc = "awaits"
    /\ \/ Resumes /\ Walks /\ UNCHANGED end /\ ~quit /\ ~stop
       \/ Breaks        \* told to stop, no device in time, or it will not seek
    /\ ShellsStay /\ UNCHANGED <<request, public, stop, rebuild, step, settings, list,
                     first, running, built, refitting, refused, picture, wanted, asked>>

-----------------------------------------------------------------------------
(* play_alone. *)

AloneCopies ==
    /\ Goes("alone", "alone says")
    /\ running' = config /\ rebuild' = FALSE
    /\ ShellsStay /\ UNCHANGED <<request, state, public, stop, step, settings, list, first,
                     built, refitting, end, refused, q, picture, asleep, measured, wanted, asked>>
AloneSays ==
    /\ Goes("alone says", "alone opens")
    /\ applied' = running
    /\ public' = [public EXCEPT !.list = TRUE, !.opening = TRUE]
    /\ state' = "playing"
    /\ ShellsStay /\ UNCHANGED <<request, stop, rebuild, step, config, list, first, run,
                     refused, q, picture, asleep, measured, wanted, asked>>
AloneOpens ==
    /\ pc = "alone opens"
    /\ \/ /\ pc' = "alone turns" /\ shown' = first /\ TellEveryone /\ end' = "finished"
          /\ public' = [public EXCEPT !.opening = FALSE, !.alone = TRUE]
          /\ UNCHANGED <<state, asked>>
       \/ /\ Fault
          /\ Stops /\ end' = "failed"
          /\ public' = [public EXCEPT !.opening = FALSE]
          /\ UNCHANGED shown
    /\ ShellsStay /\ UNCHANGED <<request, stop, rebuild, step, settings, list, first, running,
                     built, refitting, refused, q, showing, wanted>>

AloneTurns ==
    /\ Goes("alone turns", "alone back")
    /\ \/ state # "paused" /\ UNCHANGED <<end, rebuild, step>>
       \/ (stop \/ quit) /\ end' = "stopped" /\ UNCHANGED <<rebuild, step>>
       \/ rebuild /\ end' = "rebuild" /\ rebuild' = FALSE /\ UNCHANGED step
       \/ /\ step # 0 /\ step' = 0
          /\ end' = IF step = 1 THEN "advanced" ELSE "retreated"
          /\ UNCHANGED rebuild
    /\ ShellsStay /\ UNCHANGED <<request, state, public, stop, settings, list, first, running,
                     built, refitting, refused, q, picture, asleep, measured, wanted, asked>>
AloneTakesBack ==
    /\ Goes("alone back", "alone clears")
    /\ public' = [public EXCEPT !.alone = FALSE] /\ TellEveryone
    /\ ShellsStay /\ UNCHANGED <<request, state, stop, rebuild, step, settings, list, first,
                     run, refused, q, picture, wanted, asked>>
AloneGoesOn ==
    /\ pc = "alone clears"
    /\ public' = [public EXCEPT !.list = FALSE] /\ shown' = 0
    /\ IF end = "stopped" THEN Stops ELSE pc' = "chooses" /\ Walks
    /\ first' = CASE end \in {"finished", "advanced"} -> first + 1
                  [] end = "retreated" -> PreviousFrom(first)
                  [] OTHER -> first
    /\ ShellsStay /\ UNCHANGED <<request, stop, rebuild, step, settings, list, run, refused,
                     q, showing, wanted, asked>>

-----------------------------------------------------------------------------
Commanded(s) ==
    \/ Play(s) \/ PlayAtReads(s) \/ MoveEntry(s) \/ Enqueue(s) \/ Clear(s) \/ Stop(s)
    \/ Calibrate(s) \/ Shutdown(s) \/ SetWrites(s) \/ NodeWrites(s)
    \/ \E what \in Transports : Transport(s, what)
Continues(s) ==
    PlayAtAsks(s) \/ NodeTries(s) \/ NodeTakesBack(s) \/ Raises(s) \/ Wakes(s)
Graph == Decodes \/ Hears \/ PlaysOut
Engine ==
    \/ Leaves \/ TakesSweep \/ Measures \/ Takes \/ Begins \/ Chooses
    \/ Copies \/ Builds \/ Wired \/ Unwired \/ OpensPicture \/ Starts \/ Publishes
    \/ Turn \/ TakesBack \/ Clears \/ GoesOn \/ Awaits
    \/ AloneCopies \/ AloneSays \/ AloneOpens \/ AloneTurns \/ AloneTakesBack \/ AloneGoesOn

Next ==
    \/ \E s \in Shells : Commanded(s) \/ Continues(s) \/ WaitsOut(s)
    \/ Graph \/ GoesWrong \/ Engine
Spec == Init /\ [][Next]_vars

(* The operating system runs every thread; a picture and a graph that are *)
(* not paused play; nobody is relied on to give a command, to fail, or to *)
(* sleep five seconds.                                                    *)
FairSpec ==
    Spec /\ WF_vars(Engine) /\ WF_vars(Graph) /\ \A s \in Shells : WF_vars(Continues(s))

-----------------------------------------------------------------------------
Runs == {"opens", "starts", "publishes", "turns", "follows", "takes back", "clears"}
Making == {"wires", "opens", "starts", "publishes", "turns", "follows"}
Alones == {"alone says", "alone opens", "alone turns", "alone back", "alone clears"}

TypeOK ==
    /\ files \in Seq(Files) /\ list \in Seq(Files) /\ first \in Nat \ {0}
    /\ request = None \/ request \in [files : {files}, first : Nat]
                      \/ request.files \in Seq(Files)
    /\ sweeps \in 0..MaxEvents /\ state \in {"stopped", "playing", "paused"}
    /\ public \in [DOMAIN Nobody -> BOOLEAN]
    /\ {stop, rebuild, quit} \subseteq BOOLEAN /\ step \in {-1, 0, 1}
    /\ {config, applied, running} \subseteq Configs /\ built \in Chains \ {"bad"}
    /\ pc \in Runs \cup Alones \cup {"idle", "gone", "measures", "begins", "chooses",
                  "copies", "builds", "wires", "ran", "awaits", "alone"}
    /\ q.heard <= q.dec /\ q.dec \in 0..Len(list)
    /\ shown \in 0..Len(list) /\ asleep \subseteq Shells
    /\ \A s \in asleep : cmd[s] \in Transports

(* player.cpp:2483-2525, 2557-2581: what a shell is shown of a run is there: *)
(* a graph runs, or is asked to stop only once it is taken back; and a       *)
(* player with nothing to run says so.                                       *)
PublishedIsAlive ==
    /\ public.graph => pc \in {"turns", "follows", "takes back"}
    /\ public.queue => pc \in Runs
    /\ public.alone => pc \in {"alone turns", "alone back"}
    /\ public.opening => pc = "alone opens"
    /\ pc = "idle" => state = "stopped"

(* player.cpp:928-933, 2140-2206: a run is made of what config_ holds, or    *)
(* the flag is up that makes it so: nothing written to config_ while a run   *)
(* is made, by whichever shell, is without effect on the run.  Of a chain a  *)
(* refusal took a key from (erased) it is not said.  Nor is it said that     *)
(* config_ goes on holding what a shell was told is accepted: it does not    *)
(* when a rebuild fails and all of it is put back (1921).                    *)
RunsTheSettings ==
    ~rebuild /\ (\A s \in Shells : cmd[s] \notin {"raise", "try", "take back"}) =>
        /\ pc \in Making \cup {"builds", "alone says", "alone opens", "alone turns"}
             => running.wire = config.wire
        /\ pc \in Making => built = config.chain \/ erased

(* player.cpp:1552-1556: a run is not stopped by what ended the one before.  *)
NotStoppedUnasked == end = "stopped" => wanted

(* player.cpp:492-508: no command sleeps out its five seconds with something *)
(* to move.                                                                  *)
WaiterIsTold == asleep # {} /\ CanMove => measured

(* player.cpp:492-508, 1552-1556: a command works on the run it was meant    *)
(* for: it neither misses the one that comes up nor outlives the one it ended.*)
CommandsAreMinded == NotStoppedUnasked /\ WaiterIsTold

(* player.cpp:1928-1969: nothing stopped, failed or given up, a request ends *)
(* at the end of its list, whatever formats and pictures there are in it.    *)
EndsAtTheEnd ==
    [][pc = "ran" /\ pc' = "idle" /\ end' = "finished"
         => \A i \in (q.dec + 1)..Len(list) : KindAt(i) = "closed"]_vars

(* player.cpp:2537-2548: the picture on the screen comes to be the one of    *)
(* what is heard.                                                            *)
PictureFollows ==
    pc = "turns" /\ shown # q.heard ~> shown = q.heard \/ pc \notin {"turns", "follows"}

(* player.cpp:351-367, 480-490, 325-345: a request is taken, a stop stops,   *)
(* and a player told to end ends.                                            *)
AsksAreHeard ==
    /\ request # None ~> request = None \/ quit
    /\ last = "stop" ~> last # "stop" \/ (request = None /\ pc = "idle")
    /\ quit ~> pc = "gone"

(* player.cpp:1527-1563, 1797-1969: every request is begun and, left alone,  *)
(* comes to its end.                                                         *)
RequestsAreServed == AsksAreHeard /\ EndsAtTheEnd
=============================================================================
