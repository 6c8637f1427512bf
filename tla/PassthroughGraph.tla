-------------------------- MODULE PassthroughGraph --------------------------
(***************************************************************************)
(* mp::PassthroughGraph (passthrough.hpp, passthrough.cpp): a source, a    *)
(* ring and a sink, moved by three threads.  The control thread calls      *)
(* start, pause, resume, seek and stop one at a time; the decode thread    *)
(* fills the ring from the source and performs seeks; the render thread    *)
(* hands the device one buffer a turn.                                     *)
(*                                                                         *)
(* A frame is its number in the source.  The ring is the FIFO ByteRing     *)
(* implements, except that a read of it takes two steps, so that a reset   *)
(* underneath a reader can be told from one that is not.  After such a     *)
(* reset the reader publishes an index past the writer's: the ring is      *)
(* apart, readable() is near 2^64 and writable() is more than its size,    *)
(* until the writer has caught up or it is reset again.                    *)
(*                                                                         *)
(* Each step ends where another thread can first see it or change what it  *)
(* goes on.  Counts are kept as far as the code compares them:             *)
(*   woken         decoder_wakes_ has moved since the decoder last read it *)
(*   turned        render_tick_ - from of perform_seek, up to 2            *)
(*   since         frames_rendered_ - rendered_base_, up to MaxSince       *)
(*   seekDone, renderTurned, renderWake                                    *)
(*                 the semaphore has a token: every wait looks again after *)
(*                 it wakes, so a second token says nothing more.          *)
(***************************************************************************)
EXTENDS Integers, Sequences

CONSTANTS
    Length,      \* frames in the source
    Begins,      \* where the source may stand when the graph is built
    Targets,     \* frames a caller may seek to
    Chunk,       \* chunk_frames_: the most one source read asks for
    Capacity,    \* frames in the ring
    Prefill,     \* prefill_bytes_, in frames
    Buffers,     \* sizes of the buffers the sink hands out
    Faults,      \* calls that may fail: subset of FaultKinds
    SeekMayFail, \* whether source_->seek may return false
    Deadlines,   \* waits that may run out of time: subset of DeadlineKinds
    MaxCalls,    \* bound of the exploration: calls the control thread makes
    MaxSince     \* bound of the exploration: where since stops counting

FaultKinds == {"start", "wait", "acquire", "commit", "repack"}
DeadlineKinds == {"handshake", "answer"}

ASSUME GraphAssumption ==
    /\ Length \in Nat
    /\ Begins \subseteq 0..Length
    /\ Targets \subseteq 0..Length
    /\ Chunk \in Nat \ {0}
    /\ Capacity \in Nat \ {0}
    /\ Prefill \in Nat
    /\ Buffers \subseteq Nat \ {0}
    /\ Faults \subseteq FaultKinds
    /\ SeekMayFail \in BOOLEAN
    /\ Deadlines \subseteq DeadlineKinds
    /\ MaxCalls \in Nat
    /\ MaxSince \in Nat

VARIABLES
    running, live, paused, failed,      \* running_, live_, paused_, error_ # MP_OK
    devRunning,                         \* device_running_
    seeking, parked, turned, request,   \* the handshake of a seek
    woken, seekDone, renderTurned, renderWake,
    ring, apart, drained,               \* apart: read_ is past write_
    srcPos,                             \* where the source stands
    playedBase, since,                  \* what position_frames counts from
    pc,                                 \* where each thread is
    calls, asked, reply,                \* control: the seek it makes, its answer
    target,                             \* decode: the frame perform_seek moves to
    sawSeeking, want, hand,             \* render: locals of one turn
    due,      \* history: the source frame the device is to be given next
    landed,   \* history: where the source moved since the last seek was asked
    late,     \* history: a wait of a seek ran out of time, or its run ended
    lost,     \* history: frames were dropped that no seek asked to drop
    torn      \* history: the ring was reset underneath a read of it

state   == <<running, live, paused, failed, devRunning>>
shake   == <<seeking, parked, turned, request>>
wakes   == <<woken, seekDone, renderTurned, renderWake>>
store   == <<ring, apart, drained, srcPos>>
place   == <<playedBase, since>>
call    == <<calls, asked, reply, target>>
turn    == <<sawSeeking, want, hand>>
history == <<due, landed, late, lost, torn>>
vars == <<state, shake, wakes, store, place, pc, call, turn, history>>

Threads == {"control", "decode", "render"}
None == -1

Least(a, b) == IF a < b THEN a ELSE b
RoomAndOne ==      \* mutant: one frame too many
    IF apart THEN Capacity + 1 ELSE Capacity - Len(ring) + 1

(* writable().  Of an index that is past the other one it is at least one   *)
(* frame more than there is, by how much is not kept.                       *)
Room == IF apart THEN Capacity + 1 ELSE Capacity - Len(ring)

(* readable() is under the floor of fill_to_floor(); 2^64 is not.           *)
Short == ~apart /\ Len(ring) < Prefill
Goto(t, label) == pc' = [pc EXCEPT ![t] = label]
Frames(from, n) == [i \in 1..n |-> from + i - 1]
Drop(s, n) == SubSeq(s, n + 1, Len(s))
Counted(n) == Least(since + n, MaxSince)
DueAfter(given) == IF given = <<>> THEN due ELSE given[Len(given)] + 1

Init ==
    /\ running = FALSE /\ live = FALSE /\ paused = FALSE /\ failed = FALSE
    /\ devRunning = FALSE
    /\ seeking = FALSE /\ parked = FALSE /\ turned = 0 /\ request = None
    /\ woken = FALSE /\ seekDone = FALSE /\ renderTurned = FALSE
    /\ renderWake = FALSE
    /\ ring = <<>> /\ apart = FALSE /\ drained = FALSE
    /\ srcPos \in Begins
    /\ playedBase = srcPos /\ since = 0
    /\ pc = [t \in Threads |-> IF t = "control" THEN "idle" ELSE "none"]
    /\ calls = 0 /\ asked = None /\ reply = "none" /\ target = None
    /\ sawSeeking = FALSE /\ want = 0 /\ hand = <<>>
    /\ due = srcPos /\ landed = None
    /\ late = FALSE /\ lost = FALSE /\ torn = FALSE

-----------------------------------------------------------------------------
(* Shared by the threads. *)

(* fail(): the first error stays, the run ends, the decoder is told. *)
Fail ==
    /\ failed' = TRUE
    /\ running' = FALSE
    /\ woken' = TRUE

(* ring_.write of frames there is room for.  Where the indices are apart    *)
(* the frames fall behind the read index, and those past it, if it is       *)
(* reached, are what can be read.                                           *)
Puts(frames) ==
    \/ /\ ~apart
       /\ ring' = ring \o frames
       /\ UNCHANGED apart
    \/ /\ apart
       /\ UNCHANGED <<ring, apart>>
    \/ /\ apart
       /\ apart' = FALSE
       /\ \E n \in 1..Len(frames) : ring' = Drop(frames, n)

(* pump_once() with something to read: any number of frames up to a chunk. *)
PumpFrames ==
    \E got \in 1..Least(Chunk, Length - srcPos) :
        /\ Puts(Frames(srcPos, got))
        /\ srcPos' = srcPos + got

PumpsFrames ==
    /\ PumpFrames
    /\ UNCHANGED <<drained, running, failed, woken, lost>>

PumpsNothingUnsaid ==      \* mutant: the end of the stream is not published
    /\ srcPos = Length
    /\ UNCHANGED <<drained, ring, apart, srcPos, running, failed, woken, lost>>

(* pump_once() at the end of the stream; its callers set drained_. *)
PumpsNothing ==
    /\ srcPos = Length
    /\ drained' = TRUE
    /\ UNCHANGED <<ring, apart, srcPos, running, failed, woken, lost>>

(* pump_once() when repack() refuses the pair of formats. *)
PumpFails ==
    /\ "repack" \in Faults
    /\ srcPos < Length
    /\ srcPos' = Least(srcPos + Chunk, Length)
    /\ Fail
    /\ drained' = TRUE
    /\ lost' = TRUE
    /\ UNCHANGED <<ring, apart>>

Pump == PumpsFrames \/ PumpsNothing \/ PumpFails

(* fill_to_floor(), one turn of its loop: from label here, to label after    *)
(* once the floor is reached, the ring takes no more or the source is out.  *)
Fill(t, here, after) ==
    /\ pc[t] = here
    /\ \/ /\ Short /\ Room >= Chunk
          /\ Pump
          /\ Goto(t, IF drained' THEN after ELSE here)
       \/ /\ ~Short \/ Room < Chunk
          /\ Goto(t, after)
          /\ UNCHANGED <<store, running, failed, woken, lost>>
    /\ UNCHANGED <<live, paused, devRunning, shake, seekDone, renderTurned,
                   renderWake, place, call, turn, due, landed, late, torn>>

-----------------------------------------------------------------------------
(* perform_seek, on the decode thread, or on the control thread while there *)
(* are no threads.                                                          *)

Claim(t) ==
    /\ pc[t] = "claim"
    /\ seeking' = TRUE
    /\ Goto(t, "count")
    /\ UNCHANGED <<state, parked, turned, request, wakes, store, place, call,
                   turn, history>>

CountTurns(t) ==
    /\ pc[t] = "count"
    /\ turned' = 0
    /\ Goto(t, "handshake")
    /\ UNCHANGED <<state, seeking, parked, request, wakes, store, place, call,
                   turn, history>>

RingIsOursIfParked == ~running \/ parked      \* mutant: the turns are not counted

(* A whole turn of the render thread under the flag, or nobody to wait for. *)
RingIsOurs == ~running \/ (parked /\ turned >= 2)

Handshake(t) ==
    /\ pc[t] = "handshake"
    /\ IF RingIsOurs
         THEN Goto(t, "reset") /\ UNCHANGED renderWake
         ELSE Goto(t, "turnwait") /\ renderWake' = TRUE
    /\ UNCHANGED <<state, shake, woken, seekDone, renderTurned, store, place,
                   call, turn, history>>

AwaitTurn(t) ==
    /\ pc[t] = "turnwait"
    /\ \/ /\ renderTurned
          /\ renderTurned' = FALSE
          /\ Goto(t, "handshake")
          /\ UNCHANGED late
       \/ /\ ~renderTurned /\ "handshake" \in Deadlines
          /\ late' = TRUE
          /\ Goto(t, "reset")
          /\ UNCHANGED renderTurned
    /\ UNCHANGED <<state, shake, woken, seekDone, renderWake, store, place,
                   call, turn, due, landed, lost, torn>>

KeepRing(t) ==      \* mutant: what was read ahead stays in the ring
    /\ pc[t] = "reset"
    /\ Goto(t, "move")
    /\ UNCHANGED <<state, shake, wakes, store, place, call, turn, history>>

ResetRing(t) ==
    /\ pc[t] = "reset"
    /\ ring' = <<>> /\ apart' = FALSE
    /\ torn' = (pc["render"] = "reading")
    /\ Goto(t, "move")
    /\ UNCHANGED <<state, shake, wakes, drained, srcPos, place, call, turn,
                   due, landed, late, lost>>

(* A source that could not seek is somewhere unknown (source.hpp:45-47). *)
MoveSource(t) ==
    /\ pc[t] = "move"
    /\ drained' = FALSE
    /\ \/ /\ srcPos' = target /\ due' = target /\ landed' = target
          /\ playedBase' = target /\ since' = 0
          /\ UNCHANGED lost
       \/ /\ SeekMayFail
          /\ srcPos' \in 0..Length
          /\ lost' = TRUE
          /\ UNCHANGED <<place, due, landed>>
    /\ Goto(t, "fill")
    /\ UNCHANGED <<state, shake, wakes, ring, apart, call, turn, late, torn>>

ClearRequest(t) ==
    /\ pc[t] = "clear"
    /\ request' = None
    /\ Goto(t, "release")
    /\ UNCHANGED <<state, seeking, parked, turned, wakes, store, place, call,
                   turn, history>>

Release(t) ==
    /\ pc[t] = "release"
    /\ seeking' = FALSE
    /\ seekDone' = TRUE
    /\ IF t = "control"
         THEN Goto(t, "idle") /\ reply' = "moved"
         ELSE Goto(t, "top") /\ UNCHANGED reply
    /\ UNCHANGED <<state, parked, turned, request, woken, renderTurned,
                   renderWake, store, place, calls, asked, target, turn,
                   history>>

PerformSeek(t) ==
    \/ Claim(t) \/ CountTurns(t) \/ Handshake(t) \/ AwaitTurn(t)
    \/ ResetRing(t) \/ MoveSource(t) \/ Fill(t, "fill", "clear")
    \/ ClearRequest(t) \/ Release(t)

-----------------------------------------------------------------------------
(* The control thread. *)

Call ==
    /\ pc["control"] = "idle"
    /\ calls < MaxCalls
    /\ calls' = calls + 1

(* start() up to fill_to_floor().  A graph whose threads are not joined is   *)
(* not started again (the assignment to a joinable std::thread terminates).  *)
(* What the ring still holds is lost: the device goes on from the source.   *)
Start ==
    /\ Call
    /\ ~running /\ ~live
    /\ ring' = <<>> /\ apart' = FALSE
    /\ drained' = FALSE
    /\ failed' = FALSE
    /\ lost' = (lost \/ ring # <<>>)
    /\ due' = srcPos
    /\ Goto("control", "floor")
    /\ UNCHANGED <<running, live, paused, devRunning, shake, wakes, srcPos,
                   place, asked, reply, target, turn, landed, late, torn>>

(* What the ring has goes into the device's first buffer, which is counted  *)
(* as any other.                                                            *)

FirstBuffer(size) ==
    /\ ring' = Drop(ring, Least(size, Len(ring)))
    /\ due' = DueAfter(SubSeq(ring, 1, Least(size, Len(ring))))
    /\ since' = Counted(size)

(* acquire, read, commit, start the device, start the two threads. *)
Launch ==
    /\ pc["control"] = "launch"
    /\ \E size \in Buffers :
         LET got == Least(size, Len(ring))
         IN \/ /\ "acquire" \in Faults
               /\ Goto("control", "idle")
               /\ UNCHANGED <<state, ring, since, due, lost>>
            \/ /\ "commit" \in Faults
               /\ ring' = Drop(ring, got)
               /\ lost' = (lost \/ got > 0)
               /\ Goto("control", "idle")
               /\ UNCHANGED <<state, since, due>>
            \/ /\ "start" \in Faults
               /\ FirstBuffer(size)
               /\ running' = FALSE /\ devRunning' = TRUE
               /\ Goto("control", "idle")
               /\ UNCHANGED <<live, paused, failed, lost>>
            \/ /\ FirstBuffer(size)
               /\ running' = TRUE /\ devRunning' = TRUE /\ live' = TRUE
               /\ pc' = [t \in Threads |-> IF t = "control" THEN "idle" ELSE "top"]
               /\ UNCHANGED <<paused, failed, lost>>
    /\ UNCHANGED <<shake, wakes, apart, drained, srcPos, playedBase, call,
                   turn, landed, late, torn>>

Pause ==
    /\ Call
    /\ paused' = TRUE
    /\ UNCHANGED <<running, live, failed, devRunning, shake, wakes, store,
                   place, pc, asked, reply, target, turn, history>>

Resume ==
    /\ Call
    /\ paused' = FALSE
    /\ renderWake' = TRUE
    /\ UNCHANGED <<running, live, failed, devRunning, shake, woken, seekDone,
                   renderTurned, store, place, pc, asked, reply, target, turn,
                   history>>

StopUnheard ==      \* mutant: stop() does not wake the decode thread
    /\ Call
    /\ running' = FALSE
    /\ renderWake' = TRUE /\ renderTurned' = TRUE /\ seekDone' = TRUE
    /\ Goto("control", "join")
    /\ UNCHANGED <<live, paused, failed, devRunning, shake, woken, store, place,
                   asked, reply, target, turn, history>>

Stop ==
    /\ Call
    /\ running' = FALSE
    /\ woken' = TRUE
    /\ renderWake' = TRUE /\ renderTurned' = TRUE /\ seekDone' = TRUE
    /\ Goto("control", "join")
    /\ UNCHANGED <<live, paused, failed, devRunning, shake, store, place, asked,
                   reply, target, turn, history>>

Join ==
    /\ pc["control"] = "join"
    /\ pc["render"] \in {"none", "done"} /\ pc["decode"] \in {"none", "done"}
    /\ live' = FALSE
    /\ pc' = [t \in Threads |-> IF t = "control" THEN "idle" ELSE "none"]
    /\ UNCHANGED <<running, paused, failed, devRunning, shake, wakes, store,
                   place, call, turn, history>>

(* seek() of a run that ended by itself and is not joined. *)
SeekRefused ==
    /\ Call
    /\ ~running /\ live
    /\ reply' = "refused"
    /\ UNCHANGED <<state, shake, wakes, store, place, pc, asked, target, turn,
                   history>>

(* seek() of a graph that has no threads: done here. *)
SeekHere(frame) ==
    /\ Call
    /\ ~running /\ ~live
    /\ asked' = frame /\ target' = frame /\ landed' = None
    /\ Goto("control", "claim")
    /\ UNCHANGED <<state, shake, wakes, store, place, reply, turn, due, late,
                   lost, torn>>

SeekAsk(frame) ==
    /\ Call
    /\ running
    /\ request' = frame
    /\ woken' = TRUE
    /\ asked' = frame /\ landed' = None
    /\ Goto("control", "answer")
    /\ UNCHANGED <<state, seeking, parked, turned, seekDone, renderTurned,
                   renderWake, store, place, reply, target, turn, due, late,
                   lost, torn>>

SeekIsDone == request = None \/ ~running

SeekReturnsAtOnce ==      \* mutant: the answer does not wait for the seek
    /\ pc["control"] = "answer"
    /\ reply' = "moved"
    /\ Goto("control", "idle")
    /\ UNCHANGED <<state, shake, wakes, store, place, calls, asked, target,
                   turn, history>>

SeekReturns ==
    /\ pc["control"] = "answer"
    /\ SeekIsDone
    /\ reply' = "moved"
    /\ late' = (late \/ request # None)
    /\ Goto("control", "idle")
    /\ UNCHANGED <<state, shake, wakes, store, place, calls, asked, target,
                   turn, due, landed, lost, torn>>

SeekSleeps ==
    /\ pc["control"] = "answer"
    /\ ~SeekIsDone
    /\ Goto("control", "asleep")
    /\ UNCHANGED <<state, shake, wakes, store, place, call, turn, history>>

SeekLooksAgain ==
    /\ pc["control"] = "asleep"
    /\ seekDone
    /\ seekDone' = FALSE
    /\ Goto("control", "answer")
    /\ UNCHANGED <<state, shake, woken, renderTurned, renderWake, store, place,
                   call, turn, history>>

SeekTimesOut ==
    /\ pc["control"] = "asleep"
    /\ "answer" \in Deadlines
    /\ ~seekDone
    /\ late' = TRUE
    /\ reply' = IF SeekIsDone THEN "moved" ELSE "refused"
    /\ Goto("control", "idle")
    /\ UNCHANGED <<state, shake, wakes, store, place, calls, asked, target,
                   turn, due, landed, lost, torn>>

Calls ==
    \/ Start \/ Pause \/ Resume \/ Stop \/ SeekRefused
    \/ \E frame \in Targets : SeekHere(frame) \/ SeekAsk(frame)

ControlStep ==
    \/ Fill("control", "floor", "launch") \/ Launch \/ Join
    \/ SeekReturns \/ SeekSleeps \/ SeekLooksAgain \/ SeekTimesOut
    \/ PerformSeek("control")

-----------------------------------------------------------------------------
(* decode_loop() *)

(* The count of wakes is read before anything else is looked at. *)
DecodeTop ==
    /\ pc["decode"] = "top"
    /\ woken' = FALSE
    /\ Goto("decode", "look")
    /\ UNCHANGED <<state, shake, seekDone, renderTurned, renderWake, store,
                   place, call, turn, history>>

DecodeExit ==
    /\ pc["decode"] = "look"
    /\ ~running
    /\ Goto("decode", "done")
    /\ UNCHANGED <<state, shake, wakes, store, place, call, turn, history>>

DecodeSeek ==
    /\ pc["decode"] = "look"
    /\ running /\ request # None
    /\ target' = request
    /\ Goto("decode", "claim")
    /\ UNCHANGED <<state, shake, wakes, store, place, calls, asked, reply, turn,
                   history>>

(* No seek is asked.  One may be, or the run end, before it goes on.        *)
DecodeGoesOn ==
    /\ pc["decode"] = "look"
    /\ running /\ request = None
    /\ Goto("decode", "work")
    /\ UNCHANGED <<state, shake, wakes, store, place, call, turn, history>>

DecodeSleepsFromNow ==      \* mutant: the wakes are read just before the wait
    /\ pc["decode"] = "work"
    /\ drained \/ Room < Chunk
    /\ woken' = FALSE
    /\ Goto("decode", "asleep")
    /\ UNCHANGED <<state, shake, seekDone, renderTurned, renderWake, store,
                   place, call, turn, history>>

DecodeSleep ==
    /\ pc["decode"] = "work"
    /\ drained \/ Room < Chunk
    /\ Goto("decode", "asleep")
    /\ UNCHANGED <<state, shake, wakes, store, place, call, turn, history>>

DecodePump ==
    /\ pc["decode"] = "work"
    /\ ~drained /\ Room >= Chunk
    /\ Pump
    /\ Goto("decode", "top")
    /\ UNCHANGED <<live, paused, devRunning, shake, seekDone, renderTurned,
                   renderWake, place, call, turn, due, landed, late, torn>>

DecodeWakes ==
    /\ pc["decode"] = "asleep"
    /\ woken
    /\ Goto("decode", "top")
    /\ UNCHANGED <<state, shake, wakes, store, place, call, turn, history>>

Decode ==
    \/ DecodeTop \/ DecodeExit \/ DecodeSeek \/ DecodeGoesOn \/ DecodeSleep
    \/ DecodePump \/ DecodeWakes \/ PerformSeek("decode")

-----------------------------------------------------------------------------
(* render_loop(), one turn of it *)

RenderTop ==
    /\ pc["render"] = "top"
    /\ running
    /\ turned' = Least(turned + 1, 2)
    /\ renderTurned' = (renderTurned \/ seeking)
    /\ Goto("render", "turn")
    /\ UNCHANGED <<state, seeking, parked, request, woken, seekDone, renderWake,
                   store, place, call, turn, history>>

RenderExit ==
    /\ pc["render"] = "top"
    /\ ~running
    /\ Goto("render", "done")
    /\ UNCHANGED <<state, shake, wakes, store, place, call, turn, history>>

RenderParks ==
    /\ pc["render"] = "turn"
    /\ paused
    /\ devRunning' = FALSE
    /\ parked' = TRUE
    /\ Goto("render", "nap")
    /\ UNCHANGED <<running, live, paused, failed, seeking, turned, request,
                   wakes, store, place, call, turn, history>>

(* The nap is over, by itself or by a wake; every wake is taken with it. *)
RenderNaps ==
    /\ pc["render"] = "nap"
    /\ renderWake' = FALSE
    /\ Goto("render", "top")
    /\ UNCHANGED <<state, shake, woken, seekDone, renderTurned, store, place,
                   call, turn, history>>

RenderReady ==
    /\ pc["render"] = "turn"
    /\ ~paused
    /\ devRunning' = TRUE
    /\ Goto("render", "wait")
    /\ UNCHANGED <<running, live, paused, failed, shake, wakes, store, place,
                   call, turn, history>>

(* The device asks for a buffer: wait() and acquire(). *)
RenderAcquires ==
    /\ pc["render"] = "wait"
    /\ want' \in Buffers
    /\ Goto("render", "acquired")
    /\ UNCHANGED <<state, shake, wakes, store, place, call, sawSeeking, hand,
                   history>>

RenderLooksForSeek ==
    /\ pc["render"] = "acquired"
    /\ sawSeeking' = seeking
    /\ Goto("render", "looked")
    /\ UNCHANGED <<state, shake, wakes, store, place, call, want, hand, history>>

(* Parked is what it saw; until it says so, parked is what an earlier turn  *)
(* said, which is why a seek counts the turns too.                          *)
RenderSaysParked ==
    /\ pc["render"] = "looked"
    /\ parked' = sawSeeking
    /\ Goto("render", IF sawSeeking THEN "commit" ELSE "take")
    /\ UNCHANGED <<state, seeking, turned, request, wakes, store, place, call,
                   turn, history>>

(* What a reader finds between the two stores of reset(), or while the      *)
(* indices are apart: as much as it asks for of whatever the buffer holds.  *)
Anything == [1..want -> 0..(Length - 1)]

BeginRead ==
    /\ pc["render"] = "take"
    /\ \/ ~apart /\ hand' = SubSeq(ring, 1, Least(want, Len(ring)))
       \/ /\ apart \/ pc["decode"] = "reset"
          /\ hand' \in Anything
    /\ Goto("render", IF hand' = <<>> THEN "commit" ELSE "reading")
    /\ UNCHANGED <<state, shake, wakes, store, place, call, sawSeeking, want,
                   history>>

(* The copy is made and read_ becomes r + n, where r is what it was at the  *)
(* beginning.  Over indices set to nothing meanwhile that is n frames or    *)
(* more into what has been written since, or past it.                       *)
EndRead ==
    /\ pc["render"] = "reading"
    /\ \/ /\ ~torn /\ (apart \/ Len(hand) <= Len(ring))
          /\ ring' = IF apart THEN ring ELSE Drop(ring, Len(hand))
          /\ UNCHANGED <<apart, hand>>
       \/ /\ torn
          /\ hand' \in [1..Len(hand) -> 0..(Length - 1)]
          /\ \E m \in Len(hand)..Len(ring) : ring' = Drop(ring, m)
          /\ UNCHANGED apart
       \/ /\ torn \/ (~apart /\ Len(hand) > Len(ring))
          /\ hand' \in [1..Len(hand) -> 0..(Length - 1)]
          /\ ring' = <<>> /\ apart' = TRUE
    /\ torn' = FALSE
    /\ Goto("render", "commit")
    /\ UNCHANGED <<state, shake, wakes, drained, srcPos, place, call,
                   sawSeeking, want, due, landed, late, lost>>

(* The device has the buffer, the part the ring did not fill as silence. *)
RenderCommits ==
    /\ pc["render"] = "commit"
    /\ since' = Counted(want)
    /\ due' = DueAfter(hand)
    /\ woken' = (woken \/ hand # <<>>)
    /\ hand' = <<>>
    /\ Goto("render", "settle")
    /\ UNCHANGED <<state, shake, seekDone, renderTurned, renderWake, store,
                   playedBase, call, sawSeeking, want, landed, late, lost, torn>>

FinishingAnyway == drained /\ ~apart /\ ring = <<>>      \* mutant: while seeking, too

Finishing == ~sawSeeking /\ drained /\ ~apart /\ ring = <<>>

RenderSettles ==
    /\ pc["render"] = "settle"
    /\ running' = (running /\ ~Finishing)
    /\ woken' = (woken \/ Finishing)
    /\ Goto("render", "top")
    /\ UNCHANGED <<live, paused, failed, devRunning, shake, seekDone,
                   renderTurned, renderWake, store, place, call, turn, history>>

(* A sink call failed: fail() and leave the loop. *)
SinkCallFails ==
    \/ pc["render"] = "turn" /\ ~paused /\ ~devRunning /\ "start" \in Faults
    \/ pc["render"] = "wait" /\ Faults \cap {"wait", "acquire"} # {}
    \/ pc["render"] = "commit" /\ "commit" \in Faults

RenderFails ==
    /\ SinkCallFails
    /\ Fail
    /\ hand' = <<>>
    /\ lost' = (lost \/ hand # <<>>)
    /\ Goto("render", "done")
    /\ UNCHANGED <<live, paused, devRunning, shake, seekDone, renderTurned,
                   renderWake, store, place, call, sawSeeking, want, due,
                   landed, late, torn>>

Render ==
    \/ RenderTop \/ RenderExit \/ RenderParks \/ RenderNaps \/ RenderReady
    \/ RenderAcquires \/ RenderLooksForSeek \/ RenderSaysParked \/ BeginRead
    \/ EndRead \/ RenderCommits \/ RenderSettles \/ RenderFails

-----------------------------------------------------------------------------
Next == Calls \/ ControlStep \/ Decode \/ Render

Spec == Init /\ [][Next]_vars

(* The scheduler runs every thread that can go on, and the device keeps     *)
(* asking for buffers; nobody is obliged to call anything.                  *)
FairSpec ==
    /\ Spec
    /\ WF_vars(ControlStep) /\ WF_vars(Decode) /\ WF_vars(Render)

-----------------------------------------------------------------------------
Labels ==
    [control |-> {"idle", "floor", "launch", "answer", "asleep", "join"},
     decode  |-> {"none", "top", "look", "work", "asleep", "done"},
     render  |-> {"none", "top", "turn", "nap", "wait", "acquired", "looked",
                  "take", "reading", "commit", "settle", "done"}]

SeekLabels == {"claim", "count", "handshake", "turnwait", "reset", "move",
               "fill", "clear", "release"}

MaybeFrame == {None} \cup 0..Length

FlagsOK ==
    /\ running \in BOOLEAN /\ live \in BOOLEAN /\ paused \in BOOLEAN
    /\ failed \in BOOLEAN /\ devRunning \in BOOLEAN
    /\ seeking \in BOOLEAN /\ parked \in BOOLEAN
    /\ woken \in BOOLEAN /\ seekDone \in BOOLEAN
    /\ renderTurned \in BOOLEAN /\ renderWake \in BOOLEAN
    /\ apart \in BOOLEAN /\ drained \in BOOLEAN /\ sawSeeking \in BOOLEAN
    /\ late \in BOOLEAN /\ lost \in BOOLEAN /\ torn \in BOOLEAN

FramesOK ==
    /\ turned \in 0..2
    /\ request \in MaybeFrame /\ target \in MaybeFrame
    /\ asked \in MaybeFrame /\ landed \in MaybeFrame
    /\ ring \in Seq(0..(Length - 1)) /\ Len(ring) <= Capacity
    /\ apart => ring = <<>>
    /\ hand \in Seq(0..(Length - 1))
    /\ srcPos \in 0..Length /\ due \in 0..Length /\ playedBase \in 0..Length
    /\ since \in 0..MaxSince
    /\ want \in Buffers \cup {0}
    /\ calls \in 0..MaxCalls

PlacesOK ==
    /\ reply \in {"none", "moved", "refused"}
    /\ DOMAIN pc = Threads
    /\ pc["control"] \in Labels.control \cup SeekLabels
    /\ pc["decode"] \in Labels.decode \cup SeekLabels
    /\ pc["render"] \in Labels.render

TypeOK == FlagsOK /\ FramesOK /\ PlacesOK

(* ring.hpp:108-109, passthrough.hpp:255-258: from the reset until the seek *)
(* is over the render thread is not inside ring_.read, nor about to be, nor *)
(* has it frames of before the seek still to commit, and so no read is ever *)
(* torn and the indices never come apart.  It is so as long as no wait of a *)
(* seek has run out of time.                                                *)
SeekOwnsTheRing ==
    ~late =>
        /\ ~torn /\ ~apart
        /\ \A t \in {"control", "decode"} :
              pc[t] \in {"reset", "move", "fill", "clear", "release"} =>
                  /\ pc["render"] \notin {"take", "reading"}
                  /\ pc["render"] = "looked" => sawSeeking
                  /\ hand = <<>>

(* passthrough.hpp:138-144: the device is given the source's frames, every  *)
(* one, in order and once, from where the run began or the last seek        *)
(* landed, whatever pauses, underruns and seeks come in between: what is in *)
(* the render thread's hands and the ring is always the frames from the one *)
(* due up to where the source stands, except while a seek has emptied the   *)
(* ring and not yet moved the source.                                       *)
InHand == IF pc["render"] = "reading" THEN ring ELSE hand \o ring
Moving == pc["control"] = "move" \/ pc["decode"] = "move"
EveryFrameInOrder ==
    ~lost /\ ~late /\ ~Moving => InHand = Frames(due, srcPos - due)

(* passthrough.hpp:162-172: position_frames is never behind what the device *)
(* was given, so a run resumed from it repeats nothing.  (It runs ahead of  *)
(* it by the silence of underruns and seeks.)                               *)
Position == playedBase + since
PositionIsNotBehind ==
    ~lost /\ ~late /\ since < MaxSince => Position >= due

(* passthrough.hpp:138-172: what the device was given, and where a caller is *)
(* told it is, belong together.                                             *)
PlaysFromWhereItIs == EveryFrameInOrder /\ PositionIsNotBehind

(* passthrough.hpp:282-288: no wake is lost between the decode thread's     *)
(* look and its sleep.  It sleeps unwoken only while the run is on, no seek *)
(* is asked, and there is nothing to read or no room, unless the render     *)
(* thread has yet to commit the buffer that made the room and wakes it then.*)
WorkWakesTheDecoder ==
    pc["decode"] = "asleep" /\ ~woken =>
        /\ running
        /\ request = None
        /\ \/ drained
           \/ Room < Chunk
           \/ pc["render"] = "commit" /\ hand # <<>>

(* passthrough.cpp:306-309: a run that ends by itself and without an error  *)
(* has given the device every frame up to the end of the source.            *)
RunEndsAtTheEnd ==
    [][running /\ ~running' /\ ~failed' /\ pc'["control"] # "join"
         /\ ~lost /\ ~late => due = Length]_vars

Answering == pc["control"] \in {"answer", "asleep"}

(* passthrough.cpp:201-209: a run that is not paused gets to the end of the *)
(* source; neither thread sleeps for ever on the other.                     *)
PlaysOn == running /\ ~paused ~> ~running \/ paused

(* The run ended by itself while a caller slept for its seek.  Nobody has   *)
(* released a semaphore for that, and nobody is left who could: the decode  *)
(* thread is gone without having done the seek, or it sleeps itself for a   *)
(* turn of the render thread, which is gone.  What wakes them is the        *)
(* deadline of each wait, five seconds and half of one, and nothing else.   *)
Unheard ==
    /\ pc["control"] = "asleep" /\ ~seekDone /\ ~running
    /\ \/ pc["decode"] = "done"
       \/ pc["decode"] = "turnwait" /\ ~renderTurned /\ pc["render"] = "done"

(* passthrough.cpp:438-450: a seek is answered, paused or not, whether it   *)
(* is done or the run ends under it, except one that is Unheard.            *)
SeekIsAnswered == Answering ~> ~Answering \/ Unheard

(* passthrough.cpp:161-183: stop() joins both threads, wherever they are.   *)
StopReturns == pc["control"] = "join" ~> pc["control"] = "idle"

(* passthrough.cpp:161-183, 438-450: stop() always returns, and seek() in   *)
(* all but the one case in which the end of the run is told to nobody.      *)
CallsReturn == SeekIsAnswered /\ StopReturns

(* Of a Playback the graph keeps the run, the seek of the caller, and the   *)
(* frame the source has yet to be moved to.                                 *)
Run == IF ~live THEN "off" ELSE IF running THEN "on" ELSE "over"
Asking == IF ~Answering THEN "none" ELSE IF landed = None THEN "asked" ELSE "landed"
Goal == IF landed = None THEN asked ELSE None

(* passthrough.hpp:130-160: the graph is a Playback, as long as the source  *)
(* can seek and no wait of a seek runs out of time.                         *)
Abstract == INSTANCE Playback WITH
    Most <- Capacity, run <- Run, next <- due, seek <- Asking, goal <- Goal,
    left <- late
IsPlayback == Abstract!Spec
=============================================================================
