--------------------------- MODULE ProcessedGraph ---------------------------
(***************************************************************************)
(* mp::ProcessedGraph (processed.cpp) with its Processor (processor.cpp)   *)
(* and DspChain (dsp.cpp): what the source gives goes through a chain of   *)
(* stages, each of which may hold frames back, before it is in the ring,   *)
(* and at the end of the source the stages are drained one by one.         *)
(*                                                                         *)
(* Its three threads, its handshake and its waits are those of the other   *)
(* graph, line for line, so its steps are PassthroughGraph's wherever no   *)
(* sample is touched, with Chunk the frames of pump_bytes_.                *)
(*                                                                         *)
(* Everything is numbered in wire frames: a source frame is Ratio of them, *)
(* and is known by the first.  A stage is a delay: it gives back what it   *)
(* was given once it holds more than its fill.                             *)
(***************************************************************************)
EXTENDS PassthroughGraph

CONSTANTS
    Ratio,       \* wire frames of a source frame: wire_rate / source_rate
    Holds,       \* the chain: how many source frames each stage holds back
    FlushMayFail \* whether a stage may refuse to be drained

ASSUME ChainAssumption ==
    /\ Ratio \in Nat \ {0}
    /\ Holds \in Seq(Nat)
    /\ FlushMayFail \in BOOLEAN
    /\ \A n \in {Length, Chunk} \cup Begins \cup Targets : n % Ratio = 0

VARIABLES
    held,        \* what each stage holds, in source frames
    flushStage,  \* flush_stage_ + 1: the stage being drained
    flushed      \* Processor's flushed_

chain == <<held, flushStage, flushed>>
pvars == <<vars, chain>>

Stages == 1..Len(Holds)

(* source frames as the wire has them *)
Wire(s) == [i \in 1..(Ratio * Len(s)) |->
              s[1 + ((i - 1) \div Ratio)] + ((i - 1) % Ratio)]

-----------------------------------------------------------------------------
(* DspChain::push: a block through the stages from here on. *)
Through(from, given) ==
    LET after[i \in (from - 1)..Len(Holds)] ==
          IF i = from - 1 THEN [out |-> given, held |-> held]
          ELSE LET had  == after[i - 1]
                   all  == had.held[i] \o had.out
                   some == IF Len(all) > Holds[i] THEN Len(all) - Holds[i] ELSE 0
               IN [out  |-> SubSeq(all, 1, some),
                   held |-> [had.held EXCEPT ![i] = Drop(all, some)]]
    IN after[Len(Holds)]

(* Processor::reset and DspChain::reset: every stage forgets what it holds, *)
(* and the drain begins anew.                                               *)
ChainKeepsItsEnd ==      \* mutant: flushed_ is not put back
    /\ held' = [i \in Stages |-> <<>>]
    /\ flushStage' = 1
    /\ UNCHANGED flushed

ChainResets ==
    /\ held' = [i \in Stages |-> <<>>]
    /\ flushStage' = 1
    /\ flushed' = FALSE

(* pump_once() with something to read: the frames go through the chain, and *)
(* what comes out of it, which may be nothing, into the ring.               *)
ChainRuns ==
    \E got \in 1..Least(Chunk \div Ratio, (Length - srcPos) \div Ratio) :
        LET read == [i \in 1..got |-> srcPos + Ratio * (i - 1)]
            gone == Through(1, read)
        IN /\ srcPos' = srcPos + Ratio * got
           /\ Puts(Wire(gone.out))
           /\ held' = gone.held
    /\ UNCHANGED <<drained, flushStage, flushed, running, failed, woken, lost>>

(* The chain fails a block: the run ends on the spot. *)
ChainFails ==
    /\ PumpFails
    /\ UNCHANGED chain

(* pump_once() at the end of the source, once the chain has nothing more.   *)
FlushIsOver ==
    /\ srcPos = Length
    /\ \/ flushed /\ UNCHANGED <<flushStage, lost>>
       \/ /\ ~flushed /\ Holds = <<>>
          /\ UNCHANGED <<flushStage, lost>>
       \/ /\ ~flushed /\ flushStage = Len(Holds) /\ held[flushStage] = <<>>
          /\ flushStage' = flushStage + 1
          /\ UNCHANGED lost
       \/ /\ ~flushed /\ Holds # <<>> /\ FlushMayFail
          /\ lost' = TRUE
          /\ UNCHANGED flushStage
    /\ flushed' = TRUE
    /\ drained' = TRUE
    /\ UNCHANGED <<ring, apart, srcPos, held, running, failed, woken>>

(* One round of the drain: the stage at the head is empty and the next one  *)
(* becomes the head, or a block of what it holds goes through the rest.     *)
NextStage ==
    /\ srcPos = Length /\ ~flushed
    /\ flushStage < Len(Holds) /\ held[flushStage] = <<>>
    /\ flushStage' = flushStage + 1
    /\ UNCHANGED <<ring, held, flushed, store, running, failed, woken, lost>>

DrainStagePast ==      \* mutant: the block does not go through the stages after
    /\ srcPos = Length /\ ~flushed /\ Holds # <<>>
    /\ \E some \in 1..Least(Chunk \div Ratio, Len(held[flushStage])) :
         /\ Puts(Wire(SubSeq(held[flushStage], 1, some)))
         /\ held' = [held EXCEPT ![flushStage] = Drop(@, some)]
    /\ UNCHANGED <<flushStage, flushed, drained, srcPos, running, failed,
                   woken, lost>>

DrainStage ==
    /\ srcPos = Length /\ ~flushed /\ Holds # <<>>
    /\ \E some \in 1..Least(Chunk \div Ratio, Len(held[flushStage])) :
         LET gone == Through(flushStage + 1, SubSeq(held[flushStage], 1, some))
         IN /\ Puts(Wire(gone.out))
            /\ held' = [gone.held EXCEPT ![flushStage] = Drop(@, some)]
    /\ UNCHANGED <<flushStage, flushed, drained, srcPos, running, failed,
                   woken, lost>>

PumpOnce ==
    \/ ChainRuns \/ ChainFails \/ FlushIsOver \/ NextStage \/ DrainStage

-----------------------------------------------------------------------------
(* The steps that touch samples: fill_to_floor, start, perform_seek and the *)
(* pump of decode_loop.                                                     *)

FillToFloor(t, here, after) ==
    /\ pc[t] = here
    /\ \/ /\ Short /\ Room >= Chunk
          /\ PumpOnce
          /\ Goto(t, IF drained' THEN after ELSE here)
       \/ /\ ~Short \/ Room < Chunk
          /\ Goto(t, after)
          /\ UNCHANGED <<store, chain, running, failed, woken, lost>>
    /\ UNCHANGED <<live, paused, devRunning, shake, seekDone, renderTurned,
                   renderWake, place, call, turn, due, landed, late, torn>>

(* A second start drops what the ring and the chain still had. *)
StartOver ==
    /\ Call
    /\ ~running /\ ~live
    /\ ring' = <<>> /\ apart' = FALSE
    /\ ChainResets
    /\ drained' = FALSE
    /\ failed' = FALSE
    /\ lost' = (lost \/ ring # <<>> \/ \E i \in Stages : held[i] # <<>>)
    /\ Goto("control", "floor")
    /\ UNCHANGED <<running, live, paused, devRunning, shake, wakes, srcPos,
                   place, asked, reply, target, turn, due, landed, late, torn>>

MoveAndForget(t) ==
    /\ MoveSource(t)
    /\ srcPos' % Ratio = 0
    /\ ChainResets

perform_seek(t) ==
    \/ /\ \/ Claim(t) \/ CountTurns(t) \/ Handshake(t) \/ AwaitTurn(t)
          \/ ResetRing(t) \/ ClearRequest(t) \/ Release(t)
       /\ UNCHANGED chain
    \/ MoveAndForget(t)
    \/ FillToFloor(t, "fill", "clear")

DecodePumps ==
    /\ pc["decode"] = "work"
    /\ ~drained /\ Room >= Chunk
    /\ PumpOnce
    /\ Goto("decode", "top")
    /\ UNCHANGED <<live, paused, devRunning, shake, seekDone, renderTurned,
                   renderWake, place, call, turn, due, landed, late, torn>>

-----------------------------------------------------------------------------

position_frames == (playedBase \div Ratio) + (since \div Ratio)

-----------------------------------------------------------------------------
(* The threads.  What is not above is the other graph's, and leaves the     *)
(* chain alone.                                                             *)

ProcInit ==
    /\ Init
    /\ held = [i \in Stages |-> <<>>]
    /\ flushStage = 1
    /\ flushed = FALSE

pause == Pause /\ UNCHANGED chain
resume == Resume /\ UNCHANGED chain
stop == Stop /\ UNCHANGED chain

seek ==
    /\ SeekRefused \/ \E frame \in Targets : SeekHere(frame) \/ SeekAsk(frame)
    /\ UNCHANGED chain

ProcCalls == StartOver \/ pause \/ resume \/ stop \/ seek

StartGoesOn ==
    \/ FillToFloor("control", "floor", "launch")
    \/ Launch /\ UNCHANGED chain

StopGoesOn == Join /\ UNCHANGED chain

SeekGoesOn ==
    \/ perform_seek("control")
    \/ /\ SeekReturns \/ SeekSleeps \/ SeekLooksAgain \/ SeekTimesOut
       /\ UNCHANGED chain

ProcControl == StartGoesOn \/ StopGoesOn \/ SeekGoesOn

decode_loop ==
    \/ /\ \/ DecodeTop \/ DecodeExit \/ DecodeSeek \/ DecodeGoesOn
          \/ DecodeSleep \/ DecodeWakes
       /\ UNCHANGED chain
    \/ DecodePumps
    \/ perform_seek("decode")

render_loop == Render /\ UNCHANGED chain

ProcNext == ProcCalls \/ ProcControl \/ decode_loop \/ render_loop

(* As for the other graph: every thread that can go on is run.              *)
ProcSpec ==
    /\ ProcInit /\ [][ProcNext]_pvars
    /\ WF_pvars(ProcControl) /\ WF_pvars(decode_loop) /\ WF_pvars(render_loop)

-----------------------------------------------------------------------------
(* What the chain holds, the oldest first: the last stage's is the oldest.  *)
InTheChain ==
    LET from[i \in 0..Len(Holds)] ==
          IF i = 0 THEN <<>> ELSE held[i] \o from[i - 1]
    IN from[Len(Holds)]

(* processed.cpp:59-89, dsp.cpp:358-380: no frame is dropped, doubled or    *)
(* overtaken on its way through the stages, nor while they are drained one  *)
(* by one, nor does one of before a seek come out after it: what the render *)
(* thread, the ring and the chain hold is always what lies between the      *)
(* frame due and where the source stands.                                   *)
ChainKeepsOrder ==
    /\ ~lost /\ ~late /\ ~Moving
    => InHand \o Wire(InTheChain) = Frames(due, srcPos - due)

(* processed.cpp:377-390: the position, counted in device frames and scaled *)
(* to the source's, is never behind what the device was given.              *)
PlaceIsNotBehind ==
    ~lost /\ ~late /\ since < MaxSince => position_frames >= due \div Ratio

(* What is played is the source's, and it is where the position says.       *)
PlaysWhatTheChainGives == ChainKeepsOrder /\ PlaceIsNotBehind

(* processed.cpp:64-75, 191-216, 305-341: left alone, a run comes to its    *)
(* end, and one that ends by itself and without an error has played what    *)
(* the stages held back too, to the last frame, also after a seek away from *)
(* an end that had been found already.                                      *)
TailIsPlayed ==
    [][running /\ ~running' /\ ~failed' /\ pc'["control"] # "join"
         /\ ~lost /\ ~late => due = Length /\ InTheChain = <<>>]_pvars

ComesToItsEnd == TailIsPlayed /\ PlaysOn
=============================================================================
