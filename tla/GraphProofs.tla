---------------------------- MODULE GraphProofs ----------------------------
(***************************************************************************)
(* The two graphs, for every source, ring, chunk, set of faults and bound  *)
(* of calls, and the second for every chain of stages and rate.            *)
(*                                                                         *)
(* PassthroughGraph: its variables keep their types, no wake of the decode *)
(* thread is lost, a seek has the ring to itself, the device is given the  *)
(* frames in order and a run that ends by itself has given all of them;    *)
(* and where nothing fails the graph is a Playback.                        *)
(*                                                                         *)
(* SeekOwnsTheRing rests on a count: the render thread raises turned as it *)
(* begins a turn, and a turn begun under seeking_ does not take from the   *)
(* ring (TurnInv).  A seek that leaves its handshake without that count    *)
(* found the run over; that the render thread was then out of the ring is  *)
(* because nobody but the render thread ends a run while the caller of the *)
(* seek is still waiting for its answer (WaitInv).                         *)
(*                                                                         *)
(* A seek whose caller is gone, because the run ended first, has nobody to *)
(* hold off the next stop(), and its handshake may find the render thread  *)
(* in the ring.  From there on nothing is claimed of the ring but its type *)
(* (late, in RingInv and Sound).                                           *)
(*                                                                         *)
(* ProcessedGraph: the same of its threads, and what the chain adds.  What *)
(* a turn of the pump puts in the ring is what the chain gives, so nothing *)
(* can be said of the ring without the stages: each gives on, in front of  *)
(* what it keeps, what it held in front of what it was given               *)
(* (StageGives), hence so do all of them (ChainConserves), hence the ring  *)
(* and the chain together are what they were with the block read behind    *)
(* them (PumpOnceGives).  The inductive invariant splits the frames in     *)
(* flight at the one where the ring ends and the chain begins              *)
(* (ChainOrderInv), so that what is proved of the other graph's ring up to *)
(* any frame e (OrderedTo) serves here.                                    *)
(*                                                                         *)
(* What is shown of the first graph uses GraphAssumption alone.            *)
(***************************************************************************)
EXTENDS ProcessedGraph, SequenceTheorems, WellFoundedInduction, TLAPS

(* A thread in perform_seek has somewhere to move to.                       *)
TargetInv == \A t \in {"control", "decode"} : pc[t] \in SeekLabels => target # None

(* The threads exist while live_, and the control thread does their work    *)
(* only while they do not.  The render thread has frames in its hands from  *)
(* the read to the commit.                                                  *)
ThreadInv ==
    /\ ~live => pc["decode"] = "none" /\ pc["render"] = "none"
    /\ pc["control"] \in SeekLabels \cup {"floor", "launch"} => ~live
    /\ pc["render"] \notin {"reading", "commit"} => hand = <<>>
    /\ pc["render"] = "reading" => hand # <<>>

Claimed == SeekLabels \ {"claim"}
Counting == Claimed \ {"count"}
Owning == {"reset", "move", "fill", "clear", "release"}
Gone == {"top", "done"}

TurnInv ==
    /\ pc["decode"] \in Claimed => seeking
    /\ pc["decode"] \in Counting /\ turned >= 1 =>
         /\ pc["render"] \notin {"take", "reading"}
         /\ pc["render"] = "looked" => sawSeeking
         /\ hand = <<>>

WaitInv ==
    ~late =>
      /\ request # None => Answering
      /\ pc["decode"] \in SeekLabels \ {"release"} => request # None
      /\ pc["decode"] \in SeekLabels \ Owning /\ ~running =>
           pc["render"] \in Gone
      /\ pc["decode"] \in Owning => turned >= 1 \/ (~running /\ pc["render"] \in Gone)

(* About to sleep: what was read before, the request and the end of the     *)
(* run, has not changed unwoken.                                            *)
WakeInv ==
    /\ pc["decode"] = "work" /\ ~woken => running /\ request = None
    /\ WorkWakesTheDecoder

(* Nothing fails, and no wait of a seek runs out of time.                   *)
Faultless == Faults = {} /\ ~SeekMayFail /\ Deadlines = {}

(* A source that is out has nothing more to give, unless the source was     *)
(* left somewhere unknown.                                                  *)
Ending == drained /\ (~lost \/ Faultless) => srcPos = Length

RunInv ==
    /\ running => live
    /\ pc["control"] = "join" => ~running
    /\ Ending

InTurn == {"looked", "take", "reading", "commit", "settle"}

(* A turn begun under seeking_ has seen it.                                 *)
SeenInv ==
    pc["decode"] \in Counting /\ turned >= 1 /\ pc["render"] \in InTurn => sawSeeking

Before == {"claim", "count", "handshake", "turnwait", "reset", "move"}
Reading == pc["render"] = "reading"

(* The two indices of the ring belong together, and what is being read is   *)
(* still there, until a wait of a seek has run out.                         *)
RingInv == ~late => ~torn /\ ~apart /\ (Reading => Len(hand) <= Len(ring))

(* No wait of a seek ran out, and no frame was dropped.                     *)
Sound == ~late /\ (~lost \/ Faultless)

(* What is in the render thread's hands and the ring are the frames from    *)
(* the one due up to the one before e.                                      *)
OrderedTo(e) ==
    /\ ~torn /\ ~apart
    /\ Moving => ring = <<>> /\ hand = <<>>
    /\ Reading => Len(hand) <= Len(ring) /\ hand = SubSeq(ring, 1, Len(hand))
    /\ ~Moving => due <= e /\ InHand = Frames(due, e - due)

(* They end where the source stands.                                        *)
Ordered == OrderedTo(srcPos)
OrderInv == Sound => Ordered

HandInv ==
    /\ ~late => Len(hand) <= Capacity
    /\ Len(hand) <= want

(* What the two threads know of the seek that is asked.                     *)
AskInv ==
    Faultless =>
      /\ Answering => live
      /\ request \in Targets \cup {None} /\ target \in Targets \cup {None}
      /\ request # None => asked # None
      /\ \A t \in {"control", "decode"} :
           pc[t] \in Before => landed = None /\ asked # None /\ (~late => target = asked)
      /\ ~late /\ request # None => request = asked
      /\ request # None /\ pc["control"] \notin {"fill", "clear"}
                        /\ pc["decode"] \notin {"fill", "clear"} => landed = None
      /\ pc["decode"] \in {"fill", "clear"} /\ ~late => landed # None
      /\ Answering /\ ~late /\ request = None => landed # None

Typed == FlagsOK /\ FramesOK /\ PlacesOK /\ TargetInv
Inv ==
    /\ Typed /\ ThreadInv /\ TurnInv /\ WaitInv /\ WakeInv
    /\ RunInv /\ SeenInv /\ RingInv /\ OrderInv /\ HandInv /\ PositionIsNotBehind
    /\ AskInv

-----------------------------------------------------------------------------
(* Sequences of frames.                                                     *)

LEMMA AppendTyped ==
  ASSUME NEW S, NEW s \in Seq(S), NEW u \in Seq(S)
  PROVE  s \o u \in Seq(S) /\ Len(s \o u) = Len(s) + Len(u)
  OBVIOUS

LEMMA DropTyped ==
  ASSUME NEW S, NEW s \in Seq(S), NEW n \in 0..Len(s)
  PROVE  Drop(s, n) \in Seq(S) /\ Len(Drop(s, n)) = Len(s) - n
  BY DEF Drop

LEMMA TakeTyped ==
  ASSUME NEW S, NEW s \in Seq(S), NEW n \in 0..Len(s)
  PROVE  SubSeq(s, 1, n) \in Seq(S) /\ Len(SubSeq(s, 1, n)) = n
  OBVIOUS

LEMMA TableTyped ==
  ASSUME NEW S, NEW n \in Nat, NEW s \in [1..n -> S]
  PROVE  s \in Seq(S) /\ Len(s) = n
<1>1. s \in UNION {[1..m -> S] : m \in Nat}
  OBVIOUS
<1>2. s \in Seq(S)
  BY <1>1, SeqDef
<1> QED
  BY <1>2

LEMMA FramesTyped ==
  ASSUME NEW from \in Nat, NEW n \in Nat, Length \in Nat, from + n <= Length
  PROVE  Frames(from, n) \in Seq(0..(Length - 1)) /\ Len(Frames(from, n)) = n
  BY DEF Frames

(* The frame after the last one given is at most the end of the source.     *)
LEMMA DueTyped ==
  ASSUME TypeOK, NEW given \in Seq(0..(Length - 1))
  PROVE  DueAfter(given) \in 0..Length
  BY GraphAssumption DEF DueAfter, TypeOK, FramesOK, GraphAssumption

-----------------------------------------------------------------------------
(* Types. *)

(* What is written, together with what was there, is never more than fits,  *)
(* and behind an index that is past the writer's it is not there at all.    *)
RingTyped ==
    /\ ring' \in Seq(0..(Length - 1)) /\ Len(ring') <= Capacity
    /\ apart' \in BOOLEAN /\ (apart' => ring' = <<>>)

LEMMA PutsTyped ==
  ASSUME TypeOK, NEW x \in Seq(0..(Length - 1)), Len(x) <= Room, Puts(x)
  PROVE  RingTyped
<1>1. /\ ring \in Seq(0..(Length - 1)) /\ Len(ring) <= Capacity
      /\ apart \in BOOLEAN /\ (apart => ring = <<>>)
      /\ Capacity \in Nat /\ Len(x) \in Nat /\ Len(ring) \in Nat
  BY GraphAssumption DEF TypeOK, FlagsOK, FramesOK, GraphAssumption
<1>2. CASE ~apart /\ ring' = ring \o x /\ UNCHANGED apart
  <2>1. ring' \in Seq(0..(Length - 1)) /\ Len(ring') = Len(ring) + Len(x)
    BY <1>1, <1>2, AppendTyped
  <2>2. Room = Capacity - Len(ring)
    BY <1>2 DEF Room
  <2> QED
    BY <1>1, <1>2, <2>1, <2>2 DEF RingTyped
<1>3. CASE apart /\ UNCHANGED <<ring, apart>>
  BY <1>1, <1>3 DEF RingTyped
<1>4. CASE apart /\ apart' = FALSE /\ \E n \in 1..Len(x) : ring' = Drop(x, n)
  <2>1. PICK n \in 1..Len(x) : ring' = Drop(x, n)
    BY <1>4
  <2>2. n \in 0..Len(x) /\ n >= 1
    BY <1>1
  <2>3. ring' \in Seq(0..(Length - 1)) /\ Len(ring') = Len(x) - n
    BY <2>1, <2>2, DropTyped
  <2>4. Room = Capacity + 1
    BY <1>4 DEF Room
  <2>5. Len(ring') <= Capacity
    BY <1>1, <2>2, <2>3, <2>4
  <2> QED
    BY <1>4, <2>3, <2>5 DEF RingTyped
<1> QED
  BY <1>2, <1>3, <1>4 DEF Puts

LEMMA PumpTyped ==
  ASSUME TypeOK, Pump, Room >= Chunk
  PROVE  /\ RingTyped
         /\ srcPos' \in 0..Length
         /\ drained' \in BOOLEAN /\ running' \in BOOLEAN /\ failed' \in BOOLEAN
         /\ woken' \in BOOLEAN /\ lost' \in BOOLEAN
<1>1. CASE PumpsFrames
  <2>1. PICK got \in 1..Least(Chunk, Length - srcPos) :
           /\ Puts(Frames(srcPos, got))
           /\ srcPos' = srcPos + got
    BY <1>1 DEF PumpsFrames, PumpFrames
  <2>2. got \in Nat /\ got <= Chunk /\ srcPos + got <= Length
    BY GraphAssumption DEF GraphAssumption, TypeOK, FramesOK, Least
  <2>3. Frames(srcPos, got) \in Seq(0..(Length - 1)) /\ Len(Frames(srcPos, got)) = got
    <3>1. srcPos \in Nat /\ Length \in Nat
      BY GraphAssumption DEF GraphAssumption, TypeOK, FramesOK, FlagsOK
    <3> QED
      BY <2>2, <3>1, FramesTyped
  <2>4. got <= Room
    BY <2>2, GraphAssumption DEF Room, GraphAssumption, TypeOK, FramesOK, FlagsOK
  <2>5. RingTyped
    BY <2>1, <2>3, <2>4, PutsTyped
  <2> QED
    BY <1>1, <2>1, <2>2, <2>5, GraphAssumption
    DEF PumpsFrames, TypeOK, FramesOK, FlagsOK, GraphAssumption
<1>2. CASE PumpsNothing
  BY <1>2 DEF PumpsNothing, RingTyped, TypeOK, FramesOK, FlagsOK
<1>3. CASE PumpFails
  <2>1. srcPos' \in 0..Length
    BY <1>3, GraphAssumption DEF PumpFails, TypeOK, FramesOK, GraphAssumption, Least
  <2> QED
    BY <1>3, <2>1 DEF PumpFails, Fail, RingTyped, TypeOK, FramesOK, FlagsOK
<1> QED
  BY <1>1, <1>2, <1>3 DEF Pump

LEMMA FillTyped ==
  ASSUME Typed, NEW t \in {"control", "decode"}, NEW here, NEW after,
         Fill(t, here, after)
  PROVE  /\ RingTyped
         /\ srcPos' \in 0..Length
         /\ drained' \in BOOLEAN /\ running' \in BOOLEAN /\ failed' \in BOOLEAN
         /\ woken' \in BOOLEAN /\ lost' \in BOOLEAN
<1>1. CASE Short /\ Room >= Chunk /\ Pump
  BY <1>1, PumpTyped DEF Typed, TypeOK
<1>2. CASE UNCHANGED <<store, running, failed, woken, lost>>
  BY <1>2 DEF Typed, RingTyped, FlagsOK, FramesOK, store
<1> QED
  BY <1>1, <1>2 DEF Fill

LEMMA TypedIsKept ==
  ASSUME Typed, [Next]_vars
  PROVE  Typed'
<1> USE DEF Typed, state, shake, wakes, store, place, call, turn, history
<1>1. CASE Start
  <2>1. FlagsOK'
    BY <1>1, ZenonT(40) DEF FlagsOK, Start, Call
  <2>2. FramesOK'
    BY <1>1, GraphAssumption DEF FramesOK, MaybeFrame, None, GraphAssumption,
       Start, Call
  <2>3. PlacesOK' /\ TargetInv'
    BY <1>1, GraphAssumption DEF PlacesOK, TargetInv, Labels, SeekLabels,
       MaybeFrame, None, Threads, Goto, FramesOK, Start, Call
  <2> QED
    BY <2>1, <2>2, <2>3
<1>2. CASE Pause
  BY <1>2, GraphAssumption DEF Pause, Call, GraphAssumption, FlagsOK,
     FramesOK, PlacesOK, TargetInv, SeekLabels, Labels, MaybeFrame, None,
     Threads, Goto
<1>3. CASE Resume
  <2>1. FlagsOK'
    <3>1. paused' \in BOOLEAN
      BY <1>3 DEF Resume
    <3> QED
      BY <1>3, <3>1 DEF FlagsOK, Resume, Call
  <2>2. FramesOK'
    BY <1>3, GraphAssumption DEF FramesOK, MaybeFrame, None, GraphAssumption,
       Resume, Call
  <2>3. PlacesOK' /\ TargetInv'
    BY <1>3, GraphAssumption DEF PlacesOK, TargetInv, Labels, SeekLabels,
       MaybeFrame, None, Threads, Goto, FramesOK, Resume, Call
  <2> QED
    BY <2>1, <2>2, <2>3
<1>4. CASE Stop
  <2>1. FlagsOK'
    <3>1. /\ running' = FALSE /\ woken' = TRUE
          /\ renderWake' = TRUE /\ renderTurned' = TRUE /\ seekDone' = TRUE
          /\ UNCHANGED <<live, paused, failed, devRunning, seeking, parked, apart,
                         drained, sawSeeking, late, lost, torn>>
      BY <1>4 DEF Stop
    <3>2. /\ running' \in BOOLEAN /\ live' \in BOOLEAN /\ paused' \in BOOLEAN
          /\ failed' \in BOOLEAN /\ devRunning' \in BOOLEAN /\ seeking' \in BOOLEAN
      BY <3>1 DEF FlagsOK
    <3>3. /\ parked' \in BOOLEAN /\ woken' \in BOOLEAN /\ seekDone' \in BOOLEAN
          /\ renderTurned' \in BOOLEAN /\ renderWake' \in BOOLEAN
          /\ apart' \in BOOLEAN /\ drained' \in BOOLEAN
      BY <3>1 DEF FlagsOK
    <3>4. /\ sawSeeking' \in BOOLEAN /\ late' \in BOOLEAN /\ lost' \in BOOLEAN
          /\ torn' \in BOOLEAN
      BY <3>1 DEF FlagsOK
    <3> QED
      BY <3>2, <3>3, <3>4 DEF FlagsOK
  <2>2. FramesOK'
    BY <1>4, GraphAssumption DEF FramesOK, MaybeFrame, None, GraphAssumption, Stop,
       Call
  <2>3. PlacesOK' /\ TargetInv'
    BY <1>4, GraphAssumption DEF PlacesOK, TargetInv, Labels, SeekLabels,
       MaybeFrame, None, Threads, Goto, FramesOK, Stop, Call
  <2> QED
    BY <2>1, <2>2, <2>3
<1>5. CASE SeekRefused
  BY <1>5, GraphAssumption DEF SeekRefused, Call, GraphAssumption, FlagsOK,
     FramesOK, PlacesOK, TargetInv, SeekLabels, Labels, MaybeFrame, None,
     Threads, Goto
<1>6. ASSUME NEW frame \in Targets, SeekHere(frame) PROVE Typed'
  BY <1>6, GraphAssumption DEF SeekHere, Call, GraphAssumption, FlagsOK,
     FramesOK, PlacesOK, TargetInv, SeekLabels, Labels, MaybeFrame, None,
     Threads, Goto
<1>7. ASSUME NEW frame \in Targets, SeekAsk(frame) PROVE Typed'
  BY <1>7, GraphAssumption DEF SeekAsk, Call, GraphAssumption, FlagsOK,
     FramesOK, PlacesOK, TargetInv, SeekLabels, Labels, MaybeFrame, None,
     Threads, Goto
<1>8. CASE Fill("control", "floor", "launch")
  <2>1. FlagsOK'
    <3>1. /\ running' \in BOOLEAN /\ failed' \in BOOLEAN /\ woken' \in BOOLEAN
          /\ apart' \in BOOLEAN /\ drained' \in BOOLEAN /\ lost' \in BOOLEAN
      BY <1>8, FillTyped DEF RingTyped
    <3> QED
      BY <1>8, <3>1 DEF FlagsOK, Fill
  <2>2. FramesOK'
    <3>1. RingTyped /\ srcPos' \in 0..Length
      BY <1>8, FillTyped
    <3> QED
      BY <1>8, <3>1 DEF RingTyped, FramesOK, MaybeFrame, Fill
  <2>3. PlacesOK' /\ TargetInv'
    BY <1>8, GraphAssumption DEF PlacesOK, TargetInv, Labels, SeekLabels,
       MaybeFrame, None, Threads, Goto, FramesOK, Fill
  <2> QED
    BY <2>1, <2>2, <2>3
<1>9. CASE Launch
  <2>1. FlagsOK'
    <3>1. running' \in BOOLEAN /\ live' \in BOOLEAN /\ devRunning' \in BOOLEAN /\ lost' \in BOOLEAN
      BY <1>9 DEF Launch, FirstBuffer, FlagsOK, state
    <3> QED
      BY <1>9, <3>1 DEF FlagsOK, Launch, FirstBuffer
  <2>2. FramesOK'
    <3>1. /\ ring' \in Seq(0..(Length - 1)) /\ Len(ring') <= Len(ring)
          /\ since' \in 0..MaxSince /\ due' \in 0..Length
      <4>1. PICK size \in Buffers :
               \/ UNCHANGED <<ring, since, due>>
               \/ /\ ring' = Drop(ring, Least(size, Len(ring)))
                  /\ UNCHANGED <<since, due>>
               \/ FirstBuffer(size)
        BY <1>9 DEF Launch
      <4>2. /\ ring \in Seq(0..(Length - 1))
            /\ Least(size, Len(ring)) \in 0..Len(ring)
        BY GraphAssumption DEF GraphAssumption, FramesOK, Least
      <4>3. /\ Drop(ring, Least(size, Len(ring))) \in Seq(0..(Length - 1))
            /\ Len(Drop(ring, Least(size, Len(ring)))) = Len(ring) - Least(size, Len(ring))
            /\ SubSeq(ring, 1, Least(size, Len(ring))) \in Seq(0..(Length - 1))
        BY <4>2, DropTyped, TakeTyped
      <4>4. DueAfter(SubSeq(ring, 1, Least(size, Len(ring)))) \in 0..Length
        BY <4>3, DueTyped DEF Typed, TypeOK
      <4>5. Counted(size) \in 0..MaxSince
        BY GraphAssumption DEF GraphAssumption, FramesOK, Counted, Least
      <4>6. Len(ring) - Least(size, Len(ring)) <= Len(ring)
        BY <4>2, GraphAssumption DEF GraphAssumption, FramesOK
      <4> QED
        BY <4>1, <4>3, <4>4, <4>5, <4>6 DEF FirstBuffer, FramesOK
    <3>2. Len(ring') <= Capacity /\ (apart' => ring' = <<>>)
      <4>1. apart' = apart
        BY <1>9 DEF Launch
      <4>2. Len(ring) \in Nat /\ Len(ring') \in Nat /\ Len(ring) <= Capacity
            /\ Capacity \in Nat /\ (apart => Len(ring) = 0)
        BY <3>1, GraphAssumption DEF FramesOK, GraphAssumption
      <4>3. Len(ring') = 0 => ring' = <<>>
        BY <3>1
      <4> QED
        BY <3>1, <4>1, <4>2, <4>3
    <3> QED
      BY <1>9, <3>1, <3>2 DEF FramesOK, MaybeFrame, Launch
  <2>3. PlacesOK' /\ TargetInv'
    BY <1>9, GraphAssumption, ZenonT(40) DEF PlacesOK, TargetInv, Labels, SeekLabels,
       MaybeFrame, None, Threads, Goto, FramesOK, Launch, FirstBuffer
  <2> QED
    BY <2>1, <2>2, <2>3
<1>10. CASE Join
  <2>1. FlagsOK'
    <3>1. live' \in BOOLEAN
      BY <1>10 DEF Join
    <3> QED
      BY <1>10, <3>1 DEF FlagsOK, Join
  <2>2. FramesOK'
    BY <1>10, GraphAssumption DEF FramesOK, MaybeFrame, None, GraphAssumption, Join
  <2>3. PlacesOK' /\ TargetInv'
    BY <1>10, GraphAssumption DEF PlacesOK, TargetInv, Labels, SeekLabels,
       MaybeFrame, None, Threads, Goto, FramesOK, Join
  <2> QED
    BY <2>1, <2>2, <2>3
<1>11. CASE SeekReturns
  BY <1>11, GraphAssumption DEF SeekReturns, SeekIsDone, GraphAssumption,
     FlagsOK, FramesOK, PlacesOK, TargetInv, SeekLabels, Labels, MaybeFrame,
     None, Threads, Goto
<1>12. CASE SeekSleeps
  BY <1>12, GraphAssumption DEF SeekSleeps, SeekIsDone, GraphAssumption,
     FlagsOK, FramesOK, PlacesOK, TargetInv, SeekLabels, Labels, MaybeFrame,
     None, Threads, Goto
<1>13. CASE SeekLooksAgain
  <2>1. FlagsOK'
    <3>1. seekDone' \in BOOLEAN
      BY <1>13 DEF SeekLooksAgain
    <3> QED
      BY <1>13, <3>1 DEF FlagsOK, SeekLooksAgain
  <2>2. FramesOK'
    BY <1>13, GraphAssumption DEF FramesOK, MaybeFrame, None, GraphAssumption,
       SeekLooksAgain
  <2>3. PlacesOK' /\ TargetInv'
    BY <1>13, GraphAssumption DEF PlacesOK, TargetInv, Labels, SeekLabels,
       MaybeFrame, None, Threads, Goto, FramesOK, SeekLooksAgain
  <2> QED
    BY <2>1, <2>2, <2>3
<1>14. CASE SeekTimesOut
  BY <1>14, GraphAssumption DEF SeekTimesOut, SeekIsDone, GraphAssumption,
     FlagsOK, FramesOK, PlacesOK, TargetInv, SeekLabels, Labels, MaybeFrame,
     None, Threads, Goto
<1>15. ASSUME NEW t \in {"control", "decode"}, Claim(t) PROVE Typed'
  BY <1>15, GraphAssumption DEF Claim, GraphAssumption, FlagsOK, FramesOK,
     PlacesOK, TargetInv, SeekLabels, Labels, MaybeFrame, None, Threads, Goto
<1>16. ASSUME NEW t \in {"control", "decode"}, CountTurns(t) PROVE Typed'
  BY <1>16, GraphAssumption DEF CountTurns, GraphAssumption, FlagsOK,
     FramesOK, PlacesOK, TargetInv, SeekLabels, Labels, MaybeFrame, None,
     Threads, Goto
<1>17. ASSUME NEW t \in {"control", "decode"}, Handshake(t) PROVE Typed'
  <2>1. FlagsOK'
    <3>1. renderWake' \in BOOLEAN
      BY <1>17 DEF Handshake, FlagsOK
    <3> QED
      BY <1>17, <3>1 DEF FlagsOK, Handshake, RingIsOurs
  <2>2. FramesOK'
    BY <1>17, GraphAssumption DEF FramesOK, MaybeFrame, None, GraphAssumption,
       Handshake, RingIsOurs
  <2>3. PlacesOK' /\ TargetInv'
    BY <1>17, GraphAssumption DEF PlacesOK, TargetInv, Labels, SeekLabels,
       MaybeFrame, None, Threads, Goto, FramesOK, Handshake, RingIsOurs
  <2> QED
    BY <2>1, <2>2, <2>3
<1>18. ASSUME NEW t \in {"control", "decode"}, AwaitTurn(t) PROVE Typed'
  <2>1. FlagsOK'
    <3>1. renderTurned' \in BOOLEAN /\ late' \in BOOLEAN
      BY <1>18 DEF AwaitTurn, FlagsOK
    <3> QED
      BY <1>18, <3>1 DEF FlagsOK, AwaitTurn
  <2>2. FramesOK'
    BY <1>18, GraphAssumption DEF FramesOK, MaybeFrame, None, GraphAssumption,
       AwaitTurn
  <2>3. PlacesOK' /\ TargetInv'
    BY <1>18, GraphAssumption DEF PlacesOK, TargetInv, Labels, SeekLabels,
       MaybeFrame, None, Threads, Goto, FramesOK, AwaitTurn
  <2> QED
    BY <2>1, <2>2, <2>3
<1>19. ASSUME NEW t \in {"control", "decode"}, ResetRing(t) PROVE Typed'
  <2>1. FlagsOK'
    <3>1. torn' \in BOOLEAN /\ apart' \in BOOLEAN
      BY <1>19 DEF ResetRing
    <3>2. UNCHANGED <<running, live, paused, failed, devRunning, seeking, parked, woken,
                      seekDone, renderTurned, renderWake, drained, sawSeeking, late, lost>>
      BY <1>19 DEF ResetRing
    <3> QED
      BY <3>1, <3>2 DEF FlagsOK
  <2>2. FramesOK'
    BY <1>19, GraphAssumption DEF FramesOK, MaybeFrame, None, GraphAssumption,
       ResetRing
  <2>3. PlacesOK' /\ TargetInv'
    BY <1>19, GraphAssumption DEF PlacesOK, TargetInv, Labels, SeekLabels,
       MaybeFrame, None, Threads, Goto, FramesOK, ResetRing
  <2> QED
    BY <2>1, <2>2, <2>3
<1>20. ASSUME NEW t \in {"control", "decode"}, MoveSource(t) PROVE Typed'
  <2>1. FlagsOK'
    <3>1. drained' \in BOOLEAN /\ lost' \in BOOLEAN
      BY <1>20 DEF MoveSource, FlagsOK
    <3> QED
      BY <1>20, <3>1 DEF FlagsOK, MoveSource
  <2>2. FramesOK'
    <3>1. target \in 0..Length
      BY <1>20 DEF MoveSource, TargetInv, FramesOK, MaybeFrame, SeekLabels
    <3>2. srcPos' \in 0..Length /\ due' \in 0..Length /\ playedBase' \in 0..Length /\ landed' \in MaybeFrame
      BY <1>20, <3>1 DEF MoveSource, FramesOK, MaybeFrame
    <3>3. since' \in 0..MaxSince
      BY <1>20, GraphAssumption DEF MoveSource, FramesOK, GraphAssumption
    <3> QED
      BY <1>20, <3>2, <3>3 DEF FramesOK, MaybeFrame, MoveSource
  <2>3. PlacesOK' /\ TargetInv'
    BY <1>20, GraphAssumption DEF PlacesOK, TargetInv, Labels, SeekLabels,
       MaybeFrame, None, Threads, Goto, FramesOK, MoveSource
  <2> QED
    BY <2>1, <2>2, <2>3
<1>21. ASSUME NEW t \in {"control", "decode"}, Fill(t, "fill", "clear") PROVE Typed'
  <2>1. FlagsOK'
    <3>1. /\ running' \in BOOLEAN /\ failed' \in BOOLEAN /\ woken' \in BOOLEAN
          /\ apart' \in BOOLEAN /\ drained' \in BOOLEAN /\ lost' \in BOOLEAN
      BY <1>21, FillTyped DEF RingTyped
    <3> QED
      BY <1>21, <3>1 DEF FlagsOK, Fill
  <2>2. FramesOK'
    <3>1. RingTyped /\ srcPos' \in 0..Length
      BY <1>21, FillTyped
    <3> QED
      BY <1>21, <3>1 DEF RingTyped, FramesOK, MaybeFrame, Fill
  <2>3. PlacesOK' /\ TargetInv'
    BY <1>21, GraphAssumption DEF PlacesOK, TargetInv, Labels, SeekLabels,
       MaybeFrame, None, Threads, Goto, FramesOK, Fill
  <2> QED
    BY <2>1, <2>2, <2>3
<1>22. ASSUME NEW t \in {"control", "decode"}, ClearRequest(t) PROVE Typed'
  BY <1>22, GraphAssumption DEF ClearRequest, GraphAssumption, FlagsOK,
     FramesOK, PlacesOK, TargetInv, SeekLabels, Labels, MaybeFrame, None,
     Threads, Goto
<1>23. ASSUME NEW t \in {"control", "decode"}, Release(t) PROVE Typed'
  <2>1. FlagsOK'
    <3>1. seeking' \in BOOLEAN /\ seekDone' \in BOOLEAN
      BY <1>23 DEF Release
    <3> QED
      BY <1>23, <3>1 DEF FlagsOK, Release
  <2>2. FramesOK'
    BY <1>23, GraphAssumption DEF FramesOK, MaybeFrame, None, GraphAssumption,
       Release
  <2>3. PlacesOK' /\ TargetInv'
    BY <1>23, GraphAssumption DEF PlacesOK, TargetInv, Labels, SeekLabels,
       MaybeFrame, None, Threads, Goto, FramesOK, Release
  <2> QED
    BY <2>1, <2>2, <2>3
<1>24. CASE DecodeTop
  <2>1. FlagsOK'
    <3>1. woken' \in BOOLEAN
      BY <1>24 DEF DecodeTop
    <3> QED
      BY <1>24, <3>1 DEF FlagsOK, DecodeTop
  <2>2. FramesOK'
    BY <1>24, GraphAssumption DEF FramesOK, MaybeFrame, None, GraphAssumption,
       DecodeTop
  <2>3. PlacesOK' /\ TargetInv'
    BY <1>24, GraphAssumption DEF PlacesOK, TargetInv, Labels, SeekLabels,
       MaybeFrame, None, Threads, Goto, FramesOK, DecodeTop
  <2> QED
    BY <2>1, <2>2, <2>3
<1>25. CASE DecodeExit
  BY <1>25, GraphAssumption DEF DecodeExit, GraphAssumption, FlagsOK,
     FramesOK, PlacesOK, TargetInv, SeekLabels, Labels, MaybeFrame, None,
     Threads, Goto
<1>26. CASE DecodeSeek
  BY <1>26, GraphAssumption DEF DecodeSeek, GraphAssumption, FlagsOK,
     FramesOK, PlacesOK, TargetInv, SeekLabels, Labels, MaybeFrame, None,
     Threads, Goto
<1>27. CASE DecodeGoesOn
  BY <1>27, GraphAssumption DEF DecodeGoesOn, GraphAssumption, FlagsOK,
     FramesOK, PlacesOK, TargetInv, SeekLabels, Labels, MaybeFrame, None,
     Threads, Goto
<1>28. CASE DecodeSleep
  BY <1>28, GraphAssumption DEF DecodeSleep, GraphAssumption, FlagsOK,
     FramesOK, PlacesOK, TargetInv, SeekLabels, Labels, MaybeFrame, None,
     Threads, Goto
<1>29. CASE DecodePump
  <2>1. FlagsOK'
    <3>1. /\ running' \in BOOLEAN /\ failed' \in BOOLEAN /\ woken' \in BOOLEAN
          /\ apart' \in BOOLEAN /\ drained' \in BOOLEAN /\ lost' \in BOOLEAN
      BY <1>29, PumpTyped DEF DecodePump, TypeOK, RingTyped
    <3> QED
      BY <1>29, <3>1 DEF FlagsOK, DecodePump
  <2>2. FramesOK'
    <3>1. RingTyped /\ srcPos' \in 0..Length
      BY <1>29, PumpTyped DEF DecodePump, TypeOK
    <3> QED
      BY <1>29, <3>1 DEF RingTyped, FramesOK, MaybeFrame, DecodePump
  <2>3. PlacesOK' /\ TargetInv'
    BY <1>29, GraphAssumption DEF PlacesOK, TargetInv, Labels, SeekLabels,
       MaybeFrame, None, Threads, Goto, FramesOK, DecodePump
  <2> QED
    BY <2>1, <2>2, <2>3
<1>30. CASE DecodeWakes
  BY <1>30, GraphAssumption DEF DecodeWakes, GraphAssumption, FlagsOK,
     FramesOK, PlacesOK, TargetInv, SeekLabels, Labels, MaybeFrame, None,
     Threads, Goto
<1>31. CASE RenderTop
  <2>1. FlagsOK'
    BY <1>31 DEF FlagsOK, RenderTop, Least
  <2>2. FramesOK'
    BY <1>31, GraphAssumption DEF FramesOK, MaybeFrame, None, GraphAssumption,
       RenderTop, Least
  <2>3. PlacesOK' /\ TargetInv'
    BY <1>31, GraphAssumption DEF PlacesOK, TargetInv, Labels, SeekLabels,
       MaybeFrame, None, Threads, Goto, FramesOK, RenderTop, Least
  <2> QED
    BY <2>1, <2>2, <2>3
<1>32. CASE RenderExit
  BY <1>32, GraphAssumption DEF RenderExit, GraphAssumption, FlagsOK,
     FramesOK, PlacesOK, TargetInv, SeekLabels, Labels, MaybeFrame, None,
     Threads, Goto
<1>33. CASE RenderParks
  <2>1. FlagsOK'
    <3>1. /\ devRunning' = FALSE /\ parked' = TRUE
          /\ UNCHANGED <<running, live, paused, failed, seeking, woken, seekDone,
                         renderTurned, renderWake, apart, drained, sawSeeking, late,
                         lost, torn>>
      BY <1>33 DEF RenderParks
    <3>2. /\ running' \in BOOLEAN /\ live' \in BOOLEAN /\ paused' \in BOOLEAN
          /\ failed' \in BOOLEAN /\ devRunning' \in BOOLEAN /\ seeking' \in BOOLEAN
      BY <3>1 DEF FlagsOK
    <3>3. /\ parked' \in BOOLEAN /\ woken' \in BOOLEAN /\ seekDone' \in BOOLEAN
          /\ renderTurned' \in BOOLEAN /\ renderWake' \in BOOLEAN
          /\ apart' \in BOOLEAN /\ drained' \in BOOLEAN
      BY <3>1 DEF FlagsOK
    <3>4. /\ sawSeeking' \in BOOLEAN /\ late' \in BOOLEAN /\ lost' \in BOOLEAN
          /\ torn' \in BOOLEAN
      BY <3>1 DEF FlagsOK
    <3> QED
      BY <3>2, <3>3, <3>4 DEF FlagsOK
  <2>2. FramesOK'
    BY <1>33, GraphAssumption DEF FramesOK, MaybeFrame, None, GraphAssumption,
       RenderParks
  <2>3. PlacesOK' /\ TargetInv'
    BY <1>33, GraphAssumption DEF PlacesOK, TargetInv, Labels, SeekLabels,
       MaybeFrame, None, Threads, Goto, FramesOK, RenderParks
  <2> QED
    BY <2>1, <2>2, <2>3
<1>34. CASE RenderNaps
  <2>1. FlagsOK'
    <3>1. renderWake' \in BOOLEAN
      BY <1>34 DEF RenderNaps
    <3> QED
      BY <1>34, <3>1 DEF FlagsOK, RenderNaps
  <2>2. FramesOK'
    BY <1>34, GraphAssumption DEF FramesOK, MaybeFrame, None, GraphAssumption,
       RenderNaps
  <2>3. PlacesOK' /\ TargetInv'
    BY <1>34, GraphAssumption DEF PlacesOK, TargetInv, Labels, SeekLabels,
       MaybeFrame, None, Threads, Goto, FramesOK, RenderNaps
  <2> QED
    BY <2>1, <2>2, <2>3
<1>35. CASE RenderReady
  BY <1>35, GraphAssumption DEF RenderReady, GraphAssumption, FlagsOK,
     FramesOK, PlacesOK, TargetInv, SeekLabels, Labels, MaybeFrame, None,
     Threads, Goto
<1>36. CASE RenderAcquires
  BY <1>36, GraphAssumption DEF RenderAcquires, GraphAssumption, FlagsOK,
     FramesOK, PlacesOK, TargetInv, SeekLabels, Labels, MaybeFrame, None,
     Threads, Goto
<1>37. CASE RenderLooksForSeek
  BY <1>37, GraphAssumption DEF RenderLooksForSeek, GraphAssumption, FlagsOK,
     FramesOK, PlacesOK, TargetInv, SeekLabels, Labels, MaybeFrame, None,
     Threads, Goto
<1>38. CASE RenderSaysParked
  BY <1>38, GraphAssumption DEF RenderSaysParked, GraphAssumption, FlagsOK,
     FramesOK, PlacesOK, TargetInv, SeekLabels, Labels, MaybeFrame, None,
     Threads, Goto
<1>39. CASE BeginRead
  <2>1. FlagsOK'
    BY <1>39 DEF FlagsOK, BeginRead
  <2>2. FramesOK'
    <3>1. ring \in Seq(0..(Length - 1)) /\ Least(want, Len(ring)) \in 0..Len(ring)
      BY GraphAssumption DEF GraphAssumption, FramesOK, Least
    <3>2. hand' \in Seq(0..(Length - 1))
      <4>1. CASE hand' = SubSeq(ring, 1, Least(want, Len(ring)))
        BY <3>1, <4>1, TakeTyped
      <4>2. CASE hand' \in Anything
        <5>1. want \in Nat
          BY GraphAssumption DEF GraphAssumption, FramesOK
        <5> QED
          BY <4>2, <5>1, TableTyped DEF Anything
      <4> QED
        BY <1>39, <4>1, <4>2 DEF BeginRead
    <3> QED
      BY <1>39, <3>2 DEF FramesOK, MaybeFrame, BeginRead
  <2>3. PlacesOK' /\ TargetInv'
    BY <1>39, GraphAssumption DEF PlacesOK, TargetInv, Labels, SeekLabels,
       MaybeFrame, None, Threads, Goto, FramesOK, BeginRead
  <2> QED
    BY <2>1, <2>2, <2>3
<1>40. CASE EndRead
  <2>1. FlagsOK'
    <3>1. torn' \in BOOLEAN /\ apart' \in BOOLEAN
      BY <1>40 DEF EndRead, FlagsOK
    <3> QED
      BY <1>40, <3>1 DEF FlagsOK, EndRead
  <2>2. FramesOK'
    <3>1. ring \in Seq(0..(Length - 1)) /\ Len(ring) <= Capacity
          /\ (apart => ring = <<>>) /\ Len(hand) \in Nat /\ Len(ring) \in Nat
          /\ Capacity \in Nat
      BY GraphAssumption DEF FramesOK, GraphAssumption
    <3>2. ASSUME NEW m \in Len(hand)..Len(ring)
          PROVE  /\ Drop(ring, m) \in Seq(0..(Length - 1))
                 /\ Len(Drop(ring, m)) <= Capacity
                 /\ apart => Drop(ring, m) = <<>>
      <4>1. m \in 0..Len(ring)
        BY <3>1
      <4>2. /\ Drop(ring, m) \in Seq(0..(Length - 1))
            /\ Len(Drop(ring, m)) = Len(ring) - m
        BY <3>1, <4>1, DropTyped
      <4>3. apart => Len(Drop(ring, m)) = 0
        BY <3>1, <4>1, <4>2
      <4> QED
        BY <3>1, <4>1, <4>2, <4>3
    <3>3. RingTyped
      <4>1. CASE ring' = (IF apart THEN ring ELSE Drop(ring, Len(hand)))
                 /\ (apart \/ Len(hand) <= Len(ring)) /\ UNCHANGED apart
        <5>1. CASE apart
          BY <3>1, <4>1, <5>1 DEF RingTyped, FlagsOK
        <5>2. CASE ~apart
          <6>1. Len(hand) \in Len(hand)..Len(ring)
            BY <3>1, <4>1, <5>2
          <6> QED
            BY <3>2, <4>1, <5>2, <6>1 DEF RingTyped, FlagsOK
        <5> QED
          BY <5>1, <5>2
      <4>2. CASE (\E m \in Len(hand)..Len(ring) : ring' = Drop(ring, m)) /\ UNCHANGED apart
        BY <3>2, <4>2 DEF RingTyped, FlagsOK
      <4>3. CASE ring' = <<>> /\ apart' = TRUE
        BY <3>1, <4>3 DEF RingTyped
      <4> QED
        BY <1>40, <4>1, <4>2, <4>3 DEF EndRead
    <3>4. hand' \in Seq(0..(Length - 1))
      <4>1. CASE UNCHANGED hand
        BY <4>1 DEF FramesOK
      <4>2. CASE hand' \in [1..Len(hand) -> 0..(Length - 1)]
        BY <3>1, <4>2, TableTyped
      <4> QED
        BY <1>40, <4>1, <4>2 DEF EndRead
    <3> QED
      BY <1>40, <3>3, <3>4 DEF RingTyped, FramesOK, MaybeFrame, EndRead
  <2>3. PlacesOK' /\ TargetInv'
    BY <1>40, GraphAssumption DEF PlacesOK, TargetInv, Labels, SeekLabels,
       MaybeFrame, None, Threads, Goto, FramesOK, EndRead
  <2> QED
    BY <2>1, <2>2, <2>3
<1>41. CASE RenderCommits
  <2>1. FlagsOK'
    BY <1>41 DEF FlagsOK, RenderCommits
  <2>2. FramesOK'
    <3>1. due' \in 0..Length
      BY <1>41, DueTyped DEF Typed, FramesOK, RenderCommits, TypeOK
    <3>2. since' \in 0..MaxSince
      BY <1>41, GraphAssumption DEF Typed, FramesOK, RenderCommits, Counted, Least,
         GraphAssumption
    <3> QED
      BY <1>41, <3>1, <3>2 DEF FramesOK, MaybeFrame, RenderCommits
  <2>3. PlacesOK' /\ TargetInv'
    BY <1>41, GraphAssumption DEF PlacesOK, TargetInv, Labels, SeekLabels,
       MaybeFrame, None, Threads, Goto, FramesOK, RenderCommits
  <2> QED
    BY <2>1, <2>2, <2>3
<1>42. CASE RenderSettles
  <2>1. FlagsOK'
    BY <1>42 DEF FlagsOK, RenderSettles, Finishing
  <2>2. FramesOK'
    BY <1>42, GraphAssumption DEF FramesOK, MaybeFrame, None, GraphAssumption,
       RenderSettles, Finishing
  <2>3. PlacesOK' /\ TargetInv'
    BY <1>42, GraphAssumption DEF PlacesOK, TargetInv, Labels, SeekLabels,
       MaybeFrame, None, Threads, Goto, FramesOK, RenderSettles, Finishing
  <2> QED
    BY <2>1, <2>2, <2>3
<1>43. CASE RenderFails
  <2>1. FlagsOK'
    <3>1. /\ failed' = TRUE /\ running' = FALSE /\ woken' = TRUE
          /\ UNCHANGED <<live, paused, devRunning, seeking, parked, seekDone, renderTurned,
                         renderWake, apart, drained, sawSeeking, late, torn>>
      BY <1>43 DEF RenderFails, Fail
    <3>2. lost' \in BOOLEAN
      BY <1>43, Zenon DEF RenderFails
    <3>3. /\ running' \in BOOLEAN /\ live' \in BOOLEAN /\ paused' \in BOOLEAN
          /\ failed' \in BOOLEAN /\ devRunning' \in BOOLEAN
      BY <3>1 DEF FlagsOK
    <3>4. /\ seeking' \in BOOLEAN /\ parked' \in BOOLEAN /\ woken' \in BOOLEAN
          /\ seekDone' \in BOOLEAN /\ renderTurned' \in BOOLEAN
      BY <3>1 DEF FlagsOK
    <3>5. /\ renderWake' \in BOOLEAN /\ apart' \in BOOLEAN
          /\ drained' \in BOOLEAN /\ sawSeeking' \in BOOLEAN
          /\ late' \in BOOLEAN /\ torn' \in BOOLEAN
      BY <3>1 DEF FlagsOK
    <3> QED
      BY <3>2, <3>3, <3>4, <3>5 DEF FlagsOK
  <2>2. FramesOK'
    BY <1>43, GraphAssumption DEF FramesOK, MaybeFrame, None, GraphAssumption,
       RenderFails, Fail
  <2>3. PlacesOK' /\ TargetInv'
    BY <1>43, GraphAssumption DEF PlacesOK, TargetInv, Labels, SeekLabels,
       MaybeFrame, None, Threads, Goto, FramesOK, RenderFails, Fail
  <2> QED
    BY <2>1, <2>2, <2>3
<1>44. CASE UNCHANGED vars
  BY <1>44 DEF vars, FlagsOK, FramesOK, PlacesOK, TargetInv, SeekLabels,
     Labels, MaybeFrame, None, Threads, Goto
<1> QED
  BY <1>1, <1>2, <1>3, <1>4, <1>5, <1>6, <1>7, <1>8, <1>9, <1>10, <1>11,
     <1>12, <1>13, <1>14, <1>15, <1>16, <1>17, <1>18, <1>19, <1>20, <1>21,
     <1>22, <1>23, <1>24, <1>25, <1>26, <1>27, <1>28, <1>29, <1>30, <1>31,
     <1>32, <1>33, <1>34, <1>35, <1>36, <1>37, <1>38, <1>39, <1>40, <1>41,
     <1>42, <1>43, <1>44 DEF Next, Calls, ControlStep, PerformSeek, Decode,
     Render

-----------------------------------------------------------------------------
(* Threads, turns and waits. *)

(* Filling the ring may end the run, by an error, and never begins one.     *)
LEMMA FillOnlyEndsRuns ==
  ASSUME NEW t, NEW here, NEW after, Fill(t, here, after)
  PROVE  running' => running
  BY DEF Fill, Pump, PumpsFrames, PumpsNothing, PumpFails, Fail

LEMMA ThreadsAreKept ==
  ASSUME Typed, ThreadInv, [Next]_vars
  PROVE  ThreadInv'
<1> USE DEF Typed, ThreadInv, PlacesOK, Threads, Goto, SeekLabels, state,
     shake, wakes, store, place, call, turn, history
<1>1. CASE Start
  BY <1>1 DEF Start, Call
<1>2. CASE Pause
  BY <1>2 DEF Pause, Call
<1>3. CASE Resume
  BY <1>3 DEF Resume, Call
<1>4. CASE Stop
  BY <1>4 DEF Stop, Call
<1>5. CASE SeekRefused
  BY <1>5 DEF SeekRefused, Call
<1>6. ASSUME NEW frame \in Targets, SeekHere(frame) PROVE ThreadInv'
  BY <1>6 DEF SeekHere, Call
<1>7. ASSUME NEW frame \in Targets, SeekAsk(frame) PROVE ThreadInv'
  BY <1>7 DEF SeekAsk, Call
<1>8. CASE Fill("control", "floor", "launch")
  BY <1>8 DEF Fill
<1>9. CASE Launch
  BY <1>9 DEF Launch, FirstBuffer
<1>10. CASE Join
  BY <1>10 DEF Join
<1>11. CASE SeekReturns
  BY <1>11 DEF SeekReturns, SeekIsDone
<1>12. CASE SeekSleeps
  BY <1>12 DEF SeekSleeps, SeekIsDone
<1>13. CASE SeekLooksAgain
  BY <1>13 DEF SeekLooksAgain
<1>14. CASE SeekTimesOut
  BY <1>14 DEF SeekTimesOut, SeekIsDone
<1>15. ASSUME NEW t \in {"control", "decode"}, Claim(t) PROVE ThreadInv'
  BY <1>15 DEF Claim
<1>16. ASSUME NEW t \in {"control", "decode"}, CountTurns(t) PROVE ThreadInv'
  BY <1>16 DEF CountTurns
<1>17. ASSUME NEW t \in {"control", "decode"}, Handshake(t) PROVE ThreadInv'
  BY <1>17 DEF Handshake, RingIsOurs
<1>18. ASSUME NEW t \in {"control", "decode"}, AwaitTurn(t) PROVE ThreadInv'
  BY <1>18 DEF AwaitTurn
<1>19. ASSUME NEW t \in {"control", "decode"}, ResetRing(t) PROVE ThreadInv'
  BY <1>19 DEF ResetRing
<1>20. ASSUME NEW t \in {"control", "decode"}, MoveSource(t) PROVE ThreadInv'
  BY <1>20 DEF MoveSource
<1>21. ASSUME NEW t \in {"control", "decode"}, Fill(t, "fill", "clear") PROVE ThreadInv'
  BY <1>21 DEF Fill
<1>22. ASSUME NEW t \in {"control", "decode"}, ClearRequest(t) PROVE ThreadInv'
  BY <1>22 DEF ClearRequest
<1>23. ASSUME NEW t \in {"control", "decode"}, Release(t) PROVE ThreadInv'
  BY <1>23 DEF Release
<1>24. CASE DecodeTop
  BY <1>24 DEF DecodeTop
<1>25. CASE DecodeExit
  BY <1>25 DEF DecodeExit
<1>26. CASE DecodeSeek
  BY <1>26 DEF DecodeSeek
<1>27. CASE DecodeGoesOn
  BY <1>27 DEF DecodeGoesOn
<1>28. CASE DecodeSleep
  BY <1>28 DEF DecodeSleep
<1>29. CASE DecodePump
  BY <1>29 DEF DecodePump
<1>30. CASE DecodeWakes
  BY <1>30 DEF DecodeWakes
<1>31. CASE RenderTop
  BY <1>31 DEF RenderTop, Least
<1>32. CASE RenderExit
  BY <1>32 DEF RenderExit
<1>33. CASE RenderParks
  BY <1>33 DEF RenderParks
<1>34. CASE RenderNaps
  BY <1>34 DEF RenderNaps
<1>35. CASE RenderReady
  BY <1>35 DEF RenderReady
<1>36. CASE RenderAcquires
  BY <1>36 DEF RenderAcquires
<1>37. CASE RenderLooksForSeek
  BY <1>37 DEF RenderLooksForSeek
<1>38. CASE RenderSaysParked
  BY <1>38 DEF RenderSaysParked
<1>39. CASE BeginRead
  BY <1>39 DEF BeginRead
<1>40. CASE EndRead
  BY <1>40 DEF EndRead
<1>41. CASE RenderCommits
  BY <1>41 DEF RenderCommits
<1>42. CASE RenderSettles
  BY <1>42 DEF RenderSettles, Finishing
<1>43. CASE RenderFails
  BY <1>43 DEF RenderFails, Fail, SinkCallFails
<1>44. CASE UNCHANGED vars
  BY <1>44 DEF vars
<1> QED
  BY <1>1, <1>2, <1>3, <1>4, <1>5, <1>6, <1>7, <1>8, <1>9, <1>10, <1>11,
     <1>12, <1>13, <1>14, <1>15, <1>16, <1>17, <1>18, <1>19, <1>20, <1>21,
     <1>22, <1>23, <1>24, <1>25, <1>26, <1>27, <1>28, <1>29, <1>30, <1>31,
     <1>32, <1>33, <1>34, <1>35, <1>36, <1>37, <1>38, <1>39, <1>40, <1>41,
     <1>42, <1>43, <1>44 DEF Next, Calls, ControlStep, PerformSeek, Decode,
     Render

LEMMA TurnsAreKept ==
  ASSUME Typed, ThreadInv, TurnInv, [Next]_vars
  PROVE  TurnInv'
<1> USE DEF Typed, ThreadInv, TurnInv, Claimed, Counting, PlacesOK, Threads,
     Goto, SeekLabels, state, shake, wakes, store, place, call, turn, history
<1>1. CASE Start
  BY <1>1 DEF Start, Call
<1>2. CASE Pause
  BY <1>2 DEF Pause, Call
<1>3. CASE Resume
  BY <1>3 DEF Resume, Call
<1>4. CASE Stop
  BY <1>4 DEF Stop, Call
<1>5. CASE SeekRefused
  BY <1>5 DEF SeekRefused, Call
<1>6. ASSUME NEW frame \in Targets, SeekHere(frame) PROVE TurnInv'
  BY <1>6 DEF SeekHere, Call
<1>7. ASSUME NEW frame \in Targets, SeekAsk(frame) PROVE TurnInv'
  BY <1>7 DEF SeekAsk, Call
<1>8. CASE Fill("control", "floor", "launch")
  BY <1>8 DEF Fill
<1>9. CASE Launch
  BY <1>9 DEF Launch, FirstBuffer
<1>10. CASE Join
  BY <1>10 DEF Join
<1>11. CASE SeekReturns
  BY <1>11 DEF SeekReturns, SeekIsDone
<1>12. CASE SeekSleeps
  BY <1>12 DEF SeekSleeps, SeekIsDone
<1>13. CASE SeekLooksAgain
  BY <1>13 DEF SeekLooksAgain
<1>14. CASE SeekTimesOut
  BY <1>14 DEF SeekTimesOut, SeekIsDone
<1>15. ASSUME NEW t \in {"control", "decode"}, Claim(t) PROVE TurnInv'
  BY <1>15 DEF Claim
<1>16. ASSUME NEW t \in {"control", "decode"}, CountTurns(t) PROVE TurnInv'
  BY <1>16 DEF CountTurns
<1>17. ASSUME NEW t \in {"control", "decode"}, Handshake(t) PROVE TurnInv'
  BY <1>17 DEF Handshake, RingIsOurs
<1>18. ASSUME NEW t \in {"control", "decode"}, AwaitTurn(t) PROVE TurnInv'
  BY <1>18 DEF AwaitTurn
<1>19. ASSUME NEW t \in {"control", "decode"}, ResetRing(t) PROVE TurnInv'
  BY <1>19 DEF ResetRing
<1>20. ASSUME NEW t \in {"control", "decode"}, MoveSource(t) PROVE TurnInv'
  BY <1>20 DEF MoveSource
<1>21. ASSUME NEW t \in {"control", "decode"}, Fill(t, "fill", "clear") PROVE TurnInv'
  BY <1>21 DEF Fill
<1>22. ASSUME NEW t \in {"control", "decode"}, ClearRequest(t) PROVE TurnInv'
  BY <1>22 DEF ClearRequest
<1>23. ASSUME NEW t \in {"control", "decode"}, Release(t) PROVE TurnInv'
  BY <1>23 DEF Release
<1>24. CASE DecodeTop
  BY <1>24 DEF DecodeTop
<1>25. CASE DecodeExit
  BY <1>25 DEF DecodeExit
<1>26. CASE DecodeSeek
  BY <1>26 DEF DecodeSeek
<1>27. CASE DecodeGoesOn
  BY <1>27 DEF DecodeGoesOn
<1>28. CASE DecodeSleep
  BY <1>28 DEF DecodeSleep
<1>29. CASE DecodePump
  BY <1>29 DEF DecodePump
<1>30. CASE DecodeWakes
  BY <1>30 DEF DecodeWakes
<1>31. CASE RenderTop
  BY <1>31 DEF RenderTop, Least
<1>32. CASE RenderExit
  BY <1>32 DEF RenderExit
<1>33. CASE RenderParks
  BY <1>33 DEF RenderParks
<1>34. CASE RenderNaps
  BY <1>34 DEF RenderNaps
<1>35. CASE RenderReady
  BY <1>35 DEF RenderReady
<1>36. CASE RenderAcquires
  BY <1>36 DEF RenderAcquires
<1>37. CASE RenderLooksForSeek
  BY <1>37 DEF RenderLooksForSeek
<1>38. CASE RenderSaysParked
  BY <1>38 DEF RenderSaysParked
<1>39. CASE BeginRead
  BY <1>39 DEF BeginRead
<1>40. CASE EndRead
  BY <1>40 DEF EndRead
<1>41. CASE RenderCommits
  BY <1>41 DEF RenderCommits
<1>42. CASE RenderSettles
  BY <1>42 DEF RenderSettles, Finishing
<1>43. CASE RenderFails
  BY <1>43 DEF RenderFails, Fail
<1>44. CASE UNCHANGED vars
  BY <1>44 DEF vars
<1> QED
  BY <1>1, <1>2, <1>3, <1>4, <1>5, <1>6, <1>7, <1>8, <1>9, <1>10, <1>11,
     <1>12, <1>13, <1>14, <1>15, <1>16, <1>17, <1>18, <1>19, <1>20, <1>21,
     <1>22, <1>23, <1>24, <1>25, <1>26, <1>27, <1>28, <1>29, <1>30, <1>31,
     <1>32, <1>33, <1>34, <1>35, <1>36, <1>37, <1>38, <1>39, <1>40, <1>41,
     <1>42, <1>43, <1>44 DEF Next, Calls, ControlStep, PerformSeek, Decode,
     Render

LEMMA WaitsAreKept ==
  ASSUME Typed, ThreadInv, TurnInv, WaitInv, [Next]_vars
  PROVE  WaitInv'
<1> USE DEF Typed, ThreadInv, WaitInv, Answering, Owning, Gone, None,
     PlacesOK, Threads, Goto, SeekLabels, state, shake, wakes, store, place,
     call, turn, history
<1>1. CASE Start
  BY <1>1 DEF Start, Call
<1>2. CASE Pause
  BY <1>2 DEF Pause, Call
<1>3. CASE Resume
  BY <1>3 DEF Resume, Call
<1>4. CASE Stop
  BY <1>4 DEF Stop, Call
<1>5. CASE SeekRefused
  BY <1>5 DEF SeekRefused, Call
<1>6. ASSUME NEW frame \in Targets, SeekHere(frame) PROVE WaitInv'
  BY <1>6 DEF SeekHere, Call
<1>7. ASSUME NEW frame \in Targets, SeekAsk(frame) PROVE WaitInv'
  BY <1>7 DEF SeekAsk, Call
<1>8. CASE Fill("control", "floor", "launch")
  BY <1>8 DEF Fill
<1>9. CASE Launch
  BY <1>9 DEF Launch, FirstBuffer
<1>10. CASE Join
  BY <1>10 DEF Join
<1>11. CASE SeekReturns
  BY <1>11 DEF SeekReturns, SeekIsDone
<1>12. CASE SeekSleeps
  BY <1>12 DEF SeekSleeps, SeekIsDone
<1>13. CASE SeekLooksAgain
  BY <1>13 DEF SeekLooksAgain
<1>14. CASE SeekTimesOut
  BY <1>14 DEF SeekTimesOut, SeekIsDone
<1>15. ASSUME NEW t \in {"control", "decode"}, Claim(t) PROVE WaitInv'
  BY <1>15 DEF Claim
<1>16. ASSUME NEW t \in {"control", "decode"}, CountTurns(t) PROVE WaitInv'
  BY <1>16 DEF CountTurns
<1>17. ASSUME NEW t \in {"control", "decode"}, Handshake(t) PROVE WaitInv'
  BY <1>17 DEF Handshake, RingIsOurs, FramesOK
<1>18. ASSUME NEW t \in {"control", "decode"}, AwaitTurn(t) PROVE WaitInv'
  BY <1>18 DEF AwaitTurn
<1>19. ASSUME NEW t \in {"control", "decode"}, ResetRing(t) PROVE WaitInv'
  BY <1>19 DEF ResetRing
<1>20. ASSUME NEW t \in {"control", "decode"}, MoveSource(t) PROVE WaitInv'
  BY <1>20 DEF MoveSource
<1>21. ASSUME NEW t \in {"control", "decode"}, Fill(t, "fill", "clear") PROVE WaitInv'
  <2>1. running' => running
    BY <1>21, FillOnlyEndsRuns
  <2> QED
    BY <1>21, <2>1 DEF Fill
<1>22. ASSUME NEW t \in {"control", "decode"}, ClearRequest(t) PROVE WaitInv'
  BY <1>22 DEF ClearRequest
<1>23. ASSUME NEW t \in {"control", "decode"}, Release(t) PROVE WaitInv'
  BY <1>23 DEF Release
<1>24. CASE DecodeTop
  BY <1>24 DEF DecodeTop
<1>25. CASE DecodeExit
  BY <1>25 DEF DecodeExit
<1>26. CASE DecodeSeek
  BY <1>26 DEF DecodeSeek
<1>27. CASE DecodeGoesOn
  BY <1>27 DEF DecodeGoesOn
<1>28. CASE DecodeSleep
  BY <1>28 DEF DecodeSleep
<1>29. CASE DecodePump
  BY <1>29 DEF DecodePump
<1>30. CASE DecodeWakes
  BY <1>30 DEF DecodeWakes
<1>31. CASE RenderTop
  BY <1>31 DEF RenderTop, Least, FramesOK
<1>32. CASE RenderExit
  BY <1>32 DEF RenderExit
<1>33. CASE RenderParks
  BY <1>33 DEF RenderParks
<1>34. CASE RenderNaps
  BY <1>34 DEF RenderNaps
<1>35. CASE RenderReady
  BY <1>35 DEF RenderReady
<1>36. CASE RenderAcquires
  BY <1>36 DEF RenderAcquires
<1>37. CASE RenderLooksForSeek
  BY <1>37 DEF RenderLooksForSeek
<1>38. CASE RenderSaysParked
  BY <1>38 DEF RenderSaysParked
<1>39. CASE BeginRead
  BY <1>39 DEF BeginRead
<1>40. CASE EndRead
  BY <1>40 DEF EndRead
<1>41. CASE RenderCommits
  BY <1>41 DEF RenderCommits
<1>42. CASE RenderSettles
  BY <1>42 DEF RenderSettles, Finishing
<1>43. CASE RenderFails
  BY <1>43 DEF RenderFails, Fail
<1>44. CASE UNCHANGED vars
  BY <1>44 DEF vars
<1> QED
  BY <1>1, <1>2, <1>3, <1>4, <1>5, <1>6, <1>7, <1>8, <1>9, <1>10, <1>11,
     <1>12, <1>13, <1>14, <1>15, <1>16, <1>17, <1>18, <1>19, <1>20, <1>21,
     <1>22, <1>23, <1>24, <1>25, <1>26, <1>27, <1>28, <1>29, <1>30, <1>31,
     <1>32, <1>33, <1>34, <1>35, <1>36, <1>37, <1>38, <1>39, <1>40, <1>41,
     <1>42, <1>43, <1>44 DEF Next, Calls, ControlStep, PerformSeek, Decode,
     Render

LEMMA WakesAreKept ==
  ASSUME Typed, ThreadInv, WakeInv, [Next]_vars
  PROVE  WakeInv'
<1> USE DEF Typed, ThreadInv, WakeInv, WorkWakesTheDecoder, Room, PlacesOK,
     Threads, Goto, SeekLabels, state, shake, wakes, store, place, call, turn,
     history
<1>1. CASE Start
  BY <1>1 DEF Start, Call
<1>2. CASE Pause
  BY <1>2 DEF Pause, Call
<1>3. CASE Resume
  BY <1>3 DEF Resume, Call
<1>4. CASE Stop
  BY <1>4 DEF Stop, Call
<1>5. CASE SeekRefused
  BY <1>5 DEF SeekRefused, Call
<1>6. ASSUME NEW frame \in Targets, SeekHere(frame) PROVE WakeInv'
  BY <1>6 DEF SeekHere, Call
<1>7. ASSUME NEW frame \in Targets, SeekAsk(frame) PROVE WakeInv'
  BY <1>7 DEF SeekAsk, Call
<1>8. CASE Fill("control", "floor", "launch")
  BY <1>8 DEF Fill
<1>9. CASE Launch
  BY <1>9 DEF Launch, FirstBuffer
<1>10. CASE Join
  BY <1>10 DEF Join
<1>11. CASE SeekReturns
  BY <1>11 DEF SeekReturns, SeekIsDone
<1>12. CASE SeekSleeps
  BY <1>12 DEF SeekSleeps, SeekIsDone
<1>13. CASE SeekLooksAgain
  BY <1>13 DEF SeekLooksAgain
<1>14. CASE SeekTimesOut
  BY <1>14 DEF SeekTimesOut, SeekIsDone
<1>15. ASSUME NEW t \in {"control", "decode"}, Claim(t) PROVE WakeInv'
  BY <1>15 DEF Claim
<1>16. ASSUME NEW t \in {"control", "decode"}, CountTurns(t) PROVE WakeInv'
  BY <1>16 DEF CountTurns
<1>17. ASSUME NEW t \in {"control", "decode"}, Handshake(t) PROVE WakeInv'
  BY <1>17 DEF Handshake, RingIsOurs
<1>18. ASSUME NEW t \in {"control", "decode"}, AwaitTurn(t) PROVE WakeInv'
  BY <1>18 DEF AwaitTurn
<1>19. ASSUME NEW t \in {"control", "decode"}, ResetRing(t) PROVE WakeInv'
  BY <1>19 DEF ResetRing
<1>20. ASSUME NEW t \in {"control", "decode"}, MoveSource(t) PROVE WakeInv'
  BY <1>20 DEF MoveSource
<1>21. ASSUME NEW t \in {"control", "decode"}, Fill(t, "fill", "clear") PROVE WakeInv'
  BY <1>21 DEF Fill
<1>22. ASSUME NEW t \in {"control", "decode"}, ClearRequest(t) PROVE WakeInv'
  BY <1>22 DEF ClearRequest
<1>23. ASSUME NEW t \in {"control", "decode"}, Release(t) PROVE WakeInv'
  BY <1>23 DEF Release
<1>24. CASE DecodeTop
  BY <1>24 DEF DecodeTop
<1>25. CASE DecodeExit
  BY <1>25 DEF DecodeExit
<1>26. CASE DecodeSeek
  BY <1>26 DEF DecodeSeek
<1>27. CASE DecodeGoesOn
  BY <1>27 DEF DecodeGoesOn
<1>28. CASE DecodeSleep
  BY <1>28 DEF DecodeSleep
<1>29. CASE DecodePump
  BY <1>29 DEF DecodePump
<1>30. CASE DecodeWakes
  BY <1>30 DEF DecodeWakes
<1>31. CASE RenderTop
  BY <1>31 DEF RenderTop, Least
<1>32. CASE RenderExit
  BY <1>32 DEF RenderExit
<1>33. CASE RenderParks
  BY <1>33 DEF RenderParks
<1>34. CASE RenderNaps
  BY <1>34 DEF RenderNaps
<1>35. CASE RenderReady
  BY <1>35 DEF RenderReady
<1>36. CASE RenderAcquires
  BY <1>36 DEF RenderAcquires
<1>37. CASE RenderLooksForSeek
  BY <1>37 DEF RenderLooksForSeek
<1>38. CASE RenderSaysParked
  BY <1>38 DEF RenderSaysParked
<1>39. CASE BeginRead
  BY <1>39 DEF BeginRead
<1>40. CASE EndRead
  BY <1>40 DEF EndRead
<1>41. CASE RenderCommits
  BY <1>41 DEF RenderCommits
<1>42. CASE RenderSettles
  BY <1>42 DEF RenderSettles, Finishing
<1>43. CASE RenderFails
  BY <1>43 DEF RenderFails, Fail
<1>44. CASE UNCHANGED vars
  BY <1>44 DEF vars
<1> QED
  BY <1>1, <1>2, <1>3, <1>4, <1>5, <1>6, <1>7, <1>8, <1>9, <1>10, <1>11,
     <1>12, <1>13, <1>14, <1>15, <1>16, <1>17, <1>18, <1>19, <1>20, <1>21,
     <1>22, <1>23, <1>24, <1>25, <1>26, <1>27, <1>28, <1>29, <1>30, <1>31,
     <1>32, <1>33, <1>34, <1>35, <1>36, <1>37, <1>38, <1>39, <1>40, <1>41,
     <1>42, <1>43, <1>44 DEF Next, Calls, ControlStep, PerformSeek, Decode,
     Render

-----------------------------------------------------------------------------
(* The end of the source, and a source that is out.                          *)

LEMMA PumpKeepsTheEnd ==
  ASSUME TypeOK, Ending, Pump
  PROVE  Ending'
<1>1. CASE PumpsFrames
  <2>1. PICK got \in 1..Least(Chunk, Length - srcPos) : srcPos' = srcPos + got
    BY <1>1 DEF PumpsFrames, PumpFrames
  <2>2. srcPos # Length
    BY <2>1, GraphAssumption DEF GraphAssumption, Least
  <2> QED
    BY <1>1, <2>2 DEF PumpsFrames, Ending, Faultless
<1>2. CASE PumpsNothing
  BY <1>2 DEF PumpsNothing, Ending
<1>3. CASE PumpFails
  BY <1>3 DEF PumpFails, Ending, Faultless
<1> QED
  BY <1>1, <1>2, <1>3 DEF Pump

LEMMA FillKeepsTheEnd ==
  ASSUME TypeOK, Ending, NEW t, NEW here, NEW after, Fill(t, here, after)
  PROVE  Ending'
<1>1. CASE Pump
  BY <1>1, PumpKeepsTheEnd
<1>2. CASE UNCHANGED <<store, running, failed, woken, lost>>
  BY <1>2 DEF store, Ending
<1> QED
  BY <1>1, <1>2 DEF Fill

(* Without faults no run ends by reading ahead.                             *)
LEMMA PumpEndsNothing ==
  ASSUME Faultless, Pump
  PROVE  running' = running
  BY DEF Pump, PumpsFrames, PumpsNothing, PumpFails, Faultless

LEMMA FillEndsNothing ==
  ASSUME Faultless, NEW t, NEW here, NEW after, Fill(t, here, after)
  PROVE  running' = running
  BY PumpEndsNothing DEF Fill

LEMMA RunsAreKept ==
  ASSUME Typed, ThreadInv, RunInv, [Next]_vars
  PROVE  RunInv'
<1> USE DEF Typed, ThreadInv, RunInv, PlacesOK, Threads, Goto, SeekLabels,
     state, shake, wakes, store, place, call, turn, history
<1>1. CASE Start
  BY <1>1 DEF Start, Call, Ending
<1>2. CASE Pause
  BY <1>2 DEF Pause, Call, Ending
<1>3. CASE Resume
  BY <1>3 DEF Resume, Call, Ending
<1>4. CASE Stop
  BY <1>4 DEF Stop, Call, Ending
<1>5. CASE SeekRefused
  BY <1>5 DEF SeekRefused, Call, Ending
<1>6. ASSUME NEW frame \in Targets, SeekHere(frame) PROVE RunInv'
  BY <1>6 DEF SeekHere, Call, Ending
<1>7. ASSUME NEW frame \in Targets, SeekAsk(frame) PROVE RunInv'
  BY <1>7 DEF SeekAsk, Call, Ending
<1>8. CASE Fill("control", "floor", "launch")
  <2>1. Ending'
    BY <1>8, FillKeepsTheEnd DEF Typed, TypeOK, RunInv
  <2> QED
    BY <1>8, <2>1, FillOnlyEndsRuns DEF Fill, Ending
<1>9. CASE Launch
  <2>1. Ending'
    <3>1. drained' = drained /\ srcPos' = srcPos
      BY <1>9 DEF Launch
    <3>2. lost => lost'
      <4>1. PICK size \in Buffers :
               \/ UNCHANGED lost
               \/ lost' = (lost \/ Least(size, Len(ring)) > 0)
        BY <1>9 DEF Launch
      <4> QED
        BY <4>1, Zenon
    <3> QED
      BY <3>1, <3>2 DEF Ending, Faultless
  <2> QED
    BY <1>9, <2>1 DEF Launch, FirstBuffer
<1>10. CASE Join
  BY <1>10 DEF Join, Ending
<1>11. CASE SeekReturns
  BY <1>11 DEF SeekReturns, SeekIsDone, Ending
<1>12. CASE SeekSleeps
  BY <1>12 DEF SeekSleeps, SeekIsDone, Ending
<1>13. CASE SeekLooksAgain
  BY <1>13 DEF SeekLooksAgain, Ending
<1>14. CASE SeekTimesOut
  BY <1>14 DEF SeekTimesOut, SeekIsDone, Ending
<1>15. ASSUME NEW t \in {"control", "decode"}, Claim(t) PROVE RunInv'
  BY <1>15 DEF Claim, Ending
<1>16. ASSUME NEW t \in {"control", "decode"}, CountTurns(t) PROVE RunInv'
  BY <1>16 DEF CountTurns, Ending
<1>17. ASSUME NEW t \in {"control", "decode"}, Handshake(t) PROVE RunInv'
  BY <1>17 DEF Handshake, RingIsOurs, Ending
<1>18. ASSUME NEW t \in {"control", "decode"}, AwaitTurn(t) PROVE RunInv'
  BY <1>18 DEF AwaitTurn, Ending
<1>19. ASSUME NEW t \in {"control", "decode"}, ResetRing(t) PROVE RunInv'
  BY <1>19 DEF ResetRing, Ending
<1>20. ASSUME NEW t \in {"control", "decode"}, MoveSource(t) PROVE RunInv'
  BY <1>20 DEF MoveSource, Ending
<1>21. ASSUME NEW t \in {"control", "decode"}, Fill(t, "fill", "clear") PROVE RunInv'
  <2>1. Ending'
    BY <1>21, FillKeepsTheEnd DEF Typed, TypeOK, RunInv
  <2>2. running' => running
    BY <1>21, FillOnlyEndsRuns
  <2> HIDE DEF Ending
  <2> QED
    BY <1>21, <2>1, <2>2 DEF Fill
<1>22. ASSUME NEW t \in {"control", "decode"}, ClearRequest(t) PROVE RunInv'
  BY <1>22 DEF ClearRequest, Ending
<1>23. ASSUME NEW t \in {"control", "decode"}, Release(t) PROVE RunInv'
  BY <1>23 DEF Release, Ending
<1>24. CASE DecodeTop
  BY <1>24 DEF DecodeTop, Ending
<1>25. CASE DecodeExit
  BY <1>25 DEF DecodeExit, Ending
<1>26. CASE DecodeSeek
  BY <1>26 DEF DecodeSeek, Ending
<1>27. CASE DecodeGoesOn
  BY <1>27 DEF DecodeGoesOn, Ending
<1>28. CASE DecodeSleep
  BY <1>28 DEF DecodeSleep, Ending
<1>29. CASE DecodePump
  <2>1. Ending'
    BY <1>29, PumpKeepsTheEnd DEF DecodePump, Typed, TypeOK, RunInv
  <2>2. running' => running
    BY <1>29 DEF DecodePump, Pump, PumpsFrames, PumpsNothing, PumpFails, Fail
  <2> QED
    BY <1>29, <2>1, <2>2 DEF DecodePump, Ending
<1>30. CASE DecodeWakes
  BY <1>30 DEF DecodeWakes, Ending
<1>31. CASE RenderTop
  BY <1>31 DEF RenderTop, Least, Ending
<1>32. CASE RenderExit
  BY <1>32 DEF RenderExit, Ending
<1>33. CASE RenderParks
  BY <1>33 DEF RenderParks, Ending
<1>34. CASE RenderNaps
  BY <1>34 DEF RenderNaps, Ending
<1>35. CASE RenderReady
  BY <1>35 DEF RenderReady, Ending
<1>36. CASE RenderAcquires
  BY <1>36 DEF RenderAcquires, Ending
<1>37. CASE RenderLooksForSeek
  BY <1>37 DEF RenderLooksForSeek, Ending
<1>38. CASE RenderSaysParked
  BY <1>38 DEF RenderSaysParked, Ending
<1>39. CASE BeginRead
  BY <1>39 DEF BeginRead, Ending
<1>40. CASE EndRead
  BY <1>40 DEF EndRead, Ending
<1>41. CASE RenderCommits
  BY <1>41 DEF RenderCommits, Ending
<1>42. CASE RenderSettles
  BY <1>42 DEF RenderSettles, Finishing, Ending
<1>43. CASE RenderFails
  BY <1>43 DEF RenderFails, Fail, SinkCallFails, Ending
<1>44. CASE UNCHANGED vars
  BY <1>44 DEF vars, Ending
<1> QED
  BY <1>1, <1>2, <1>3, <1>4, <1>5, <1>6, <1>7, <1>8, <1>9, <1>10, <1>11,
     <1>12, <1>13, <1>14, <1>15, <1>16, <1>17, <1>18, <1>19, <1>20, <1>21,
     <1>22, <1>23, <1>24, <1>25, <1>26, <1>27, <1>28, <1>29, <1>30, <1>31,
     <1>32, <1>33, <1>34, <1>35, <1>36, <1>37, <1>38, <1>39, <1>40, <1>41,
     <1>42, <1>43, <1>44 DEF Next, Calls, ControlStep, PerformSeek, Decode,
     Render

LEMMA SeenIsKept ==
  ASSUME Typed, ThreadInv, TurnInv, SeenInv, [Next]_vars
  PROVE  SeenInv'
<1> USE DEF Typed, ThreadInv, TurnInv, SeenInv, Claimed, Counting, InTurn,
     PlacesOK, Threads, Goto, SeekLabels, state, shake, wakes, store, place,
     call, turn, history
<1>1. CASE Start
  BY <1>1 DEF Start, Call
<1>2. CASE Pause
  BY <1>2 DEF Pause, Call
<1>3. CASE Resume
  BY <1>3 DEF Resume, Call
<1>4. CASE Stop
  BY <1>4 DEF Stop, Call
<1>5. CASE SeekRefused
  BY <1>5 DEF SeekRefused, Call
<1>6. ASSUME NEW frame \in Targets, SeekHere(frame) PROVE SeenInv'
  BY <1>6 DEF SeekHere, Call
<1>7. ASSUME NEW frame \in Targets, SeekAsk(frame) PROVE SeenInv'
  BY <1>7 DEF SeekAsk, Call
<1>8. CASE Fill("control", "floor", "launch")
  BY <1>8 DEF Fill
<1>9. CASE Launch
  BY <1>9 DEF Launch, FirstBuffer
<1>10. CASE Join
  BY <1>10 DEF Join
<1>11. CASE SeekReturns
  BY <1>11 DEF SeekReturns, SeekIsDone
<1>12. CASE SeekSleeps
  BY <1>12 DEF SeekSleeps, SeekIsDone
<1>13. CASE SeekLooksAgain
  BY <1>13 DEF SeekLooksAgain
<1>14. CASE SeekTimesOut
  BY <1>14 DEF SeekTimesOut, SeekIsDone
<1>15. ASSUME NEW t \in {"control", "decode"}, Claim(t) PROVE SeenInv'
  BY <1>15 DEF Claim
<1>16. ASSUME NEW t \in {"control", "decode"}, CountTurns(t) PROVE SeenInv'
  BY <1>16 DEF CountTurns
<1>17. ASSUME NEW t \in {"control", "decode"}, Handshake(t) PROVE SeenInv'
  BY <1>17 DEF Handshake, RingIsOurs
<1>18. ASSUME NEW t \in {"control", "decode"}, AwaitTurn(t) PROVE SeenInv'
  BY <1>18 DEF AwaitTurn
<1>19. ASSUME NEW t \in {"control", "decode"}, ResetRing(t) PROVE SeenInv'
  BY <1>19 DEF ResetRing
<1>20. ASSUME NEW t \in {"control", "decode"}, MoveSource(t) PROVE SeenInv'
  BY <1>20 DEF MoveSource
<1>21. ASSUME NEW t \in {"control", "decode"}, Fill(t, "fill", "clear") PROVE SeenInv'
  BY <1>21 DEF Fill
<1>22. ASSUME NEW t \in {"control", "decode"}, ClearRequest(t) PROVE SeenInv'
  BY <1>22 DEF ClearRequest
<1>23. ASSUME NEW t \in {"control", "decode"}, Release(t) PROVE SeenInv'
  BY <1>23 DEF Release
<1>24. CASE DecodeTop
  BY <1>24 DEF DecodeTop
<1>25. CASE DecodeExit
  BY <1>25 DEF DecodeExit
<1>26. CASE DecodeSeek
  BY <1>26 DEF DecodeSeek
<1>27. CASE DecodeGoesOn
  BY <1>27 DEF DecodeGoesOn
<1>28. CASE DecodeSleep
  BY <1>28 DEF DecodeSleep
<1>29. CASE DecodePump
  BY <1>29 DEF DecodePump
<1>30. CASE DecodeWakes
  BY <1>30 DEF DecodeWakes
<1>31. CASE RenderTop
  BY <1>31 DEF RenderTop, Least
<1>32. CASE RenderExit
  BY <1>32 DEF RenderExit
<1>33. CASE RenderParks
  BY <1>33 DEF RenderParks
<1>34. CASE RenderNaps
  BY <1>34 DEF RenderNaps
<1>35. CASE RenderReady
  BY <1>35 DEF RenderReady
<1>36. CASE RenderAcquires
  BY <1>36 DEF RenderAcquires
<1>37. CASE RenderLooksForSeek
  BY <1>37 DEF RenderLooksForSeek
<1>38. CASE RenderSaysParked
  BY <1>38 DEF RenderSaysParked
<1>39. CASE BeginRead
  BY <1>39 DEF BeginRead
<1>40. CASE EndRead
  BY <1>40 DEF EndRead
<1>41. CASE RenderCommits
  BY <1>41 DEF RenderCommits
<1>42. CASE RenderSettles
  BY <1>42 DEF RenderSettles, Finishing
<1>43. CASE RenderFails
  BY <1>43 DEF RenderFails, Fail, SinkCallFails
<1>44. CASE UNCHANGED vars
  BY <1>44 DEF vars
<1> QED
  BY <1>1, <1>2, <1>3, <1>4, <1>5, <1>6, <1>7, <1>8, <1>9, <1>10, <1>11,
     <1>12, <1>13, <1>14, <1>15, <1>16, <1>17, <1>18, <1>19, <1>20, <1>21,
     <1>22, <1>23, <1>24, <1>25, <1>26, <1>27, <1>28, <1>29, <1>30, <1>31,
     <1>32, <1>33, <1>34, <1>35, <1>36, <1>37, <1>38, <1>39, <1>40, <1>41,
     <1>42, <1>43, <1>44 DEF Next, Calls, ControlStep, PerformSeek, Decode,
     Render

-----------------------------------------------------------------------------
(* The frames in flight.                                                    *)

LEMMA FramesJoin ==
  ASSUME NEW a \in Nat, NEW n \in Nat, NEW m \in Nat
  PROVE  Frames(a, n) \o Frames(a + n, m) = Frames(a, n + m)
  BY DEF Frames

LEMMA FramesOfNone ==
  ASSUME NEW a \in Nat
  PROVE  Frames(a, 0) = <<>>
  BY DEF Frames

LEMMA FramesCount ==
  ASSUME NEW a \in Nat, NEW n \in Nat
  PROVE  Frames(a, n) \in Seq(Nat) /\ Len(Frames(a, n)) = n
  BY DEF Frames

LEMMA FramesFirst ==
  ASSUME NEW a \in Nat, NEW m \in Nat, NEW n \in 0..m
  PROVE  SubSeq(Frames(a, m), 1, n) = Frames(a, n)
  BY DEF Frames

LEMMA FramesRest ==
  ASSUME NEW a \in Nat, NEW m \in Nat, NEW n \in 0..m
  PROVE  Drop(Frames(a, m), n) = Frames(a + n, m - n)
  BY DEF Frames, Drop

LEMMA JoinTake ==
  ASSUME NEW S, NEW s \in Seq(S), NEW u \in Seq(S)
  PROVE  SubSeq(s \o u, 1, Len(s)) = s /\ Drop(s \o u, Len(s)) = u
  BY DEF Drop

LEMMA TakeOfJoin ==
  ASSUME NEW S, NEW s \in Seq(S), NEW u \in Seq(S), NEW n \in 0..Len(s)
  PROVE  SubSeq(s \o u, 1, n) = SubSeq(s, 1, n)
  OBVIOUS

LEMMA JoinOfThree ==
  ASSUME NEW S, NEW s \in Seq(S), NEW u \in Seq(S), NEW v \in Seq(S)
  PROVE  (s \o u) \o v = s \o (u \o v)
  OBVIOUS

LEMMA JoinOfNone ==
  ASSUME NEW S, NEW s \in Seq(S)
  PROVE  <<>> \o s = s
  OBVIOUS

LEMMA DueAfterFrames ==
  ASSUME due \in Nat, NEW n \in Nat
  PROVE  DueAfter(Frames(due, n)) = due + n
<1>1. CASE n = 0
  BY <1>1, FramesOfNone DEF DueAfter
<1>2. CASE n # 0
  <2>1. Frames(due, n) # <<>> /\ Len(Frames(due, n)) = n /\ Frames(due, n)[n] = due + n - 1
    BY <1>2 DEF Frames
  <2> QED
    BY <2>1 DEF DueAfter
<1> QED
  BY <1>1, <1>2
-----------------------------------------------------------------------------
Still == (Moving' <=> Moving) /\ (Reading' <=> Reading)

Same ==
    /\ UNCHANGED <<ring, apart, hand, drained, srcPos, due, want, place, lost, torn>>
    /\ late => late'
    /\ Still

ReadsAhead ==
    /\ Pump
    /\ ~Moving /\ Still
    /\ UNCHANGED <<hand, due, want, place, late, torn>>
    /\ Room >= Chunk

(* The steps that neither read from the source nor move it, nor start the    *)
(* graph.                                                                   *)
Plain ==
    \/ Pause \/ Resume \/ Stop \/ SeekRefused
    \/ \E frame \in Targets : SeekHere(frame) \/ SeekAsk(frame)
    \/ Launch \/ Join
    \/ SeekReturns \/ SeekSleeps \/ SeekLooksAgain \/ SeekTimesOut
    \/ \E t \in {"control", "decode"} :
         \/ Claim(t) \/ CountTurns(t) \/ Handshake(t) \/ AwaitTurn(t)
         \/ ResetRing(t) \/ ClearRequest(t) \/ Release(t)
    \/ DecodeTop \/ DecodeExit \/ DecodeSeek \/ DecodeGoesOn \/ DecodeSleep
    \/ DecodeWakes \/ Render
    \/ UNCHANGED vars

PlainFrames ==
    \/ Same \/ Launch
    \/ \E t \in {"control", "decode"} : ResetRing(t)
    \/ RenderAcquires \/ BeginRead \/ EndRead \/ RenderCommits \/ RenderFails

FrameStep ==
    \/ PlainFrames \/ Start \/ ReadsAhead
    \/ \E t \in {"control", "decode"} : MoveSource(t)

(* Most of them leave the frames where they are.                            *)
LEMMA PlainSteps ==
  ASSUME Typed, ThreadInv, Plain
  PROVE  PlainFrames
<1> USE DEF Typed, ThreadInv, Same, Still, Moving, Reading, PlainFrames,
     PlacesOK, Threads, Goto, SeekLabels, state, shake, wakes, store, place,
     call, turn, history
<1>1. CASE Pause
  BY <1>1 DEF Pause, Call
<1>2. CASE Resume
  BY <1>2 DEF Resume, Call
<1>3. CASE Stop
  BY <1>3 DEF Stop, Call
<1>4. CASE SeekRefused
  BY <1>4 DEF SeekRefused, Call
<1>5. ASSUME NEW frame \in Targets, SeekHere(frame) PROVE PlainFrames
  BY <1>5 DEF SeekHere, Call
<1>6. ASSUME NEW frame \in Targets, SeekAsk(frame) PROVE PlainFrames
  BY <1>6 DEF SeekAsk, Call
<1>7. CASE Launch
  BY <1>7
<1>8. CASE Join
  BY <1>8 DEF Join
<1>9. CASE SeekReturns
  BY <1>9 DEF SeekReturns, SeekIsDone, FlagsOK
<1>10. CASE SeekSleeps
  BY <1>10 DEF SeekSleeps, SeekIsDone
<1>11. CASE SeekLooksAgain
  BY <1>11 DEF SeekLooksAgain
<1>12. CASE SeekTimesOut
  BY <1>12 DEF SeekTimesOut, SeekIsDone
<1>13. ASSUME NEW t \in {"control", "decode"}, Claim(t) PROVE PlainFrames
  BY <1>13 DEF Claim
<1>14. ASSUME NEW t \in {"control", "decode"}, CountTurns(t) PROVE PlainFrames
  BY <1>14 DEF CountTurns
<1>15. ASSUME NEW t \in {"control", "decode"}, Handshake(t) PROVE PlainFrames
  BY <1>15 DEF Handshake, RingIsOurs
<1>16. ASSUME NEW t \in {"control", "decode"}, AwaitTurn(t) PROVE PlainFrames
  BY <1>16 DEF AwaitTurn
<1>17. ASSUME NEW t \in {"control", "decode"}, ResetRing(t) PROVE PlainFrames
  BY <1>17
<1>18. ASSUME NEW t \in {"control", "decode"}, ClearRequest(t) PROVE PlainFrames
  BY <1>18 DEF ClearRequest
<1>19. ASSUME NEW t \in {"control", "decode"}, Release(t) PROVE PlainFrames
  BY <1>19 DEF Release
<1>20. CASE DecodeTop
  BY <1>20 DEF DecodeTop
<1>21. CASE DecodeExit
  BY <1>21 DEF DecodeExit
<1>22. CASE DecodeSeek
  BY <1>22 DEF DecodeSeek
<1>23. CASE DecodeGoesOn
  BY <1>23 DEF DecodeGoesOn
<1>24. CASE DecodeSleep
  BY <1>24 DEF DecodeSleep
<1>25. CASE DecodeWakes
  BY <1>25 DEF DecodeWakes
<1>26. CASE RenderTop
  BY <1>26 DEF RenderTop, Least
<1>27. CASE RenderExit
  BY <1>27 DEF RenderExit
<1>28. CASE RenderParks
  BY <1>28 DEF RenderParks
<1>29. CASE RenderNaps
  BY <1>29 DEF RenderNaps
<1>30. CASE RenderReady
  BY <1>30 DEF RenderReady
<1>31. CASE RenderAcquires
  BY <1>31
<1>32. CASE RenderLooksForSeek
  BY <1>32 DEF RenderLooksForSeek
<1>33. CASE RenderSaysParked
  BY <1>33 DEF RenderSaysParked
<1>34. CASE BeginRead
  BY <1>34
<1>35. CASE EndRead
  BY <1>35
<1>36. CASE RenderCommits
  BY <1>36
<1>37. CASE RenderSettles
  BY <1>37 DEF RenderSettles, Finishing
<1>38. CASE RenderFails
  BY <1>38
<1>39. CASE UNCHANGED vars
  BY <1>39 DEF vars
<1> QED
  BY <1>1, <1>2, <1>3, <1>4, <1>5, <1>6, <1>7, <1>8, <1>9, <1>10, <1>11,
     <1>12, <1>13, <1>14, <1>15, <1>16, <1>17, <1>18, <1>19, <1>20, <1>21,
     <1>22, <1>23, <1>24, <1>25, <1>26, <1>27, <1>28, <1>29, <1>30, <1>31,
     <1>32, <1>33, <1>34, <1>35, <1>36, <1>37, <1>38, <1>39 DEF Plain,
     Render

LEMMA StepsOfFrames ==
  ASSUME Typed, ThreadInv, [Next]_vars
  PROVE  FrameStep
<1>1. CASE Plain
  BY <1>1, PlainSteps DEF FrameStep
<1>2. CASE Start
  BY <1>2 DEF FrameStep
<1>3. ASSUME NEW t \in {"control", "decode"}, MoveSource(t) PROVE FrameStep
  BY <1>3 DEF FrameStep
<1>4. ASSUME NEW t \in {"control", "decode"}, NEW here \in {"floor", "fill"}, NEW after,
             after \in {"launch", "clear"}, Fill(t, here, after)
      PROVE  FrameStep
  <2> USE DEF ThreadInv, Typed, PlacesOK, Threads, Goto, SeekLabels, Moving, Reading, Still,
          FrameStep
  <2>1. ~Moving /\ Still
    BY <1>4 DEF Fill
  <2>2. CASE Pump /\ Room >= Chunk
    BY <1>4, <2>1, <2>2 DEF ReadsAhead, Fill, turn, place
  <2>3. CASE UNCHANGED <<store, running, failed, woken, lost>>
    BY <1>4, <2>1, <2>3 DEF PlainFrames, Same, Fill, turn, store, place
  <2> QED
    BY <1>4, <2>2, <2>3 DEF Fill
<1>5. CASE DecodePump
  BY <1>5 DEF FrameStep, ReadsAhead, DecodePump, ThreadInv, Typed, PlacesOK, Threads, Goto,
     SeekLabels, Moving, Reading, Still, turn, place
<1> QED
  <2>1. \/ Plain \/ Start \/ Fill("control", "floor", "launch") \/ DecodePump
        \/ \E t \in {"control", "decode"} : MoveSource(t) \/ Fill(t, "fill", "clear")
    BY DEF Next, Calls, ControlStep, PerformSeek, Decode, Plain
  <2> QED
    BY <2>1, <1>1, <1>2, <1>3, <1>4, <1>5

LEMMA SoundBefore ==
  ASSUME lost => lost', late => late', Sound'
  PROVE  Sound
  BY DEF Sound, Faultless

(* None of them moves the source or the place that is counted from, takes    *)
(* back what is lost or late, or ends a move.                               *)
LEMMA PlainOnlyLoses ==
  ASSUME Typed, ThreadInv, PlainFrames
  PROVE  /\ UNCHANGED <<srcPos, drained, playedBase>>
         /\ (lost => lost') /\ (late => late') /\ (Moving => Moving')
<1> USE DEF Typed, ThreadInv, PlacesOK, Threads, Goto, Moving, SeekLabels, store, place, history
<1>1. CASE Launch
  <2>1. PICK size \in Buffers :
           \/ UNCHANGED lost
           \/ lost' = (lost \/ Least(size, Len(ring)) > 0)
    BY <1>1 DEF Launch
  <2>2. lost => lost'
    BY <2>1, Zenon
  <2> QED
    BY <1>1, <2>2 DEF Launch
<1>2. CASE RenderFails
  <2>1. lost => lost'
    BY <1>2, Zenon DEF RenderFails
  <2>2. UNCHANGED <<srcPos, drained, playedBase, late>> /\ (Moving => Moving')
    BY <1>2 DEF RenderFails
  <2> QED
    BY <2>1, <2>2
<1>3. CASE Same
  BY <1>3 DEF Same, Still
<1>4. ASSUME NEW t \in {"control", "decode"}, ResetRing(t)
      PROVE  /\ UNCHANGED <<srcPos, drained, playedBase>>
             /\ (lost => lost') /\ (late => late') /\ (Moving => Moving')
  BY <1>4 DEF ResetRing
<1>5. CASE RenderAcquires \/ BeginRead \/ EndRead \/ RenderCommits
  BY <1>5 DEF RenderAcquires, BeginRead, EndRead, RenderCommits
<1> QED
  BY <1>1, <1>2, <1>3, <1>4, <1>5 DEF PlainFrames

(* A seek that empties the ring takes nothing out of the render thread's    *)
(* hands.                                                                   *)
LEMMA ResetFindsNoReader ==
  ASSUME Typed, ThreadInv, TurnInv, WaitInv, ~late,
         NEW t \in {"control", "decode"}, pc[t] = "reset"
  PROVE  hand = <<>> /\ ~Reading
<1>1. CASE t = "control"
  BY <1>1 DEF ThreadInv, SeekLabels, Reading
<1>2. CASE t = "decode"
  BY <1>2 DEF ThreadInv, WaitInv, TurnInv, Counting, Claimed, SeekLabels, Owning, Gone,
     Reading
<1> QED
  BY <1>1, <1>2

(* Nor is a read begun between its two stores.                              *)
LEMMA NoReadAtReset ==
  ASSUME Typed, ThreadInv, TurnInv, WaitInv, ~late, BeginRead
  PROVE  pc["decode"] # "reset"
  BY DEF BeginRead, WaitInv, TurnInv, Counting, Claimed, SeekLabels, Owning, Gone

(* What is written behind what is being read leaves it where it is.         *)
LEMMA PutsLeaveReader ==
  ASSUME Typed, RingInv, NEW x \in Seq(0..(Length - 1)),
         Puts(x) \/ UNCHANGED <<ring, apart>>,
         UNCHANGED <<hand, late, torn>>, Still
  PROVE  RingInv'
<1> SUFFICES ASSUME ~late PROVE ~torn' /\ ~apart' /\ (Reading' => Len(hand') <= Len(ring'))
  BY DEF RingInv
<1>1. /\ ring \in Seq(0..(Length - 1)) /\ hand \in Seq(0..(Length - 1))
      /\ ~torn /\ ~apart /\ (Reading => Len(hand) <= Len(ring))
  BY DEF Typed, FramesOK, RingInv
<1>2. CASE ring' = ring \o x /\ apart' = apart
  <2>1. Len(ring \o x) = Len(ring) + Len(x) /\ Len(x) \in Nat /\ Len(ring) \in Nat
        /\ Len(hand) \in Nat
    BY <1>1, AppendTyped
  <2> QED
    BY <1>1, <1>2, <2>1 DEF Still
<1>3. CASE UNCHANGED <<ring, apart>>
  BY <1>1, <1>3 DEF Still
<1> QED
  BY <1>1, <1>2, <1>3 DEF Puts

LEMMA RingOfPlain ==
  ASSUME Typed, ThreadInv, TurnInv, WaitInv, RingInv, PlainFrames
  PROVE  RingInv'
<1> SUFFICES ASSUME ~late' PROVE ~torn' /\ ~apart' /\ (Reading' => Len(hand') <= Len(ring'))
  BY DEF RingInv
<1>1. ~late /\ ~torn /\ ~apart /\ (Reading => Len(hand) <= Len(ring))
  BY PlainOnlyLoses DEF RingInv, Typed, FlagsOK
<1>2. CASE Same
  BY <1>1, <1>2 DEF Same, Still
<1>3. CASE Launch
  <2>1. ~Reading' /\ apart' = apart /\ torn' = torn
    BY <1>3 DEF Launch, Reading, ThreadInv, SeekLabels, Goto, Typed, PlacesOK, Threads
  <2> QED
    BY <1>1, <2>1
<1>4. ASSUME NEW t \in {"control", "decode"}, ResetRing(t)
      PROVE  ~torn' /\ ~apart' /\ ~Reading'
  <2>1. ~Reading
    BY <1>1, <1>4, ResetFindsNoReader DEF ResetRing
  <2> QED
    BY <1>4, <2>1 DEF ResetRing, Reading, Goto, Typed, PlacesOK, Threads
<1>5. CASE RenderAcquires \/ RenderCommits \/ RenderFails
  BY <1>1, <1>5 DEF RenderAcquires, RenderCommits, RenderFails, Reading, Goto, Typed,
     PlacesOK, Threads, store, history
<1>6. CASE BeginRead
  <2>1. hand' = SubSeq(ring, 1, Least(want, Len(ring))) /\ UNCHANGED <<ring, apart, torn>>
    BY <1>1, <1>6, NoReadAtReset DEF BeginRead, store, history
  <2>2. ring \in Seq(0..(Length - 1)) /\ Least(want, Len(ring)) \in 0..Len(ring)
    BY GraphAssumption DEF Typed, FramesOK, Least, GraphAssumption
  <2>3. Len(hand') = Least(want, Len(ring))
    BY <2>1, <2>2, TakeTyped
  <2> QED
    BY <1>1, <2>1, <2>2, <2>3
<1>7. CASE EndRead
  <2>1. ~torn' /\ ~Reading'
    BY <1>7 DEF EndRead, Reading, Goto, Typed, PlacesOK, Threads
  <2>2. Len(hand) <= Len(ring) /\ Len(hand) \in Nat /\ Len(ring) \in Nat
    BY <1>1, <1>7 DEF EndRead, Reading, Typed, FramesOK
  <2>3. apart' = apart
    BY <1>1, <1>7, <2>2 DEF EndRead
  <2> QED
    BY <1>1, <2>1, <2>3
<1> QED
  BY <1>2, <1>3, <1>4, <1>5, <1>6, <1>7 DEF PlainFrames

LEMMA RingIsKept ==
  ASSUME Typed, ThreadInv, TurnInv, WaitInv, RingInv, [Next]_vars
  PROVE  RingInv'
<1>1. FrameStep
  BY StepsOfFrames
<1>2. CASE PlainFrames
  BY <1>2, RingOfPlain
<1>3. CASE Start
  <2>1. ~Reading' /\ apart' = FALSE /\ torn' = torn /\ late' = late
    BY <1>3 DEF Start, Call, Reading, ThreadInv, SeekLabels, Goto, Typed, PlacesOK, Threads
  <2> QED
    BY <2>1 DEF RingInv
<1>4. CASE ReadsAhead
  <2>1. \E x \in Seq(0..(Length - 1)) : Puts(x) \/ UNCHANGED <<ring, apart>>
    <3>1. CASE PumpsFrames
      <4>1. PICK got \in 1..Least(Chunk, Length - srcPos) : Puts(Frames(srcPos, got))
        BY <3>1 DEF PumpsFrames, PumpFrames
      <4>2. got \in Nat /\ srcPos \in Nat /\ Length \in Nat /\ srcPos + got <= Length
        BY GraphAssumption DEF GraphAssumption, Typed, FramesOK, Least
      <4> QED
        BY <4>1, <4>2, FramesTyped
    <3>2. CASE PumpsNothing \/ PumpFails
      <4>1. ring \in Seq(0..(Length - 1)) /\ UNCHANGED <<ring, apart>>
        BY <3>2 DEF PumpsNothing, PumpFails, Typed, FramesOK
      <4> QED
        BY <4>1
    <3> QED
      BY <1>4, <3>1, <3>2 DEF ReadsAhead, Pump
  <2> QED
    BY <1>4, <2>1, PutsLeaveReader DEF ReadsAhead
<1>5. ASSUME NEW t \in {"control", "decode"}, MoveSource(t) PROVE RingInv'
  <2>1. Reading' = Reading /\ UNCHANGED <<ring, apart, hand, torn, late>>
    BY <1>5 DEF MoveSource, Reading, Goto, turn, Typed, PlacesOK, Threads
  <2> QED
    BY <2>1 DEF RingInv
<1> QED
  BY <1>1, <1>2, <1>3, <1>4, <1>5 DEF FrameStep

(* The ring grows by what comes next.                                       *)
LEMMA GrowsInOrder ==
  ASSUME Typed, NEW e \in Nat, NEW got \in Nat, e + got <= Length, OrderedTo(e),
         ring' = ring \o Frames(e, got), UNCHANGED <<hand, due, torn, apart>>, ~Moving, Still
  PROVE  OrderedTo(e + got)'
<1> USE DEF Still
<1>1. /\ ring \in Seq(0..(Length - 1)) /\ hand \in Seq(0..(Length - 1))
      /\ due \in Nat /\ due' = due /\ Length \in Nat
  BY GraphAssumption DEF Typed, FramesOK, GraphAssumption
<1>2. ring' = ring \o Frames(e, got)
  OBVIOUS
<1>3. Frames(e, got) \in Seq(0..(Length - 1))
  BY <1>1, <1>2, FramesTyped
<1>4. Reading' => Len(hand') <= Len(ring') /\ hand' = SubSeq(ring', 1, Len(hand'))
  <2> SUFFICES ASSUME Reading PROVE Len(hand) <= Len(ring') /\ hand = SubSeq(ring', 1, Len(hand))
    OBVIOUS
  <2>1. Len(hand) \in 0..Len(ring) /\ hand = SubSeq(ring, 1, Len(hand))
    BY <1>1 DEF OrderedTo
  <2>2. Len(ring') >= Len(ring)
    BY <1>1, <1>2, <1>3, AppendTyped, FramesCount
  <2>3. SubSeq(ring', 1, Len(hand)) = SubSeq(ring, 1, Len(hand))
    BY <2>1, <1>1, <1>2, <1>3, TakeOfJoin
  <2> QED
    BY <2>1, <2>2, <2>3, <1>1
<1>5. InHand' = InHand \o Frames(e, got)
  <2>1. CASE Reading
    BY <2>1, <1>2 DEF InHand, Reading
  <2>2. CASE ~Reading
    <3>1. InHand' = hand \o ring' /\ InHand = hand \o ring
      BY <2>2 DEF InHand, Reading
    <3>2. (hand \o ring) \o Frames(e, got) = hand \o (ring \o Frames(e, got))
      <4> DEFINE S == 0..(Length - 1)
      <4>1. ring \in Seq(S) /\ hand \in Seq(S) /\ Frames(e, got) \in Seq(S)
        BY <1>1, <1>3
      <4> HIDE DEF S
      <4> QED
        BY <4>1, JoinOfThree, SMTT(30)
    <3> QED
      BY <3>1, <3>2, <1>2
  <2> QED
    BY <2>1, <2>2
<1>6. due <= e /\ InHand = Frames(due, e - due)
  BY DEF OrderedTo
<1> DEFINE to == e + got
<1>7. to \in Nat /\ due <= to /\ InHand' = Frames(due, to - due)
  <2>1. e - due \in Nat
    BY <1>1, <1>6
  <2>2. Frames(due, e - due) \o Frames(due + (e - due), got) = Frames(due, (e - due) + got)
    BY <1>1, <2>1, FramesJoin, ZenonT(40)
  <2>3. due + (e - due) = e /\ (e - due) + got = to - due /\ to \in Nat /\ due <= to
    BY <1>1, <1>6
  <2> QED
    BY <1>5, <1>6, <2>2, <2>3
<1> HIDE DEF to
<1>8. OrderedTo(to)'
  BY <1>1, <1>4, <1>7 DEF OrderedTo
<1> QED
  BY <1>8 DEF to

(* Of the ring and the hands nothing is anybody's but the one sequence.     *)
LEMMA ReadsInOrder ==
  ASSUME Typed, ThreadInv, Ordered, ReadsAhead, Sound'
  PROVE  Ordered'
<1>1. /\ ring \in Seq(0..(Length - 1)) /\ srcPos \in Nat /\ Length \in Nat
      /\ UNCHANGED <<hand, due, torn>> /\ ~Moving /\ Still /\ ~apart
  BY GraphAssumption DEF Typed, FramesOK, GraphAssumption, ReadsAhead, Ordered, OrderedTo
<1>2. PICK got \in Nat : /\ ring' = ring \o Frames(srcPos, got)
                         /\ apart' = apart
                         /\ srcPos' = srcPos + got
                         /\ srcPos + got <= Length
  <2>1. CASE PumpsFrames
    <3>1. PICK got \in 1..Least(Chunk, Length - srcPos) :
             /\ ring' = ring \o Frames(srcPos, got) /\ apart' = apart
             /\ srcPos' = srcPos + got
      BY <1>1, <2>1 DEF PumpsFrames, PumpFrames, Puts
    <3>2. got \in Nat /\ srcPos + got <= Length
      BY <1>1, GraphAssumption DEF GraphAssumption, Least
    <3> QED
      BY <3>1, <3>2
  <2>2. CASE PumpsNothing
    <3>1. ring \o Frames(srcPos, 0) = ring
      BY <1>1, FramesOfNone
    <3> QED
      BY <2>2, <3>1, <1>1 DEF PumpsNothing
  <2>3. CASE PumpFails
    BY <2>3 DEF PumpFails, Sound, Faultless
  <2> QED
    BY <2>1, <2>2, <2>3 DEF Pump, ReadsAhead
<1>3. PICK e \in Nat : e = srcPos
  BY <1>1
<1>4. OrderedTo(e)
  BY <1>3 DEF Ordered
<1>5. OrderedTo(e + got)'
  BY <1>1, <1>2, <1>3, <1>4, GrowsInOrder
<1>6. srcPos' = e + got
  BY <1>2, <1>3
<1> QED
  BY <1>5, <1>6 DEF Ordered, OrderedTo

(* What the render thread holds is what is due next, and the ring goes on   *)
(* from there.                                                              *)
LEMMA HandIsNext ==
  ASSUME Typed, NEW e \in Nat, OrderedTo(e), ~Reading
  PROVE  /\ DueAfter(hand) = due + Len(hand)
         /\ ~Moving => /\ Len(hand) \in 0..(e - due)
                       /\ ring = Frames(due + Len(hand), (e - due) - Len(hand))
<1>1. /\ ring \in Seq(0..(Length - 1)) /\ hand \in Seq(0..(Length - 1))
      /\ due \in Nat
  BY GraphAssumption DEF Typed, FramesOK, GraphAssumption
<1> DEFINE n == Len(hand)
           m == e - due
<1>2. CASE Moving
  <2>1. hand = <<>> /\ DueAfter(<<>>) = due
    BY <1>2 DEF OrderedTo, DueAfter
  <2> QED
    BY <1>1, <1>2, <2>1
<1>3. CASE ~Moving
  <2>1. n \in Nat /\ m \in Nat /\ hand \o ring = Frames(due, m)
    BY <1>1, <1>3 DEF OrderedTo, InHand, Reading
  <2>2. Len(hand \o ring) = n + Len(ring)
    BY <1>1, AppendTyped
  <2>3. n \in 0..m
    <3>1. n + Len(ring) = m
      BY <1>1, <2>1, <2>2, FramesCount
    <3> QED
      BY <1>1, <2>1, <3>1
  <2>4. hand = SubSeq(Frames(due, m), 1, n) /\ ring = Drop(Frames(due, m), n)
    BY <1>1, <2>1, JoinTake
  <2> HIDE DEF n, m
  <2>5. hand = Frames(due, n) /\ ring = Frames(due + n, m - n)
    BY <1>1, <2>1, <2>3, <2>4, FramesFirst, FramesRest
  <2>6. DueAfter(hand) = due + n
    BY <1>1, <2>1, <2>5, DueAfterFrames
  <2> QED
    BY <2>3, <2>5, <2>6 DEF n, m
<1> QED
  BY <1>2, <1>3

(* Nothing in flight: the device is due the frame at e.                     *)
LEMMA NothingInFlight ==
  ASSUME Typed, NEW e \in Nat, OrderedTo(e), ~Moving, InHand = <<>>
  PROVE  due = e
<1>1. due \in Nat
  BY GraphAssumption DEF Typed, FramesOK, GraphAssumption
<1>2. e - due \in Nat /\ Frames(due, e - due) = <<>>
  BY <1>1 DEF OrderedTo
<1>3. e - due = 0
  BY <1>1, <1>2, FramesCount
<1> QED
  BY <1>1, <1>3

LEMMA LaunchesInOrder ==
  ASSUME Typed, ThreadInv, NEW e \in Nat, OrderedTo(e), Launch, Sound'
  PROVE  /\ OrderedTo(e)'
         /\ \/ UNCHANGED <<due, since>>
            \/ \E size \in Buffers : /\ since' = Counted(size)
                                     /\ due' \in due..(due + Least(size, Len(ring)))
<1>1. /\ ring \in Seq(0..(Length - 1)) /\ due \in Nat
      /\ hand = <<>> /\ hand' = hand /\ torn' = torn /\ apart' = apart
      /\ ~Moving /\ ~Moving' /\ ~Reading /\ ~Reading'
  BY GraphAssumption DEF Typed, FramesOK, PlacesOK, ThreadInv, Moving, Reading, Launch,
     Goto, Threads, GraphAssumption, turn, store, SeekLabels
<1>2. due <= e /\ ring = Frames(due, e - due)
  BY <1>1, JoinOfNone DEF OrderedTo, InHand, Reading
<1>3. e - due \in Nat /\ Len(ring) = e - due
  <2>1. e - due \in Nat
    BY <1>1, <1>2
  <2> QED
    BY <1>1, <1>2, <2>1, FramesCount
<1>4. PICK size \in Buffers :
         \/ UNCHANGED <<ring, due, since>>
         \/ /\ UNCHANGED <<due, since>> /\ Faults # {}
            /\ lost' = (lost \/ Least(size, Len(ring)) > 0)
            /\ ring' = Drop(ring, Least(size, Len(ring)))
         \/ FirstBuffer(size)
  BY DEF Launch
<1> DEFINE n == Least(size, Len(ring))
<1>5. n \in 0..(e - due)
  BY <1>1, <1>3, GraphAssumption DEF GraphAssumption, Least
<1>6. /\ due' <= e /\ ring' = Frames(due', e - due')
      /\ UNCHANGED <<due, since>> \/ (since' = Counted(size) /\ due' \in due..(due + n))
  <2>1. CASE UNCHANGED <<ring, due, since>>
    BY <2>1, <1>2
  <2>2. CASE /\ UNCHANGED <<due, since>> /\ Faults # {}
             /\ lost' = (lost \/ n > 0)
             /\ ring' = Drop(ring, n)
    <3>1. lost' \/ ~(n > 0)
      BY <2>2, Zenon
    <3>2. n = 0
      <4> HIDE DEF n
      <4> QED
        BY <2>2, <3>1, <1>5 DEF Sound, Faultless
    <3> QED
      BY <2>2, <3>2, <1>1, <1>2, <1>3, FramesRest
  <2>3. CASE FirstBuffer(size)
    <3>1. ring' = Drop(ring, n) /\ due' = DueAfter(SubSeq(ring, 1, n))
      BY <2>3 DEF FirstBuffer
    <3> HIDE DEF n
    <3>2. SubSeq(ring, 1, n) = Frames(due, n)
      BY <1>1, <1>2, <1>3, <1>5, FramesFirst
    <3>3. due' = due + n
      <4>1. n \in Nat
        BY <1>3, <1>5
      <4> QED
        BY <3>1, <3>2, <4>1, <1>1, DueAfterFrames
    <3>4. ring' = Frames(due + n, (e - due) - n)
      BY <3>1, <1>1, <1>2, <1>3, <1>5, FramesRest
    <3>5. /\ (e - due) - n = e - (due + n) /\ due + n <= e
          /\ due + n \in due..(due + n)
      BY <1>1, <1>5
    <3> QED
      BY <2>3, <3>3, <3>4, <3>5 DEF FirstBuffer
  <2> QED
    BY <1>4, <2>1, <2>2, <2>3
<1>7. <<>> \o ring' = ring'
  <2>1. ring' \in Seq(0..(Length - 1))
    BY TypedIsKept DEF Typed, FramesOK, Next, ControlStep
  <2> QED
    BY <2>1, JoinOfNone
<1> QED
  BY <1>1, <1>6, <1>7 DEF OrderedTo, InHand, Reading

(* The plain steps keep what is in flight in order, up to wherever it ends.  *)
LEMMA OrderOfPlain ==
  ASSUME Typed, ThreadInv, NEW e \in Nat, OrderedTo(e), PlainFrames, Sound',
         \A t \in {"control", "decode"} : ResetRing(t) => hand = <<>> /\ ~Reading,
         BeginRead => pc["decode"] # "reset"
  PROVE  OrderedTo(e)'
<1>1. /\ ring \in Seq(0..(Length - 1)) /\ hand \in Seq(0..(Length - 1))
      /\ due \in Nat
  BY GraphAssumption DEF Typed, FramesOK, GraphAssumption
<1>2. CASE Same
  <2>2. InHand' = InHand
    BY <1>2 DEF Same, Still, InHand, Reading
  <2> QED
    BY <1>2, <2>2 DEF Same, Still, OrderedTo
<1>3. CASE Launch
  BY <1>3, LaunchesInOrder
<1>4. ASSUME NEW t \in {"control", "decode"}, ResetRing(t)
      PROVE  OrderedTo(e)'
  <2>3. hand = <<>> /\ ~Reading
    BY <1>4
  <2>4. ring' = <<>> /\ hand' = <<>> /\ ~torn' /\ ~apart' /\ Moving' /\ ~Reading'
    BY <1>4, <2>3 DEF ResetRing, Moving, Reading, Goto, turn, Typed, PlacesOK, Threads
  <2> QED
    BY <2>4 DEF OrderedTo
<1>5. CASE RenderAcquires
  <2>2. Still /\ ~Reading
    BY <1>5 DEF RenderAcquires, Still, Moving, Reading, Goto, Typed, PlacesOK, Threads
  <2>3. InHand' = InHand
    BY <1>5, <2>2 DEF RenderAcquires, Still, InHand, Reading, store
  <2> QED
    BY <1>5, <2>2, <2>3 DEF RenderAcquires, Still, OrderedTo, store, history
<1>6. CASE BeginRead
  <2>2. hand = <<>> /\ ~Reading /\ (Moving' <=> Moving)
    BY <1>6 DEF BeginRead, Moving, Reading, Goto, Typed, PlacesOK, Threads, ThreadInv
  <2>3. ring' = ring /\ due' = due /\ torn' = torn /\ apart' = apart
    BY <1>6 DEF BeginRead, store, history
  <2> DEFINE n == Least(want, Len(ring))
  <2>4. n \in 0..Len(ring) /\ hand' = SubSeq(ring, 1, n)
    <3>1. ~apart /\ pc["decode"] # "reset"
      BY <1>6 DEF OrderedTo
    <3> QED
      BY <1>1, <1>6, <3>1, GraphAssumption
      DEF BeginRead, Least, Typed, FramesOK, GraphAssumption
  <2> HIDE DEF n
  <2>5. Len(hand') = n
    BY <1>1, <2>4, TakeTyped
  <2>6. Moving => hand' = <<>>
    BY <2>4, <2>5 DEF OrderedTo
  <2>7. <<>> \o ring = ring
    BY <1>1, JoinOfNone
  <2>8. InHand = ring
    BY <2>2, <2>7 DEF InHand, Reading
  <2>9. InHand' = ring
    <3>1. Reading' \/ hand' = <<>>
      BY <1>6 DEF BeginRead, Reading, Goto, Typed, PlacesOK, Threads
    <3> QED
      BY <2>3, <2>7, <3>1 DEF InHand, Reading
  <2>10. Len(hand') <= Len(ring')
    BY <1>1, <2>3, <2>4, <2>5
  <2> QED
    BY <2>2, <2>3, <2>4, <2>5, <2>6, <2>8, <2>9, <2>10 DEF OrderedTo
<1>7. CASE EndRead
  <2>1. ~torn /\ ~apart
    BY DEF OrderedTo
  <2>2. /\ Reading /\ hand # <<>> /\ ~Moving /\ ~Moving' /\ ~Reading' /\ ~torn' /\ ~apart'
        /\ ring' = Drop(ring, Len(hand)) /\ hand' = hand /\ due' = due
    BY <1>7, <2>1 DEF EndRead, Moving, Reading, Goto, Typed, PlacesOK, Threads, ThreadInv,
       OrderedTo, turn
  <2> DEFINE n == Len(hand)
           m == e - due
  <2>3. n \in Nat /\ m \in Nat /\ ring = Frames(due, m)
    BY <1>1, <2>1, <2>2 DEF OrderedTo, InHand, Reading
  <2>4. n <= Len(ring) /\ hand = SubSeq(ring, 1, n)
    BY <2>1, <2>2 DEF OrderedTo
  <2> HIDE DEF n, m
  <2>5. n \in 0..m
    BY <1>1, <2>3, <2>4, FramesCount
  <2>6. hand = Frames(due, n) /\ ring' = Frames(due + n, m - n)
    BY <1>1, <2>2, <2>3, <2>4, <2>5, FramesFirst, FramesRest DEF n
  <2>7. Frames(due, n) \o Frames(due + n, m - n) = Frames(due, m)
    <3>1. m - n \in Nat /\ n + (m - n) = m
      BY <2>3, <2>5
    <3>2. Frames(due, n) \o Frames(due + n, m - n) = Frames(due, n + (m - n))
      BY <1>1, <2>3, <3>1, FramesJoin, ZenonT(40)
    <3> QED
      BY <3>1, <3>2
  <2>8. InHand' = Frames(due, m)
    BY <2>2, <2>6, <2>7 DEF InHand, Reading
  <2> QED
    BY <2>1, <2>2, <2>8 DEF OrderedTo, m
<1>8. CASE RenderCommits
  <2>2. /\ ~Reading /\ ~Reading' /\ (Moving' <=> Moving) /\ hand' = <<>> /\ ring' = ring
        /\ due' = DueAfter(hand) /\ torn' = torn /\ apart' = apart
    BY <1>8 DEF RenderCommits, Moving, Reading, Goto, Typed, PlacesOK, Threads, store
  <2>3. due' = due + Len(hand)
    BY <2>2, HandIsNext
  <2>4. CASE Moving
    <3>1. hand = <<>> /\ ring = <<>>
      BY <2>4 DEF OrderedTo
    <3> QED
      BY <1>1, <2>2, <2>3, <2>4, <3>1 DEF OrderedTo
  <2>5. CASE ~Moving
    <3> DEFINE n == Len(hand)
               m == e - due
    <3>1. n \in 0..m /\ ring = Frames(due + n, m - n)
      BY <2>2, <2>5, HandIsNext
    <3> HIDE DEF n, m
    <3>2. m - n = e - (due + n) /\ due + n <= e
      BY <1>1, <3>1 DEF m
    <3>3. InHand' = ring
      <4>1. <<>> \o ring = ring
        BY <1>1, JoinOfNone
      <4> QED
        BY <2>2, <4>1 DEF InHand, Reading
    <3> QED
      BY <2>2, <2>3, <2>5, <3>1, <3>2, <3>3 DEF OrderedTo, n
  <2> QED
    BY <2>4, <2>5
<1>9. CASE RenderFails
  <2>1. Faults # {}
    BY <1>9 DEF RenderFails, SinkCallFails
  <2>2. hand = <<>> /\ ~lost /\ ~lost'
    <3>1. lost' = (lost \/ hand # <<>>)
      BY <1>9 DEF RenderFails
    <3>2. ~lost'
      BY <2>1 DEF Sound, Faultless
    <3>3. ~lost /\ ~(hand # <<>>)
      BY <3>1, <3>2, Zenon
    <3> QED
      BY <3>2, <3>3
  <2>4. /\ ~Reading /\ ~Reading' /\ (Moving' <=> Moving) /\ hand' = hand /\ ring' = ring
        /\ due' = due /\ torn' = torn /\ apart' = apart
    BY <1>9, <2>2 DEF RenderFails, SinkCallFails, Moving, Reading, Goto, Typed, PlacesOK,
       Threads, store
  <2>5. InHand' = InHand
    BY <2>4 DEF InHand, Reading
  <2> QED
    BY <2>4, <2>5 DEF OrderedTo
<1> QED
  BY <1>2, <1>3, <1>4, <1>5, <1>6, <1>7, <1>8, <1>9 DEF PlainFrames

LEMMA OrderIsKept ==
  ASSUME Typed, ThreadInv, TurnInv, WaitInv, OrderInv, [Next]_vars
  PROVE  OrderInv'
<1> SUFFICES ASSUME Sound' PROVE Ordered'
  BY DEF OrderInv
<1>1. FrameStep
  BY StepsOfFrames
<1>2. /\ ring \in Seq(0..(Length - 1)) /\ hand \in Seq(0..(Length - 1))
      /\ srcPos \in Nat /\ due \in Nat /\ target \in MaybeFrame
  BY GraphAssumption DEF Typed, FramesOK, GraphAssumption
<1>3. CASE PlainFrames
  <2>1. srcPos' = srcPos /\ (lost => lost') /\ (late => late')
    BY <1>3, PlainOnlyLoses
  <2>2. Sound /\ Ordered
    BY <2>1, SoundBefore DEF OrderInv
  <2>3. ASSUME NEW t \in {"control", "decode"}, ResetRing(t) PROVE hand = <<>> /\ ~Reading
    BY <2>2, <2>3, ResetFindsNoReader DEF ResetRing, Sound
  <2>7. BeginRead => pc["decode"] # "reset"
    BY <2>2, NoReadAtReset DEF Sound
  <2>4. PICK e \in Nat : e = srcPos
    BY <1>2
  <2>5. OrderedTo(e)
    BY <2>2, <2>4 DEF Ordered
  <2>6. OrderedTo(e)'
    BY <1>3, <2>3, <2>5, <2>7, OrderOfPlain
  <2> QED
    BY <2>1, <2>4, <2>6 DEF Ordered, OrderedTo
<1>4. CASE Start
  <2>1. /\ ~Moving' /\ ~Reading' /\ hand' = <<>> /\ ring' = <<>> /\ due' = srcPos'
        /\ torn' = torn /\ apart' = FALSE /\ (lost => lost') /\ late' = late
    BY <1>4 DEF Start, Call, Typed, PlacesOK, FlagsOK, ThreadInv, Moving, Reading, Goto,
       Threads, turn
  <2>2. Ordered
    BY <2>1, SoundBefore DEF OrderInv
  <2>3. InHand' = <<>>
    BY <2>1 DEF InHand, Reading
  <2>4. srcPos' = srcPos /\ Frames(srcPos, 0) = <<>>
    BY <1>2, <1>4, FramesOfNone DEF Start
  <2> QED
    BY <1>2, <2>1, <2>2, <2>3, <2>4 DEF Ordered, OrderedTo
<1>5. CASE ReadsAhead
  <2>1. lost => lost'
    BY <1>5 DEF ReadsAhead, Pump, PumpsFrames, PumpsNothing, PumpFails
  <2>2. Ordered
    BY <1>5, <2>1, SoundBefore DEF ReadsAhead, OrderInv
  <2> QED
    BY <1>5, <2>2, ReadsInOrder
<1>6. ASSUME NEW t \in {"control", "decode"}, MoveSource(t)
      PROVE  Ordered'
  <2>1. lost => lost'
    BY <1>6 DEF MoveSource
  <2>2. Ordered
    BY <1>6, <2>1, SoundBefore DEF MoveSource, OrderInv
  <2>3. ring = <<>> /\ hand = <<>> /\ ~Reading /\ ~torn /\ ~apart
    BY <1>6, <2>2 DEF Ordered, OrderedTo, Moving, MoveSource, ThreadInv, Reading
  <2>4. srcPos' = target /\ due' = target
    BY <1>6 DEF MoveSource, Sound, Faultless
  <2>5. target \in Nat
    BY <1>2, <1>6, GraphAssumption
    DEF MoveSource, Typed, TargetInv, SeekLabels, MaybeFrame, None, GraphAssumption
  <2>6. ring' = <<>> /\ hand' = <<>> /\ ~Reading' /\ ~torn' /\ ~apart'
    BY <1>6, <2>3 DEF MoveSource, Reading, Goto, turn, Typed, PlacesOK, Threads
  <2>7. InHand' = <<>>
    BY <2>6 DEF InHand, Reading
  <2>8. srcPos' - due' = 0 /\ due' <= srcPos' /\ Frames(due', srcPos' - due') = <<>>
    <3>1. target - target = 0 /\ Frames(target, 0) = <<>>
      BY <2>5, FramesOfNone
    <3> QED
      BY <2>4, <2>5, <3>1
  <2>9. Reading' => Len(hand') <= Len(ring') /\ hand' = SubSeq(ring', 1, Len(hand'))
    BY <2>6
  <2> QED
    BY <2>6, <2>7, <2>8, <2>9 DEF Ordered, OrderedTo
<1> QED
  BY <1>1, <1>3, <1>4, <1>5, <1>6 DEF FrameStep

LEMMA HandsOfPlain ==
  ASSUME Typed, ThreadInv, TurnInv, WaitInv, RingInv, HandInv, PlainFrames
  PROVE  HandInv'
<1> USE DEF Typed, HandInv
<1>1. late => late'
  BY PlainOnlyLoses
<1>2. CASE RenderAcquires
  <2>1. hand' = <<>> /\ want' \in Nat
    BY <1>2, GraphAssumption DEF RenderAcquires, ThreadInv, GraphAssumption
  <2> QED
    BY <2>1, GraphAssumption DEF GraphAssumption
<1>3. CASE BeginRead
  <2> DEFINE n == Least(want, Len(ring))
  <2>1. n \in 0..Len(ring) /\ want' = want /\ n <= want /\ n <= Capacity /\ want \in Nat
    BY <1>3, GraphAssumption DEF BeginRead, Least, FramesOK, GraphAssumption
  <2> HIDE DEF n
  <2>2. Len(SubSeq(ring, 1, n)) = n
    BY <2>1, TakeTyped DEF FramesOK
  <2>3. CASE hand' = SubSeq(ring, 1, n)
    BY <2>1, <2>2, <2>3
  <2>4. CASE late /\ hand' \in Anything
    <3>1. Len(hand') = want
      BY <2>1, <2>4 DEF Anything
    <3> QED
      BY <1>1, <2>1, <2>4, <3>1
  <2>5. hand' = SubSeq(ring, 1, n) \/ (late /\ hand' \in Anything)
    BY <1>3, NoReadAtReset DEF BeginRead, RingInv, n
  <2> QED
    BY <2>3, <2>4, <2>5
<1>4. CASE EndRead
  <2>1. want' = want /\ late' = late
    BY <1>4 DEF EndRead
  <2>2. CASE UNCHANGED hand
    BY <2>1, <2>2
  <2>3. CASE hand' \in [1..Len(hand) -> 0..(Length - 1)] /\ ~UNCHANGED hand
    <3>1. late
      BY <1>4, <2>3 DEF EndRead, RingInv, Reading
    <3>2. Len(hand) \in Nat
      BY DEF FramesOK
    <3>3. Len(hand') = Len(hand)
      BY <2>3, <3>2
    <3> QED
      BY <2>1, <3>1, <3>3
  <2> QED
    BY <1>4, <2>2, <2>3 DEF EndRead
<1>5. CASE hand' = <<>> /\ want' = want
  <2>1. want \in Nat
    BY GraphAssumption DEF FramesOK, GraphAssumption
  <2> QED
    BY <1>5, <2>1, GraphAssumption DEF GraphAssumption
<1>6. CASE UNCHANGED <<hand, want>>
  BY <1>1, <1>6
<1> QED
  BY <1>2, <1>3, <1>4, <1>5, <1>6 DEF PlainFrames, Same, Launch, ResetRing, RenderCommits,
     RenderFails, turn

LEMMA HandsAreKept ==
  ASSUME Typed, ThreadInv, TurnInv, WaitInv, RingInv, HandInv, [Next]_vars
  PROVE  HandInv'
<1>1. FrameStep
  BY StepsOfFrames
<1>2. CASE PlainFrames
  BY <1>2, HandsOfPlain
<1>3. CASE UNCHANGED <<hand, want, late>>
  BY <1>3 DEF HandInv
<1> QED
  BY <1>1, <1>2, <1>3 DEF FrameStep, Start, ReadsAhead, MoveSource, turn

(* Counting a buffer of which some may be silence.                          *)
LEMMA PositionAfterBuffer ==
  ASSUME Typed, PositionIsNotBehind, NEW size \in Nat,
         since' = Counted(size), due' \in Nat, due' <= due + size,
         playedBase' = playedBase, ~lost' => ~lost, ~late' => ~late
  PROVE  PositionIsNotBehind'
  BY GraphAssumption
  DEF Typed, FramesOK, PositionIsNotBehind, Position, Counted, Least, GraphAssumption

LEMMA PositionOfPlain ==
  ASSUME Typed, ThreadInv, NEW e \in Nat, OrderedTo(e), HandInv, PositionIsNotBehind,
         PlainFrames, Typed', ~lost', ~late'
  PROVE  PositionIsNotBehind'
<1>1. ~lost /\ ~late /\ due \in Nat /\ Sound'
  BY PlainOnlyLoses, GraphAssumption
  DEF Typed, FlagsOK, FramesOK, Sound, GraphAssumption
<1>2. CASE UNCHANGED <<due, place>>
  BY <1>1, <1>2 DEF PositionIsNotBehind, Position, place
<1>3. CASE Launch
  <2>1. \/ UNCHANGED <<due, since>>
        \/ \E size \in Buffers : /\ since' = Counted(size)
                                 /\ due' \in due..(due + Least(size, Len(ring)))
    BY <1>1, <1>3, LaunchesInOrder
  <2>2. playedBase' = playedBase
    BY <1>3 DEF Launch
  <2>3. CASE UNCHANGED <<due, since>>
    BY <1>2, <2>2, <2>3 DEF place
  <2>4. ASSUME NEW size \in Buffers, since' = Counted(size),
               due' \in due..(due + Least(size, Len(ring)))
        PROVE  PositionIsNotBehind'
    <3>1. size \in Nat /\ due' \in Nat /\ due' <= due + size
      BY <1>1, <2>4, GraphAssumption, SMTT(30) DEF Typed, FramesOK, Least, GraphAssumption
    <3> QED
      BY <1>1, <2>2, <2>4, <3>1, PositionAfterBuffer
  <2> QED
    BY <2>1, <2>3, <2>4
<1>4. CASE RenderCommits
  <2>1. ~Reading /\ playedBase' = playedBase /\ since' = Counted(want)
    BY <1>4 DEF RenderCommits, Reading
  <2>2. due' = due + Len(hand)
    BY <1>4, <2>1, HandIsNext DEF RenderCommits
  <2>3. want \in Nat /\ Len(hand) \in Nat /\ Len(hand) <= want
    BY GraphAssumption, SMTT(30) DEF Typed, FramesOK, HandInv, GraphAssumption
  <2> QED
    BY <1>1, <2>1, <2>2, <2>3, PositionAfterBuffer
<1> QED
  BY <1>2, <1>3, <1>4
  DEF PlainFrames, Same, ResetRing, RenderAcquires, BeginRead, EndRead, RenderFails, history

LEMMA PositionIsKept ==
  ASSUME Typed, ThreadInv, OrderInv, HandInv, PositionIsNotBehind, [Next]_vars
  PROVE  PositionIsNotBehind'
<1> SUFFICES ASSUME ~lost', ~late' PROVE PositionIsNotBehind'
  BY DEF PositionIsNotBehind
<1>1. FrameStep
  BY StepsOfFrames
<1>2. Typed' /\ srcPos \in Nat
  BY TypedIsKept, GraphAssumption DEF Typed, FramesOK, GraphAssumption
<1>3. CASE PlainFrames
  <2>1. Ordered
    BY <1>3, PlainOnlyLoses DEF OrderInv, Sound
  <2>2. PICK e \in Nat : e = srcPos
    BY <1>2
  <2>3. OrderedTo(e)
    BY <2>1, <2>2 DEF Ordered
  <2> QED
    BY <1>2, <1>3, <2>3, PositionOfPlain
<1>4. CASE Start
  <2>1. ~lost /\ ring = <<>>
    <3>1. lost' = (lost \/ ring # <<>>)
      BY <1>4 DEF Start
    <3>2. ~lost /\ ~(ring # <<>>)
      BY <3>1, Zenon
    <3> QED
      BY <3>2
  <2>2. ~late /\ ~Moving /\ hand = <<>> /\ ~Reading
    BY <1>4 DEF Start, Call, Typed, PlacesOK, ThreadInv, Moving, Reading
  <2>3. InHand = <<>>
    BY <2>1, <2>2 DEF InHand, Reading
  <2>4. due = srcPos
    <3>1. OrderedTo(srcPos)
      BY <2>1, <2>2 DEF OrderInv, Sound, Ordered
    <3> QED
      BY <1>2, <2>2, <2>3, <3>1, NothingInFlight
  <2> QED
    BY <1>4, <2>1, <2>2, <2>4 DEF Start, PositionIsNotBehind, Position, place
<1>5. CASE ReadsAhead
  BY <1>5 DEF ReadsAhead, Pump, PumpsFrames, PumpsNothing, PumpFails, PositionIsNotBehind,
     Position, place
<1>6. ASSUME NEW t \in {"control", "decode"}, MoveSource(t)
      PROVE  PositionIsNotBehind'
  <2>1. due' = target /\ playedBase' = target /\ since' = 0
    BY <1>6 DEF MoveSource
  <2>2. target \in Int
    BY <1>6 DEF MoveSource, Typed, FramesOK, MaybeFrame, None
  <2> QED
    BY <2>1, <2>2 DEF PositionIsNotBehind, Position
<1> QED
  BY <1>1, <1>3, <1>4, <1>5, <1>6 DEF FrameStep

(* A run that ends by itself and without an error is ended by a turn of the *)
(* render thread that found nothing more to come.                           *)
LEMMA EndsBySettling ==
  ASSUME Typed, ThreadInv, RunInv, [Next]_vars,
       running, ~running', ~failed', pc'["control"] # "join"
  PROVE  RenderSettles /\ Finishing
<1> USE DEF Typed, ThreadInv, RunInv, PlacesOK, Threads, Goto, state
<1>1. /\ ~Fill("control", "floor", "launch") /\ ~DecodePump
      /\ \A t \in {"control", "decode"} : ~Fill(t, "fill", "clear")
  BY DEF Fill, DecodePump, Pump, PumpsFrames, PumpsNothing, PumpFails, Fail
<1>2. ~Launch
  BY DEF Launch
<1> QED
  BY <1>1, <1>2
  DEF Next, Calls, ControlStep, PerformSeek, Decode, Render, vars, Call, Start, Pause,
      Resume, Stop, SeekRefused, SeekHere, SeekAsk, Join, SeekReturns, SeekSleeps,
      SeekLooksAgain, SeekTimesOut, Claim, CountTurns, Handshake, AwaitTurn, ResetRing,
      MoveSource, ClearRequest, Release, DecodeTop, DecodeExit, DecodeSeek, DecodeGoesOn,
      DecodeSleep, DecodeWakes, RenderTop, RenderExit, RenderParks, RenderNaps,
      RenderReady, RenderAcquires, RenderLooksForSeek, RenderSaysParked, BeginRead,
      EndRead, RenderCommits, RenderSettles, RenderFails, Fail

LEMMA SettlesOutOfSeek ==
  ASSUME ThreadInv, WaitInv, SeenInv, pc["render"] = "settle", ~sawSeeking, ~late
  PROVE  ~Moving
  BY DEF Moving, ThreadInv, WaitInv, SeenInv, InTurn, Owning, Gone, Counting, Claimed,
     SeekLabels

(* A turn that ends the run saw no seek, so that none has emptied the ring. *)
LEMMA EndsAtTheEnd ==
  ASSUME Typed, ThreadInv, TurnInv, WaitInv, RunInv, SeenInv, OrderInv, [Next]_vars,
         running, ~running', ~failed', pc'["control"] # "join", ~lost, ~late
  PROVE  due = Length
<1>1. RenderSettles /\ Finishing
  BY EndsBySettling
<1>2. pc["render"] = "settle" /\ ~sawSeeking /\ drained /\ ring = <<>> /\ hand = <<>>
  BY <1>1 DEF RenderSettles, Finishing, ThreadInv
<1>3. srcPos = Length
  BY <1>2 DEF RunInv, Ending
<1>4. ~Moving
  BY <1>2, SettlesOutOfSeek
<1>5. InHand = <<>>
  BY <1>2 DEF InHand
<1>6. OrderedTo(srcPos) /\ srcPos \in Nat
  BY GraphAssumption DEF OrderInv, Sound, Ordered, Typed, FramesOK, GraphAssumption
<1> QED
  BY <1>3, <1>4, <1>5, <1>6, NothingInFlight

-----------------------------------------------------------------------------
(* The graph is a Playback.                                                 *)

LEMMA AsksAreKept ==
  ASSUME Typed, ThreadInv, WaitInv, RunInv, AskInv, [Next]_vars
  PROVE  AskInv'
<1> USE DEF Typed, TargetInv, ThreadInv, RunInv, AskInv, Before, Answering,
     None, PlacesOK, Threads, Goto, SeekLabels, state, shake, wakes, store,
     place, call, turn, history
<1>1. CASE Start
  BY <1>1 DEF Start, Call
<1>2. CASE Pause
  BY <1>2 DEF Pause, Call
<1>3. CASE Resume
  BY <1>3 DEF Resume, Call
<1>4. CASE Stop
  BY <1>4 DEF Stop, Call
<1>5. CASE SeekRefused
  BY <1>5 DEF SeekRefused, Call
<1>6. ASSUME NEW frame \in Targets, SeekHere(frame) PROVE AskInv'
  <2>1. frame # -1
    BY GraphAssumption DEF GraphAssumption
  <2> QED
    BY <1>6, <2>1 DEF SeekHere, Call, WaitInv
<1>7. ASSUME NEW frame \in Targets, SeekAsk(frame) PROVE AskInv'
  <2>1. frame # -1
    BY GraphAssumption DEF GraphAssumption
  <2> QED
    BY <1>7, <2>1 DEF SeekAsk, Call, WaitInv
<1>8. CASE Fill("control", "floor", "launch")
  BY <1>8 DEF Fill
<1>9. CASE Launch
  BY <1>9 DEF Launch, FirstBuffer
<1>10. CASE Join
  BY <1>10 DEF Join
<1>11. CASE SeekReturns
  BY <1>11 DEF SeekReturns, SeekIsDone
<1>12. CASE SeekSleeps
  BY <1>12 DEF SeekSleeps, SeekIsDone
<1>13. CASE SeekLooksAgain
  BY <1>13 DEF SeekLooksAgain
<1>14. CASE SeekTimesOut
  BY <1>14 DEF SeekTimesOut, SeekIsDone, Faultless
<1>15. ASSUME NEW t \in {"control", "decode"}, Claim(t) PROVE AskInv'
  BY <1>15 DEF Claim
<1>16. ASSUME NEW t \in {"control", "decode"}, CountTurns(t) PROVE AskInv'
  BY <1>16 DEF CountTurns
<1>17. ASSUME NEW t \in {"control", "decode"}, Handshake(t) PROVE AskInv'
  BY <1>17 DEF Handshake, RingIsOurs
<1>18. ASSUME NEW t \in {"control", "decode"}, AwaitTurn(t) PROVE AskInv'
  BY <1>18 DEF AwaitTurn, Faultless
<1>19. ASSUME NEW t \in {"control", "decode"}, ResetRing(t) PROVE AskInv'
  BY <1>19 DEF ResetRing
<1>20. ASSUME NEW t \in {"control", "decode"}, MoveSource(t) PROVE AskInv'
  BY <1>20 DEF MoveSource, Faultless
<1>21. ASSUME NEW t \in {"control", "decode"}, Fill(t, "fill", "clear") PROVE AskInv'
  BY <1>21 DEF Fill
<1>22. ASSUME NEW t \in {"control", "decode"}, ClearRequest(t) PROVE AskInv'
  BY <1>22 DEF ClearRequest
<1>23. ASSUME NEW t \in {"control", "decode"}, Release(t) PROVE AskInv'
  BY <1>23 DEF Release
<1>24. CASE DecodeTop
  BY <1>24 DEF DecodeTop
<1>25. CASE DecodeExit
  BY <1>25 DEF DecodeExit
<1>26. CASE DecodeSeek
  BY <1>26 DEF DecodeSeek, WaitInv
<1>27. CASE DecodeGoesOn
  BY <1>27 DEF DecodeGoesOn
<1>28. CASE DecodeSleep
  BY <1>28 DEF DecodeSleep
<1>29. CASE DecodePump
  BY <1>29 DEF DecodePump
<1>30. CASE DecodeWakes
  BY <1>30 DEF DecodeWakes
<1>31. CASE RenderTop
  BY <1>31 DEF RenderTop, Least
<1>32. CASE RenderExit
  BY <1>32 DEF RenderExit
<1>33. CASE RenderParks
  BY <1>33 DEF RenderParks
<1>34. CASE RenderNaps
  BY <1>34 DEF RenderNaps
<1>35. CASE RenderReady
  BY <1>35 DEF RenderReady
<1>36. CASE RenderAcquires
  BY <1>36 DEF RenderAcquires
<1>37. CASE RenderLooksForSeek
  BY <1>37 DEF RenderLooksForSeek
<1>38. CASE RenderSaysParked
  BY <1>38 DEF RenderSaysParked
<1>39. CASE BeginRead
  BY <1>39 DEF BeginRead
<1>40. CASE EndRead
  BY <1>40 DEF EndRead
<1>41. CASE RenderCommits
  BY <1>41 DEF RenderCommits
<1>42. CASE RenderSettles
  BY <1>42 DEF RenderSettles, Finishing
<1>43. CASE RenderFails
  BY <1>43 DEF RenderFails, Fail, SinkCallFails
<1>44. CASE UNCHANGED vars
  BY <1>44 DEF vars
<1> QED
  BY <1>1, <1>2, <1>3, <1>4, <1>5, <1>6, <1>7, <1>8, <1>9, <1>10, <1>11,
     <1>12, <1>13, <1>14, <1>15, <1>16, <1>17, <1>18, <1>19, <1>20, <1>21,
     <1>22, <1>23, <1>24, <1>25, <1>26, <1>27, <1>28, <1>29, <1>30, <1>31,
     <1>32, <1>33, <1>34, <1>35, <1>36, <1>37, <1>38, <1>39, <1>40, <1>41,
     <1>42, <1>43, <1>44 DEF Next, Calls, ControlStep, PerformSeek, Decode,
     Render

-----------------------------------------------------------------------------
Unseen ==
    /\ UNCHANGED <<running, live, due, late, asked, landed>>
    /\ Answering' <=> Answering

PlaybackStep ==
    \/ Unseen \/ Start \/ Launch \/ Stop \/ Join \/ SeekReturns
    \/ \E frame \in Targets : SeekHere(frame) \/ SeekAsk(frame)
    \/ \E t \in {"control", "decode"} : MoveSource(t)
    \/ RenderCommits \/ RenderSettles

(* Most steps a Playback does not see.                                      *)
LEMMA StepsOfPlayback ==
  ASSUME Faultless, Typed, ThreadInv, RunInv, [Next]_vars
  PROVE  PlaybackStep
<1> USE DEF Typed, Unseen, Answering, PlaybackStep, PlacesOK, Threads, Goto,
     SeekLabels, state, shake, wakes, store, place, call, turn, history
<1>1. CASE Start
  BY <1>1
<1>2. CASE Pause
  BY <1>2 DEF Pause, Call
<1>3. CASE Resume
  BY <1>3 DEF Resume, Call
<1>4. CASE Stop
  BY <1>4
<1>5. CASE SeekRefused
  BY <1>5 DEF SeekRefused, Call
<1>6. ASSUME NEW frame \in Targets, SeekHere(frame) PROVE PlaybackStep
  BY <1>6
<1>7. ASSUME NEW frame \in Targets, SeekAsk(frame) PROVE PlaybackStep
  BY <1>7
<1>8. CASE Fill("control", "floor", "launch")
  <2>1. running' = running
    BY <1>8, FillEndsNothing
  <2> QED
    BY <1>8, <2>1 DEF Fill
<1>9. CASE Launch
  BY <1>9
<1>10. CASE Join
  BY <1>10
<1>11. CASE SeekReturns
  BY <1>11
<1>12. CASE SeekSleeps
  BY <1>12 DEF SeekSleeps, SeekIsDone
<1>13. CASE SeekLooksAgain
  BY <1>13 DEF SeekLooksAgain
<1>14. CASE SeekTimesOut
  BY <1>14 DEF SeekTimesOut, SeekIsDone, Faultless
<1>15. ASSUME NEW t \in {"control", "decode"}, Claim(t) PROVE PlaybackStep
  BY <1>15 DEF Claim
<1>16. ASSUME NEW t \in {"control", "decode"}, CountTurns(t) PROVE PlaybackStep
  BY <1>16 DEF CountTurns
<1>17. ASSUME NEW t \in {"control", "decode"}, Handshake(t) PROVE PlaybackStep
  BY <1>17 DEF Handshake, RingIsOurs
<1>18. ASSUME NEW t \in {"control", "decode"}, AwaitTurn(t) PROVE PlaybackStep
  BY <1>18 DEF AwaitTurn, Faultless
<1>19. ASSUME NEW t \in {"control", "decode"}, ResetRing(t) PROVE PlaybackStep
  BY <1>19 DEF ResetRing
<1>20. ASSUME NEW t \in {"control", "decode"}, MoveSource(t) PROVE PlaybackStep
  BY <1>20
<1>21. ASSUME NEW t \in {"control", "decode"}, Fill(t, "fill", "clear") PROVE PlaybackStep
  <2>1. running' = running
    BY <1>21, FillEndsNothing
  <2> QED
    BY <1>21, <2>1 DEF Fill
<1>22. ASSUME NEW t \in {"control", "decode"}, ClearRequest(t) PROVE PlaybackStep
  BY <1>22 DEF ClearRequest
<1>23. ASSUME NEW t \in {"control", "decode"}, Release(t) PROVE PlaybackStep
  BY <1>23 DEF Release
<1>24. CASE DecodeTop
  BY <1>24 DEF DecodeTop
<1>25. CASE DecodeExit
  BY <1>25 DEF DecodeExit
<1>26. CASE DecodeSeek
  BY <1>26 DEF DecodeSeek
<1>27. CASE DecodeGoesOn
  BY <1>27 DEF DecodeGoesOn
<1>28. CASE DecodeSleep
  BY <1>28 DEF DecodeSleep
<1>29. CASE DecodePump
  <2>1. running' = running
    BY <1>29, PumpEndsNothing DEF DecodePump
  <2> QED
    BY <1>29, <2>1 DEF DecodePump
<1>30. CASE DecodeWakes
  BY <1>30 DEF DecodeWakes
<1>31. CASE RenderTop
  BY <1>31 DEF RenderTop, Least
<1>32. CASE RenderExit
  BY <1>32 DEF RenderExit
<1>33. CASE RenderParks
  BY <1>33 DEF RenderParks
<1>34. CASE RenderNaps
  BY <1>34 DEF RenderNaps
<1>35. CASE RenderReady
  BY <1>35 DEF RenderReady
<1>36. CASE RenderAcquires
  BY <1>36 DEF RenderAcquires
<1>37. CASE RenderLooksForSeek
  BY <1>37 DEF RenderLooksForSeek
<1>38. CASE RenderSaysParked
  BY <1>38 DEF RenderSaysParked
<1>39. CASE BeginRead
  BY <1>39 DEF BeginRead
<1>40. CASE EndRead
  BY <1>40 DEF EndRead
<1>41. CASE RenderCommits
  BY <1>41
<1>42. CASE RenderSettles
  BY <1>42
<1>43. CASE RenderFails
  BY <1>43 DEF RenderFails, Fail, SinkCallFails, Faultless
<1>44. CASE UNCHANGED vars
  BY <1>44 DEF vars
<1> QED
  BY <1>1, <1>2, <1>3, <1>4, <1>5, <1>6, <1>7, <1>8, <1>9, <1>10, <1>11,
     <1>12, <1>13, <1>14, <1>15, <1>16, <1>17, <1>18, <1>19, <1>20, <1>21,
     <1>22, <1>23, <1>24, <1>25, <1>26, <1>27, <1>28, <1>29, <1>30, <1>31,
     <1>32, <1>33, <1>34, <1>35, <1>36, <1>37, <1>38, <1>39, <1>40, <1>41,
     <1>42, <1>43, <1>44 DEF Next, Calls, ControlStep, PerformSeek, Decode,
     Render

LEMMA PlaybackSteps ==
  ASSUME Faultless, Typed, ThreadInv, RunInv, OrderInv, HandInv, AskInv, [Next]_vars
  PROVE  [Abstract!Next]_(Abstract!vars)
<1>1. PlaybackStep
  BY StepsOfPlayback
<1>2. ~late => Ordered /\ Sound
  BY DEF OrderInv, Sound
<1>3. /\ due \in 0..Length /\ srcPos \in 0..Length /\ Length \in Nat /\ Capacity \in Nat
      /\ due' \in 0..Length
  BY TypedIsKept, GraphAssumption DEF Typed, FramesOK, GraphAssumption
<1>4. CASE Unseen
  BY <1>4 DEF Unseen, Abstract!vars, Run, Asking, Goal
(* The ring is dropped: what it held is skipped.                            *)
<1>5. CASE Start
  <2>1. /\ ~live /\ ~live' /\ due' = srcPos /\ late' = late /\ asked' = asked
        /\ landed' = landed /\ ~Answering /\ ~Answering' /\ ~Moving
    BY <1>5 DEF Start, Call, Answering, Goto, Typed, PlacesOK, Threads, Moving, ThreadInv
  <2>2. ~late => due <= srcPos
    BY <1>2, <2>1 DEF Ordered, OrderedTo
  <2>3. ~late => due' \in due..Abstract!Least(due + Length, Length)
    BY <1>3, <2>1, <2>2 DEF Abstract!Least
  <2>4. Abstract!Skip
    BY <1>3, <2>1, <2>3 DEF Abstract!Skip, Abstract!Comes, Abstract!Further, Run, Asking, Goal
  <2> QED
    BY <2>4 DEF Abstract!Next
<1>6. CASE Launch
  <2>1. /\ ~live /\ landed' = landed /\ asked' = asked /\ late' = late
        /\ ~Answering /\ ~Answering'
    BY <1>6 DEF Launch, Answering, Goto, Typed, PlacesOK, Threads, ThreadInv, call
  <2>2. ASSUME ~late
        PROVE  \/ UNCHANGED <<due, since>>
               \/ \E size \in Buffers : /\ since' = Counted(size)
                                        /\ due' \in due..(due + Least(size, Len(ring)))
    <3>1. PICK e \in Nat : OrderedTo(e)
      BY <1>2, <1>3, <2>2 DEF Ordered
    <3>2. Sound'
      BY <2>1, <2>2 DEF Sound, Faultless
    <3> QED
      BY <1>6, <3>1, <3>2, LaunchesInOrder
  <2>3. ASSUME ~late PROVE due' \in due..Abstract!Least(due + Capacity, Length)
    <3>1. \A size \in Buffers : Least(size, Len(ring)) \in 0..Capacity
      BY <1>3, GraphAssumption DEF Typed, FramesOK, Least, GraphAssumption
    <3>2. due' >= due /\ due' <= due + Capacity
      BY <1>3, <2>2, <2>3, <3>1
    <3> QED
      BY <1>3, <3>2 DEF Abstract!Least
  <2>4. live' /\ running'
    BY <1>6 DEF Launch, Faultless
  <2>5. Abstract!Begin
    BY <1>3, <2>1, <2>3, <2>4
    DEF Abstract!Begin, Abstract!Comes, Abstract!Further, Run, Asking, Goal
  <2> QED
    BY <2>5 DEF Abstract!Next
<1>7. CASE Stop
  <2>1. /\ due' = due /\ live' = live /\ ~running' /\ late' = late /\ asked' = asked
        /\ landed' = landed /\ ~Answering /\ ~Answering'
    BY <1>7 DEF Stop, Call, Answering, Goto, Typed, PlacesOK, Threads, history
  <2>2. CASE running
    <3>1. Abstract!End
      BY <2>1, <2>2 DEF Abstract!End, Run, Asking, Goal, RunInv
    <3> QED
      BY <3>1 DEF Abstract!Next
  <2>3. CASE ~running
    BY <2>1, <2>3 DEF Abstract!vars, Run, Asking, Goal
  <2> QED
    BY <2>2, <2>3
<1>8. CASE Join
  <2>1. /\ due' = due /\ ~live' /\ ~running /\ late' = late /\ asked' = asked
        /\ landed' = landed /\ ~Answering /\ ~Answering'
    BY <1>8 DEF Join, Answering, Typed, PlacesOK, Threads, RunInv, history, call
  <2>2. CASE live
    <3>1. Abstract!Join
      BY <2>1, <2>2 DEF Abstract!Join, Run, Asking, Goal
    <3> QED
      BY <3>1 DEF Abstract!Next
  <2>3. CASE ~live
    BY <2>1, <2>3 DEF Abstract!vars, Run, Asking, Goal
  <2> QED
    BY <2>2, <2>3
(* Of a seek that is answered, the source moved, or the run is over, or the *)
(* seek of an earlier caller was taken for this one.                        *)
<1>9. CASE SeekReturns
  <2>1. /\ due' = due /\ live /\ live' = live /\ running' = running
        /\ asked' = asked /\ landed' = landed /\ Answering /\ ~Answering'
        /\ request = None \/ ~running
    BY <1>9 DEF SeekReturns, SeekIsDone, Answering, Goto, Typed, PlacesOK, Threads, AskInv,
       state
  <2>2. landed # None \/ ~running \/ late
    BY <2>1 DEF AskInv
  <2>3. late' \in {late, late \/ ~running}
    <3>1. late \in BOOLEAN /\ late' = (late \/ request # None)
      BY <1>9 DEF SeekReturns, Typed, FlagsOK
    <3>2. CASE request = None
      BY <3>1, <3>2
    <3>3. CASE request # None /\ ~running
      BY <3>1, <3>3
    <3> QED
      BY <2>1, <3>2, <3>3
  <2>4. Abstract!Answer
    BY <2>1, <2>2, <2>3 DEF Abstract!Answer, Run, Asking, Goal
  <2> QED
    BY <2>4 DEF Abstract!Next
<1>10. ASSUME NEW frame \in Targets, SeekHere(frame)
       PROVE  [Abstract!Next]_(Abstract!vars)
  <2>1. /\ due' = due /\ ~live /\ ~live' /\ late' = late /\ asked' = frame
        /\ landed' = None /\ ~Answering /\ ~Answering'
    BY <1>10 DEF SeekHere, Call, Answering, Goto, Typed, PlacesOK, Threads, state
  <2>2. Abstract!Ask(frame)
    BY <2>1 DEF Abstract!Ask, Run, Asking, Goal
  <2> QED
    BY <2>2 DEF Abstract!Next
<1>11. ASSUME NEW frame \in Targets, SeekAsk(frame)
       PROVE  [Abstract!Next]_(Abstract!vars)
  <2>1. /\ due' = due /\ live /\ live' = live /\ running /\ running' = running
        /\ late' = late /\ asked' = frame /\ landed' = None /\ ~Answering /\ Answering'
    BY <1>11 DEF SeekAsk, Call, Answering, Goto, Typed, PlacesOK, Threads, state, RunInv
  <2>2. Abstract!Ask(frame)
    BY <2>1 DEF Abstract!Ask, Run, Asking, Goal
  <2> QED
    BY <2>2 DEF Abstract!Next
<1>12. ASSUME NEW t \in {"control", "decode"}, MoveSource(t)
       PROVE  [Abstract!Next]_(Abstract!vars)
  <2>1. /\ due' = target /\ landed' = target /\ target # None /\ target \in Targets
        /\ landed = None /\ asked # None /\ (~late => target = asked)
        /\ live' = live /\ running' = running /\ late' = late /\ asked' = asked
        /\ (Answering' <=> Answering)
    BY <1>12 DEF MoveSource, Faultless, AskInv, Before, Typed, TargetInv, SeekLabels,
       Answering, Goto, PlacesOK, Threads, state, call
  <2>2. Abstract!Land
    BY <2>1 DEF Abstract!Land, Abstract!None, None, Run, Asking, Goal
  <2> QED
    BY <2>2 DEF Abstract!Next
<1>13. CASE RenderCommits
  <2>1. /\ live /\ live' = live /\ running' = running /\ late' = late /\ asked' = asked
        /\ landed' = landed /\ ~Reading /\ (Answering' <=> Answering)
    BY <1>13 DEF RenderCommits, Reading, ThreadInv, Answering, Goto, Typed, PlacesOK,
       Threads, state, call
  <2>2. ASSUME ~late
        PROVE  due' \in due..Abstract!Least(due + Capacity, Length)
    <3>1. PICK e \in Nat : OrderedTo(e)
      BY <1>2, <1>3, <2>2 DEF Ordered
    <3>2. due' = due + Len(hand)
      BY <1>13, <2>1, <3>1, HandIsNext DEF RenderCommits
    <3>3. Len(hand) \in 0..Capacity
      BY <1>3, <2>2 DEF Typed, FramesOK, HandInv
    <3> QED
      BY <1>3, <3>2, <3>3 DEF Abstract!Least
  <2>3. Abstract!Give
    BY <1>3, <2>1, <2>2
    DEF Abstract!Give, Abstract!Comes, Abstract!Further, Run, Asking, Goal
  <2> QED
    BY <2>3 DEF Abstract!Next
<1>14. CASE RenderSettles
  <2>1. /\ due' = due /\ live' = live /\ live /\ late' = late /\ asked' = asked
        /\ landed' = landed /\ (Answering' <=> Answering)
        /\ running' = (running /\ ~Finishing)
    BY <1>14 DEF RenderSettles, ThreadInv, Answering, Goto, Typed, PlacesOK, Threads, call,
       history
  <2>2. CASE running /\ Finishing
    <3>1. ~running'
      BY <2>1, <2>2, Zenon
    <3>2. Abstract!End
      BY <2>1, <2>2, <3>1 DEF Abstract!End, Run, Asking, Goal
    <3> QED
      BY <3>2 DEF Abstract!Next
  <2>3. CASE ~(running /\ Finishing)
    <3>1. running' <=> running
      BY <2>1, <2>3, Zenon
    <3> QED
      BY <2>1, <3>1 DEF Abstract!vars, Run, Asking, Goal
  <2> QED
    BY <2>2, <2>3
<1> QED
  BY <1>1, <1>4, <1>5, <1>6, <1>7, <1>8, <1>9, <1>10, <1>11, <1>12, <1>13, <1>14
  DEF PlaybackStep

LEMMA PlaybackBegins ==
  ASSUME Init
  PROVE  Abstract!Init
  BY DEF Init, Abstract!Init, Abstract!None, None, Run, Asking, Goal, Answering, Threads

-----------------------------------------------------------------------------
LEMMA OwnsTheRing ==
  ASSUME ThreadInv, TurnInv, WaitInv, RingInv
  PROVE  SeekOwnsTheRing
<1>1. ASSUME pc["control"] \in Owning
      PROVE  pc["render"] = "none" /\ hand = <<>>
  BY <1>1 DEF ThreadInv, Owning, SeekLabels
<1>2. ASSUME pc["decode"] \in Owning, ~late
      PROVE  /\ pc["render"] \notin {"take", "reading"}
             /\ pc["render"] = "looked" => sawSeeking
             /\ hand = <<>>
  <2>1. CASE turned >= 1
    BY <1>2, <2>1 DEF TurnInv, Counting, Claimed, Owning, SeekLabels
  <2>2. CASE pc["render"] \in Gone
    BY <2>2 DEF ThreadInv, Gone
  <2> QED
    BY <1>2, <2>1, <2>2 DEF WaitInv
<1> QED
  BY <1>1, <1>2 DEF SeekOwnsTheRing, Owning, RingInv

LEMMA InitInv == Init => Inv
<1> SUFFICES ASSUME Init PROVE Inv
  OBVIOUS
<1>1. FlagsOK
  BY DEF Init, FlagsOK
<1>2. FramesOK
  BY GraphAssumption DEF Init, FramesOK, MaybeFrame, GraphAssumption
<1>3. PlacesOK /\ TargetInv
  BY DEF Init, PlacesOK, TargetInv, Threads, Labels, SeekLabels
<1>4. ThreadInv /\ TurnInv /\ WaitInv /\ WakeInv
  BY DEF Init, ThreadInv, TurnInv, WaitInv, WakeInv, WorkWakesTheDecoder, Claimed,
     Counting, Owning, SeekLabels, Threads, None
<1>5. RunInv /\ SeenInv /\ RingInv /\ HandInv /\ PositionIsNotBehind /\ AskInv
  <2>1. srcPos \in Nat /\ Capacity \in Nat
    BY GraphAssumption DEF Init, GraphAssumption
  <2> QED
    BY <2>1 DEF Init, RunInv, Ending, SeenInv, RingInv, Reading, HandInv,
       PositionIsNotBehind, Position, AskInv, Counting, Claimed, SeekLabels, Threads, None, Before, Answering
<1>6. OrderInv
  <2>1. srcPos \in Nat /\ Frames(srcPos, 0) = <<>> /\ srcPos - srcPos = 0
    BY GraphAssumption, FramesOfNone DEF Init, GraphAssumption
  <2>2. due = srcPos /\ ring = <<>> /\ hand = <<>> /\ ~torn /\ ~apart /\ ~Reading /\ ~Moving
    BY DEF Init, Reading, Moving, Threads
  <2> QED
    BY <2>1, <2>2 DEF OrderInv, Ordered, OrderedTo, InHand, Reading
<1> QED
  BY <1>1, <1>2, <1>3, <1>4, <1>5, <1>6 DEF Inv, Typed

LEMMA InvIsKept == Inv /\ [Next]_vars => Inv'
  BY TypedIsKept, ThreadsAreKept, TurnsAreKept, WaitsAreKept, WakesAreKept, RunsAreKept,
     SeenIsKept, RingIsKept, OrderIsKept, HandsAreKept, PositionIsKept, AsksAreKept
  DEF Inv

LEMMA GraphInvariant == Spec => []Inv
  BY InitInv, InvIsKept, PTL DEF Spec

(* Every variable of the graph keeps its type.  The ring holds no more than *)
(* its capacity, because pump_once, which ignores what write() returned, is *)
(* only called with room for a chunk (passthrough.cpp:201-214), for as long *)
(* as its indices belong together; when they are apart readable() says far  *)
(* more than that, and nothing is said of the frames behind it.  They come  *)
(* apart only after a wait of a seek ran out: GraphSeekOwnsTheRing.         *)
THEOREM GraphTyped == Spec => []TypeOK
<1>1. Inv => TypeOK
  BY DEF Inv, Typed, TypeOK
<1> QED
  BY <1>1, GraphInvariant, PTL

(* passthrough.hpp:282-288: the decode thread sleeps unwoken only while it  *)
(* has nothing to do.                                                       *)
THEOREM GraphWakesTheDecoder == Spec => []WorkWakesTheDecoder
<1>1. Inv => WorkWakesTheDecoder
  BY DEF Inv, WakeInv
<1> QED
  BY <1>1, GraphInvariant, PTL

(* ring.hpp:108-109, passthrough.hpp:255-258: as long as no wait of a seek  *)
(* ran out, the render thread is out of the ring from the reset to the end  *)
(* of a seek and will not enter it; no read is torn, and the two indices    *)
(* belong together.                                                         *)
THEOREM GraphSeekOwnsTheRing == Spec => []SeekOwnsTheRing
<1>1. Inv => SeekOwnsTheRing
  BY OwnsTheRing DEF Inv
<1> QED
  BY <1>1, GraphInvariant, PTL

(* passthrough.hpp:138-172: the device is given the frames of the source in *)
(* order, each once, from where the run began or the last seek landed, and  *)
(* position_frames is never behind what it was given.                       *)
THEOREM GraphPlaysFromWhereItIs == Spec => []PlaysFromWhereItIs
<1>1. Inv => PlaysFromWhereItIs
  BY DEF Inv, OrderInv, Ordered, OrderedTo, Sound, PlaysFromWhereItIs, EveryFrameInOrder
<1> QED
  BY <1>1, GraphInvariant, PTL

(* passthrough.cpp:306-309: a run that ends by itself and without an error  *)
(* has given the device every frame up to the end of the source.            *)
THEOREM GraphRunEndsAtTheEnd == Spec => RunEndsAtTheEnd
<1> DEFINE Ends == /\ running /\ ~running' /\ ~failed' /\ pc'["control"] # "join"
                   /\ ~lost /\ ~late
<1>1. Inv /\ [Next]_vars => [Ends => due = Length]_vars
  BY EndsAtTheEnd DEF Inv
<1> QED
  BY <1>1, GraphInvariant, PTL DEF Spec, RunEndsAtTheEnd

(* passthrough.hpp:130-160: as long as nothing fails and no wait of a seek  *)
(* runs out of time, the graph is a Playback: every step of its threads is  *)
(* one of a Playback or is not seen there, also when a seek was left over   *)
(* from an earlier run, after which a Playback says less.                   *)
THEOREM GraphIsPlayback ==
  ASSUME Faults = {}, ~SeekMayFail, Deadlines = {}
  PROVE  Spec => IsPlayback
<1>1. Faultless
  BY DEF Faultless
<1>2. Init => Abstract!Init
  BY PlaybackBegins
<1>3. Inv /\ [Next]_vars => [Abstract!Next]_(Abstract!vars)
  BY <1>1, PlaybackSteps DEF Inv
<1> QED
  BY <1>2, <1>3, GraphInvariant, PTL DEF Spec, IsPlayback, Abstract!Spec

-----------------------------------------------------------------------------
(***************************************************************************)
(* The processed graph.                                                    *)
(***************************************************************************)

-----------------------------------------------------------------------------
(* Frames of the wire and of the source.                                    *)

(* Quotients and remainders of naturals.                                    *)
LEMMA Division ==
  ASSUME NEW R \in Nat \ {0}, NEW n \in Nat
  PROVE  /\ n \div R \in Nat /\ n % R \in 0..(R - 1)
         /\ n = R * (n \div R) + (n % R)
<1>1. /\ n % R \in 0..(R - 1)
      /\ n \div R \in Int
      /\ n = R * (n \div R) + (n % R)
  OBVIOUS
<1>2. n \div R \in Nat
  OBVIOUS
<1> QED
  BY <1>1, <1>2

LEMMA Recovers ==
  ASSUME NEW R \in Nat \ {0}, NEW k \in Nat, NEW r \in 0..(R - 1)
  PROVE  (R * k + r) \div R = k /\ (R * k + r) % R = r
  OBVIOUS

LEMMA Scales ==
  ASSUME NEW R \in Nat \ {0}, NEW n \in Nat, NEW m \in Nat
  PROVE  /\ R * n \in Nat
         /\ R * (n + m) = R * n + R * m
         /\ n < m => R * n + R <= R * m
         /\ n <= m => R * n <= R * m
         /\ R * n < R * m => n < m
  OBVIOUS

LEMMA DividesFrom ==
  ASSUME NEW R \in Nat \ {0}, NEW k \in Nat, NEW n \in Nat
  PROVE  (R * k + n) \div R = k + (n \div R) /\ (R * k + n) % R = n % R
<1> DEFINE q == n \div R
           r == n % R
<1>1. q \in Nat /\ r \in 0..(R - 1) /\ n = R * q + r
  BY Division
<1> HIDE DEF q, r
<1>2. R * (k + q) = R * k + R * q /\ k + q \in Nat
  BY <1>1
<1>3. R * k + n = R * (k + q) + r
  BY <1>1, <1>2
<1>4. (R * (k + q) + r) \div R = k + q /\ (R * (k + q) + r) % R = r
  BY <1>1, <1>2, Recovers
<1> QED
  BY <1>3, <1>4 DEF q, r

LEMMA DividesLess ==
  ASSUME NEW R \in Nat \ {0}, NEW k \in Nat, NEW n \in Nat, n < R * k
  PROVE  n \div R < k
<1> DEFINE q == n \div R
           r == n % R
<1>1. q \in Nat /\ r \in 0..(R - 1) /\ n = R * q + r
  BY Division
<1> HIDE DEF q, r
<1>2. R * q < R * k
  BY <1>1
<1> QED
  BY <1>1, <1>2, Scales DEF q, r

(* Where a source frame may begin, so that all of it is in the source.      *)
Whole == {s \in Nat : s + Ratio <= Length}

LEMMA Rate == Ratio \in Nat \ {0} /\ Ratio \in Nat /\ Ratio > 0 /\ Length \in Nat
  BY ChainAssumption, GraphAssumption DEF ChainAssumption, GraphAssumption

(* Where a frame of the wire comes from: which source frame, and which of   *)
(* its Ratio.                                                               *)
LEMMA InWire ==
  ASSUME NEW n \in Nat, NEW i \in 1..(Ratio * n)
  PROVE  /\ (i - 1) \div Ratio \in Nat /\ (i - 1) \div Ratio < n
         /\ 1 + ((i - 1) \div Ratio) \in 1..n
         /\ (i - 1) % Ratio \in 0..(Ratio - 1)
         /\ i - 1 \in Nat
         /\ i - 1 = Ratio * ((i - 1) \div Ratio) + ((i - 1) % Ratio)
<1>1. i - 1 \in Nat /\ i - 1 < Ratio * n
  <2>1. Ratio * n \in Nat
    BY Rate
  <2> QED
    BY <2>1
<1>2. /\ (i - 1) \div Ratio \in Nat /\ (i - 1) % Ratio \in 0..(Ratio - 1)
      /\ i - 1 = Ratio * ((i - 1) \div Ratio) + ((i - 1) % Ratio)
  BY <1>1, Rate, Division
<1>3. (i - 1) \div Ratio < n
  BY <1>1, Rate, DividesLess
<1> QED
  BY <1>1, <1>2, <1>3

(* The wire has Ratio frames for each of the source, all of them in it.     *)
LEMMA WireTyped ==
  ASSUME NEW s \in Seq(Whole)
  PROVE  /\ Wire(s) \in Seq(0..(Length - 1)) /\ Wire(s) \in Seq(Nat)
         /\ Len(Wire(s)) = Ratio * Len(s)
         /\ DOMAIN Wire(s) = 1..(Ratio * Len(s))
<1>1. Len(s) \in Nat /\ Ratio * Len(s) \in Nat
  BY Rate
<1>2. ASSUME NEW i \in 1..(Ratio * Len(s))
      PROVE  s[1 + ((i - 1) \div Ratio)] + ((i - 1) % Ratio) \in 0..(Length - 1)
  <2>1. s[1 + ((i - 1) \div Ratio)] \in Whole /\ (i - 1) % Ratio \in 0..(Ratio - 1)
    BY <1>1, InWire
  <2>2. s[1 + ((i - 1) \div Ratio)] \in Nat /\ (i - 1) % Ratio \in Nat
    BY <2>1, Rate DEF Whole
  <2>3. s[1 + ((i - 1) \div Ratio)] + Ratio <= Length
    BY <2>1 DEF Whole
  <2> DEFINE a == s[1 + ((i - 1) \div Ratio)]
             b == (i - 1) % Ratio
  <2>4. a \in Nat /\ b \in 0..(Ratio - 1) /\ a + Ratio <= Length
    BY <2>1, <2>2, <2>3
  <2> HIDE DEF a, b
  <2>5. a + b \in 0..(Length - 1)
    BY <2>4, Rate
  <2> QED
    BY <2>5 DEF a, b
<1>3. Wire(s) \in [1..(Ratio * Len(s)) -> 0..(Length - 1)]
  BY <1>2, Zenon DEF Wire
<1>4. Wire(s) \in Seq(0..(Length - 1)) /\ Len(Wire(s)) = Ratio * Len(s)
  <2> DEFINE m == Ratio * Len(s)
             S == 0..(Length - 1)
  <2>1. m \in Nat /\ Wire(s) \in [1..m -> S]
    BY <1>1, <1>3
  <2> HIDE DEF m, S
  <2>2. Wire(s) \in Seq(S) /\ Len(Wire(s)) = m
    BY <2>1
  <2> QED
    BY <2>2 DEF m, S
<1>5. Wire(s) \in Seq(Nat)
  <2>1. 0..(Length - 1) \subseteq Nat
    BY Rate
  <2> QED
    BY <1>4, <2>1, SeqMonotonic
<1> QED
  BY <1>3, <1>4, <1>5

LEMMA WireOfNone == Wire(<<>>) = <<>>
<1>1. <<>> \in Seq(Whole) /\ Len(<<>>) = 0 /\ Ratio * 0 = 0
  BY Rate
<1>2. Wire(<<>>) \in Seq(Nat) /\ Len(Wire(<<>>)) = 0
  BY <1>1, WireTyped
<1> QED
  BY <1>2

LEMMA WireIsNone ==
  ASSUME NEW s \in Seq(Whole), Wire(s) = <<>>
  PROVE  s = <<>>
<1>1. Ratio * Len(s) = 0 /\ Len(s) \in Nat
  BY WireTyped
<1>2. Len(s) = 0
  BY <1>1, Rate
<1> QED
  BY <1>2

LEMMA JoinedIs ==
  ASSUME NEW s \in Seq(Nat), NEW u \in Seq(Nat)
  PROVE  /\ s \o u \in Seq(Nat) /\ Len(s \o u) = Len(s) + Len(u)
         /\ \A i \in 1..Len(s) : (s \o u)[i] = s[i]
         /\ \A i \in 1..Len(u) : (s \o u)[Len(s) + i] = u[i]
  OBVIOUS

(* What goes to the wire in two parts goes there in order.                  *)
LEMMA WireJoin ==
  ASSUME NEW s \in Seq(Whole), NEW u \in Seq(Whole)
  PROVE  Wire(s \o u) = Wire(s) \o Wire(u)
<1> DEFINE m == Len(s)
           n == Len(u)
           whole == Wire(s \o u)
           parts == Wire(s) \o Wire(u)
<1>1. m \in Nat /\ n \in Nat /\ s \o u \in Seq(Whole) /\ Len(s \o u) = m + n
  OBVIOUS
<1>2. /\ \A k \in 1..m : (s \o u)[k] = s[k]
      /\ \A k \in 1..n : (s \o u)[m + k] = u[k]
  BY <1>1
<1>3. Ratio * m \in Nat /\ Ratio * n \in Nat /\ Ratio * (m + n) = Ratio * m + Ratio * n
  BY <1>1, Rate, Scales
<1>4. /\ whole \in Seq(Nat) /\ Len(whole) = Ratio * m + Ratio * n
      /\ Wire(s) \in Seq(Nat) /\ Len(Wire(s)) = Ratio * m
      /\ Wire(u) \in Seq(Nat) /\ Len(Wire(u)) = Ratio * n
  BY <1>1, <1>3, WireTyped
<1>5. /\ parts \in Seq(Nat) /\ Len(parts) = Ratio * m + Ratio * n
      /\ \A i \in 1..(Ratio * m) : parts[i] = Wire(s)[i]
      /\ \A i \in 1..(Ratio * n) : parts[Ratio * m + i] = Wire(u)[i]
  <2> DEFINE a == Ratio * m
             b == Ratio * n
             x == Wire(s)
             y == Wire(u)
  <2>1. x \in Seq(Nat) /\ Len(x) = a /\ y \in Seq(Nat) /\ Len(y) = b
    BY <1>4
  <2> HIDE DEF a, b, x, y
  <2>2. /\ x \o y \in Seq(Nat) /\ Len(x \o y) = a + b
        /\ \A i \in 1..a : (x \o y)[i] = x[i]
        /\ \A i \in 1..b : (x \o y)[a + i] = y[i]
    <3>1. /\ x \o y \in Seq(Nat) /\ Len(x \o y) = Len(x) + Len(y)
          /\ \A i \in 1..Len(x) : (x \o y)[i] = x[i]
          /\ \A i \in 1..Len(y) : (x \o y)[Len(x) + i] = y[i]
      <4>1. x \in Seq(Nat) /\ y \in Seq(Nat)
        BY <2>1
      <4> QED
        BY <4>1, JoinedIs, Zenon
    <3> QED
      BY <2>1, <3>1, Zenon
  <2> QED
    BY <2>2 DEF a, b, x, y
<1> HIDE DEF m, n
<1>6. ASSUME NEW i \in 1..(Ratio * m) PROVE whole[i] = parts[i]
  <2>1. 1 + ((i - 1) \div Ratio) \in 1..m
    BY <1>1, InWire
  <2>2. i \in 1..(Ratio * (m + n))
    BY <1>3
  <2>3. whole[i] = (s \o u)[1 + ((i - 1) \div Ratio)] + ((i - 1) % Ratio)
    BY <1>1, <2>2 DEF Wire
  <2>4. Wire(s)[i] = s[1 + ((i - 1) \div Ratio)] + ((i - 1) % Ratio)
    BY DEF Wire, m
  <2>5. (s \o u)[1 + ((i - 1) \div Ratio)] = s[1 + ((i - 1) \div Ratio)]
    BY <1>2, <2>1, Zenon
  <2>6. parts[i] = Wire(s)[i]
    BY <1>5, Zenon
  <2> QED
    BY <2>3, <2>4, <2>5, <2>6, Zenon
<1>7. ASSUME NEW i \in 1..(Ratio * n) PROVE whole[Ratio * m + i] = parts[Ratio * m + i]
  <2> DEFINE d == (i - 1) \div Ratio
             r == (i - 1) % Ratio
  <2>1. 1 + d \in 1..n /\ d \in Nat /\ i - 1 \in Nat
    BY <1>1, InWire
  <2>2. Ratio * m + i \in 1..(Ratio * (m + n))
    BY <1>3
  <2>3. (Ratio * m + (i - 1)) \div Ratio = m + d /\ (Ratio * m + (i - 1)) % Ratio = r
    BY <1>1, <2>1, Rate, DividesFrom
  <2>4. (Ratio * m + i) - 1 = Ratio * m + (i - 1)
    BY <1>3
  <2>5. whole[Ratio * m + i] =
          (s \o u)[1 + (((Ratio * m + i) - 1) \div Ratio)] + (((Ratio * m + i) - 1) % Ratio)
    BY <1>1, <2>2 DEF Wire
  <2>6. Wire(u)[i] = u[1 + d] + r
    BY DEF Wire, n
  <2> HIDE DEF d, r
  <2>7. 1 + (m + d) = m + (1 + d)
    BY <1>1, <2>1
  <2>8. (s \o u)[m + (1 + d)] = u[1 + d]
    BY <1>2, <2>1, Zenon
  <2>9. whole[Ratio * m + i] = u[1 + d] + r
    BY <2>3, <2>4, <2>5, <2>7, <2>8, Zenon
  <2>10. parts[Ratio * m + i] = Wire(u)[i]
    BY <1>5, Zenon
  <2> QED
    BY <2>6, <2>9, <2>10, Zenon
<1> HIDE DEF whole, parts
<1>8. ASSUME NEW i \in 1..Len(whole) PROVE whole[i] = parts[i]
  <2> DEFINE a == Ratio * m
             b == Ratio * n
  <2>1. a \in Nat /\ b \in Nat /\ i \in 1..(a + b)
    BY <1>3, <1>4
  <2> HIDE DEF a, b
  <2>2. CASE i <= a
    <3>1. i \in 1..a
      BY <2>1, <2>2
    <3> QED
      BY <3>1, <1>6 DEF a
  <2>3. CASE i > a
    <3>1. i - a \in 1..b /\ i = a + (i - a)
      BY <2>1, <2>3
    <3>2. whole[a + (i - a)] = parts[a + (i - a)]
      BY <3>1, <1>7 DEF a, b
    <3> QED
      BY <3>1, <3>2
  <2> QED
    BY <2>1, <2>2, <2>3
<1>9. Len(whole) = Len(parts)
  BY <1>4, <1>5
<1>10. whole = parts
  BY <1>4, <1>5, <1>8, <1>9, SeqEqual
<1> QED
  BY <1>10 DEF whole, parts

-----------------------------------------------------------------------------
(* A set of naturals with a member has a least one. *)
LEMMA LeastMember ==
  ASSUME NEW T \in SUBSET Nat, T # {}
  PROVE  \E m \in T : \A n \in T : m <= n
<1>1. \A m, n \in Nat : n < m => <<n, m>> \in OpToRel(<, Nat)
  BY SMT DEF OpToRel
<1>2. \E m \in T : \A n \in T : <<n, m>> \notin OpToRel(<, Nat)
  BY NatLessThanWellFounded, WFMin
<1>3. PICK R : /\ \A m, n \in Nat : n < m => <<n, m>> \in R
               /\ \E m \in T : \A n \in T : <<n, m>> \notin R
  BY <1>1, <1>2, Zenon
<1>4. PICK m \in T : \A n \in T : <<n, m>> \notin R
  BY <1>3, Zenon
<1>5. \A n \in T : ~(n < m)
  BY <1>3, <1>4, Zenon
<1> QED
  BY <1>5

(* What holds of the first of a range, and of each with the one before it,  *)
(* holds of them all.                                                       *)
LEMMA OneByOne ==
  ASSUME NEW S, NEW b \in Nat, NEW n \in Nat, b \in S,
         \A i \in Nat : b <= i /\ i < n /\ i \in S => i + 1 \in S
  PROVE  \A i \in b..n : i \in S
<1> DEFINE T == {i \in b..n : i \notin S}
<1> SUFFICES ASSUME T # {} PROVE FALSE
  OBVIOUS
<1>1. T \in SUBSET Nat
  OBVIOUS
<1>2. PICK i \in T : \A k \in T : i <= k
  BY <1>1, LeastMember
<1>3. i \in b..n /\ i \notin S /\ i # b
  BY <1>2
<1>4. i - 1 \in Nat /\ b <= i - 1 /\ i - 1 < n /\ i - 1 \in b..n
  BY <1>3
<1>5. i - 1 \notin T
  BY <1>2, <1>3
<1>6. i - 1 \in S
  BY <1>4, <1>5
<1>7. (i - 1) + 1 \in S
  BY <1>4, <1>6
<1> QED
  BY <1>3, <1>7

(* What the stages hold, the oldest first, folded stage by stage: f[i] is   *)
(* what the first i of them hold.  It is shown by induction over the stages,*)
(* as the least one for which it fails would have one before it.            *)
FoldUpTo(f, h, n) == f = [i \in 0..n |-> IF i = 0 THEN <<>> ELSE h[i] \o f[i - 1]]

Fold(f, h) ==
    /\ f[0] = <<>>
    /\ \A i \in Stages : f[i] = h[i] \o f[i - 1]
    /\ \A i \in 0..Len(Holds) : f[i] \in Seq(Whole)

Chain == [Stages -> Seq(Whole)]

LEMMA Stage == Len(Holds) \in Nat /\ DOMAIN Holds = Stages
               /\ \A i \in Stages : i \in Nat /\ i - 1 \in 0..Len(Holds) /\ Holds[i] \in Nat
  BY ChainAssumption DEF ChainAssumption, Stages

(* There is such a fold.                                                    *)
LEMMA HasFold ==
  ASSUME NEW h \in Chain
  PROVE  \E f : FoldUpTo(f, h, Len(Holds))
<1> DEFINE S == {n \in Nat : \E f : FoldUpTo(f, h, n)}
<1>1. 0 \in S
  <2> DEFINE g == [i \in 0..0 |-> <<>>]
  <2>1. g = [i \in 0..0 |-> IF i = 0 THEN <<>> ELSE h[i] \o g[i - 1]]
    OBVIOUS
  <2>2. FoldUpTo(g, h, 0)
    BY <2>1, Zenon DEF FoldUpTo
  <2> QED
    BY <2>2
<1>2. ASSUME NEW n \in Nat, n \in S PROVE n + 1 \in S
  <2>1. PICK f : FoldUpTo(f, h, n)
    BY <1>2
  <2> DEFINE g == [i \in 0..(n + 1) |-> IF i = n + 1 THEN h[n + 1] \o f[n] ELSE f[i]]
  <2>2. \A i \in 0..n : f[i] = IF i = 0 THEN <<>> ELSE h[i] \o f[i - 1]
    BY <2>1 DEF FoldUpTo
  <2>3. ASSUME NEW i \in 0..(n + 1)
        PROVE  (IF i = n + 1 THEN h[n + 1] \o f[n] ELSE f[i])
                 = IF i = 0 THEN <<>> ELSE h[i] \o g[i - 1]
    <3>1. CASE i = n + 1
      <4>1. i # 0 /\ i - 1 = n /\ n \in 0..(n + 1) /\ n # n + 1
        BY <3>1
      <4>2. g[n] = f[n]
        BY <4>1
      <4> QED
        BY <3>1, <4>1, <4>2
    <3>2. CASE i # n + 1 /\ i # 0
      <4>1. i \in 0..n /\ i - 1 \in 0..(n + 1) /\ i - 1 # n + 1
        BY <3>2
      <4>2. g[i - 1] = f[i - 1]
        BY <4>1
      <4> QED
        BY <2>2, <3>2, <4>1, <4>2
    <3>3. CASE i # n + 1 /\ i = 0
      <4>1. 0 \in 0..n
        OBVIOUS
      <4> QED
        BY <2>2, <3>3, <4>1
    <3> QED
      BY <3>1, <3>2, <3>3
  <2>4. g = [i \in 0..(n + 1) |-> IF i = 0 THEN <<>> ELSE h[i] \o g[i - 1]]
    BY <2>3, Zenon
  <2>5. FoldUpTo(g, h, n + 1)
    BY <2>4, Zenon DEF FoldUpTo
  <2> QED
    BY <2>5
<1> HIDE DEF S
<1>3. \A i \in 0..Len(Holds) : i \in S
  BY <1>1, <1>2, Stage, OneByOne
<1>4. Len(Holds) \in S
  BY <1>3, Stage
<1> QED
  BY <1>4 DEF S

FoldOf(h) ==
    CHOOSE f : f = [i \in 0..Len(Holds) |-> IF i = 0 THEN <<>> ELSE h[i] \o f[i - 1]]

LEMMA FoldIs ==
  ASSUME NEW h \in Chain
  PROVE  Fold(FoldOf(h), h)
<1> DEFINE F(f) == [i \in 0..Len(Holds) |-> IF i = 0 THEN <<>> ELSE h[i] \o f[i - 1]]
           c == CHOOSE f : f = F(f)
           S == {i \in 0..Len(Holds) : c[i] \in Seq(Whole)}
<1>1. \E g : g = F(g)
  BY HasFold DEF FoldUpTo
<1>2. c = F(c)
  <2> HIDE DEF F
  <2> QED
    BY <1>1, Zenon
<1>3. FoldOf(h) = c
  BY Zenon DEF FoldOf
<1> HIDE DEF c
<1>4. \A i \in 0..Len(Holds) : c[i] = IF i = 0 THEN <<>> ELSE h[i] \o c[i - 1]
  BY <1>2
<1>5. 0 \in S
  <2>1. 0 \in 0..Len(Holds)
    BY Stage
  <2>2. c[0] = <<>>
    BY <1>4, <2>1, Zenon
  <2>3. c[0] \in Seq(Whole)
    BY <2>2
  <2> QED
    BY <2>1, <2>3
<1>6. ASSUME NEW i \in Nat, i < Len(Holds), i \in S PROVE i + 1 \in S
  <2>1. i + 1 \in Stages /\ i + 1 \in 0..Len(Holds) /\ i + 1 # 0 /\ (i + 1) - 1 = i
    BY <1>6, Stage DEF Stages
  <2>2. c[i + 1] = h[i + 1] \o c[i]
    BY <1>4, <2>1
  <2>3. h[i + 1] \in Seq(Whole) /\ c[i] \in Seq(Whole)
    BY <1>6, <2>1 DEF Chain
  <2> QED
    BY <2>1, <2>2, <2>3, AppendTyped
<1> HIDE DEF S
<1>7. \A i \in 0..Len(Holds) : i \in S
  BY <1>5, <1>6, Stage, OneByOne
<1>8. Fold(c, h)
  <2>1. c[0] = <<>>
    BY <1>4, Stage
  <2>2. \A i \in Stages : c[i] = h[i] \o c[i - 1]
    <3> SUFFICES ASSUME NEW i \in Stages PROVE c[i] = h[i] \o c[i - 1]
      OBVIOUS
    <3>1. i \in 0..Len(Holds) /\ i # 0
      BY Stage DEF Stages
    <3> QED
      BY <1>4, <3>1, Zenon
  <2>3. \A i \in 0..Len(Holds) : c[i] \in Seq(Whole)
    BY <1>7, Zenon DEF S
  <2> QED
    BY <2>1, <2>2, <2>3, Zenon DEF Fold
<1> QED
  BY <1>3, <1>8

(* InTheChain is the fold of what is held.                                  *)
LEMMA InTheChainIs ==
  /\ InTheChain = FoldOf(held)[Len(Holds)]
  /\ InTheChain' = FoldOf(held')[Len(Holds)]
  BY Zenon DEF InTheChain, FoldOf

Agree(h, g, k) == \A j \in Stages : j <= k => h[j] = g[j]
SameAt(f, e, k) == f[k] = e[k]

(* The stages up to one hold the same where each of them does.              *)
LEMMA FoldsAgree ==
  ASSUME NEW h, NEW g, NEW f, NEW e, Fold(f, h), Fold(e, g), NEW k \in 0..Len(Holds),
         Agree(h, g, k)
  PROVE  SameAt(f, e, k)
<1> DEFINE S == {i \in 0..k : f[i] = e[i]}
<1>1. k \in Nat /\ k <= Len(Holds) /\ Len(Holds) \in Nat
  BY Stage
<1>2. 0 \in S
  BY <1>1 DEF Fold
<1>3. ASSUME NEW i \in Nat, i < k, i \in S PROVE i + 1 \in S
  <2>1. i + 1 \in Stages /\ i + 1 <= k /\ i + 1 \in 0..k /\ (i + 1) - 1 = i
    BY <1>1, <1>3 DEF Stages
  <2>2. f[i + 1] = h[i + 1] \o f[i] /\ e[i + 1] = g[i + 1] \o e[i]
    BY <2>1 DEF Fold
  <2>3. h[i + 1] = g[i + 1] /\ f[i] = e[i]
    BY <1>3, <2>1 DEF Agree
  <2> QED
    BY <2>1, <2>2, <2>3
<1> HIDE DEF S
<1>4. \A i \in 0..k : i \in S
  BY <1>1, <1>2, <1>3, OneByOne
<1>5. k \in S
  BY <1>1, <1>4
<1> QED
  BY <1>5 DEF S, SameAt

(* Joining is associative, named to be cited.                               *)
Joined(s, u, v) == (s \o u) \o v = s \o (u \o v)

LEMMA JoinsOfWhole ==
  ASSUME NEW s \in Seq(Whole), NEW u \in Seq(Whole), NEW v \in Seq(Whole)
  PROVE  Joined(s, u, v)
  BY DEF Joined

(* What comes out at a stage, in front of what the stages up to it hold, is  *)
(* what they held, in front of what is new.                                 *)
Conserved(o, f, e, new, i) == o[i] \o e[i] = f[i] \o new

(* A stage gives on what it held and what it was given, but for what it now  *)
(* holds.                                                                   *)
Relayed(o, h, g, b) ==
    /\ \A i \in b..Len(Holds) : o[i] \in Seq(Whole)
    /\ \A i \in (b + 1)..Len(Holds) : o[i] \o g[i] = h[i] \o o[i - 1]

(* What each stage gives on, in front of what it keeps, is what it held in  *)
(* front of what it was given; so it is of all of them.                     *)
LEMMA ChainConserves ==
  ASSUME NEW b \in 0..Len(Holds), NEW o, NEW h \in Chain, NEW g \in Chain,
         NEW f, NEW e, Fold(f, h), Fold(e, g), NEW new \in Seq(Whole),
         Relayed(o, h, g, b), Conserved(o, f, e, new, b)
  PROVE  Conserved(o, f, e, new, Len(Holds))
<1> DEFINE N == Len(Holds)
           S == {i \in b..N : o[i] \o e[i] = f[i] \o new}
<1>1. b \in Nat /\ b <= N /\ N \in Nat
  BY Stage
<1>2. b \in S
  <2>1. b \in b..N
    BY <1>1
  <2> QED
    BY <2>1, Zenon DEF Conserved
<1>3. ASSUME NEW i \in Nat, b <= i, i < N, i \in S PROVE i + 1 \in S
  <2> DEFINE k == i + 1
  <2>1. /\ k \in Stages /\ k \in (b + 1)..N /\ k \in b..N /\ k - 1 = i
        /\ i \in b..N /\ i \in 0..N /\ k \in 0..N
    BY <1>1, <1>3 DEF Stages
  <2> HIDE DEF k, N
  <2>2. o[i] \o e[i] = f[i] \o new
    BY <1>3
  <2>3. e[k] = g[k] \o e[i] /\ f[k] = h[k] \o f[i]
    BY <2>1 DEF Fold
  <2>4. /\ o[i] \in Seq(Whole) /\ o[k] \in Seq(Whole) /\ g[k] \in Seq(Whole)
        /\ h[k] \in Seq(Whole) /\ e[i] \in Seq(Whole) /\ f[i] \in Seq(Whole)
    BY <2>1 DEF Fold, Chain, N, Relayed
  <2>5. o[k] \o g[k] = h[k] \o o[i]
    BY <2>1 DEF N, Relayed
  <2>6. /\ o[k] \o (g[k] \o e[i]) = (o[k] \o g[k]) \o e[i]
        /\ (h[k] \o o[i]) \o e[i] = h[k] \o (o[i] \o e[i])
        /\ h[k] \o (f[i] \o new) = (h[k] \o f[i]) \o new
    <3>1. Joined(o[k], g[k], e[i])
      BY <2>4, JoinsOfWhole, Zenon
    <3>2. Joined(h[k], o[i], e[i])
      BY <2>4, JoinsOfWhole, Zenon
    <3>3. Joined(h[k], f[i], new)
      BY <2>4, JoinsOfWhole, Zenon
    <3> QED
      BY <3>1, <3>2, <3>3, Zenon DEF Joined
  <2>7. o[k] \o e[k] = (o[k] \o g[k]) \o e[i]
    BY <2>3, <2>6, Zenon
  <2>8. (o[k] \o g[k]) \o e[i] = h[k] \o (o[i] \o e[i])
    BY <2>5, <2>6, Zenon
  <2>9. h[k] \o (o[i] \o e[i]) = (h[k] \o f[i]) \o new
    BY <2>2, <2>6, Zenon
  <2>10. o[k] \o e[k] = f[k] \o new
    BY <2>3, <2>7, <2>8, <2>9, Zenon
  <2> QED
    BY <2>1, <2>10 DEF k
<1> HIDE DEF S, N
<1>4. \A i \in b..N : i \in S
  <2>1. \A i \in Nat : b <= i /\ i < N /\ i \in S => i + 1 \in S
    BY <1>3
  <2> QED
    BY <1>1, <1>2, <2>1, OneByOne, Zenon
<1>5. N \in S
  BY <1>1, <1>4
<1> QED
  BY <1>5 DEF S, N, Conserved

-----------------------------------------------------------------------------
(* A block on its way through the chain.                                    *)

Flow == [out : Seq(Whole), held : Chain]

(* A block at stage i, and what the stage gives on.                         *)
Passed(had, i) ==
    LET all  == had.held[i] \o had.out
        some == IF Len(all) > Holds[i] THEN Len(all) - Holds[i] ELSE 0
    IN [out  |-> SubSeq(all, 1, some),
        held |-> [had.held EXCEPT ![i] = Drop(all, some)]]

Full == \A i \in Stages : Len(held[i]) <= Holds[i]

LEMMA TakeAndDrop ==
  ASSUME NEW S, NEW s \in Seq(S), NEW n \in 0..Len(s)
  PROVE  SubSeq(s, 1, n) \o Drop(s, n) = s
<1>1. SubSeq(s, 1, n) \o SubSeq(s, n + 1, Len(s)) = SubSeq(s, 1, Len(s))
  <2>1. /\ 1 \in 1..(Len(s) + 1) /\ n \in (1 - 1)..Len(s) /\ Len(s) \in n..Len(s)
    OBVIOUS
  <2> QED
    BY <2>1, ConcatAdjacentSubSeq
<1>2. SubSeq(s, 1, Len(s)) = s
  BY SubSeqFull
<1> QED
  BY <1>1, <1>2, Zenon DEF Drop

(* A stage gives back what it was given, after what it held, and keeps no    *)
(* more than its fill.                                                      *)
LEMMA StageGives ==
  ASSUME NEW had \in Flow, NEW i \in Stages, NEW new, new = Passed(had, i)
  PROVE  /\ new \in Flow
         /\ new.out \o new.held[i] = had.held[i] \o had.out
         /\ Len(new.held[i]) <= Holds[i]
         /\ Len(had.held[i]) <= Holds[i] => Len(new.out) <= Len(had.out)
         /\ \A j \in Stages : j # i => new.held[j] = had.held[j]
<1> DEFINE all == had.held[i] \o had.out
           some == IF Len(all) > Holds[i] THEN Len(all) - Holds[i] ELSE 0
<1>1. had.held[i] \in Seq(Whole) /\ had.out \in Seq(Whole) /\ had.held \in Chain
  BY DEF Flow, Chain
<1>2. all \in Seq(Whole) /\ Len(all) = Len(had.held[i]) + Len(had.out)
  BY <1>1, AppendTyped
<1>3. Holds[i] \in Nat /\ Len(all) \in Nat
  <2>1. Holds[i] \in Nat
    BY Stage, Zenon
  <2> HIDE DEF all
  <2>2. Len(all) \in Nat
    BY <1>2, LenProperties, Zenon
  <2> QED
    BY <2>1, <2>2
<1>4. some \in 0..Len(all) /\ Len(all) - some <= Holds[i]
      /\ (Len(had.held[i]) <= Holds[i] => some <= Len(had.out))
  <2> DEFINE n == Len(all)
             x == Len(had.held[i])
             y == Len(had.out)
             h == Holds[i]
  <2>1. x \in Nat /\ y \in Nat /\ n = x + y /\ h \in Nat
    BY <1>1, <1>2, <1>3
  <2>2. some = IF n > h THEN n - h ELSE 0
    OBVIOUS
  <2> HIDE DEF n, x, y, h, some
  <2>3. some \in 0..n /\ n - some <= h /\ (x <= h => some <= y)
    BY <2>1, <2>2
  <2> QED
    BY <2>3 DEF n, x, y, h
<1>5. new = [out  |-> SubSeq(all, 1, some),
             held |-> [had.held EXCEPT ![i] = Drop(all, some)]]
  BY DEF Passed
<1> HIDE DEF all, some
<1>6. /\ SubSeq(all, 1, some) \in Seq(Whole) /\ Len(SubSeq(all, 1, some)) = some
      /\ Drop(all, some) \in Seq(Whole) /\ Len(Drop(all, some)) = Len(all) - some
  BY <1>2, <1>4, TakeTyped, DropTyped
<1>7. SubSeq(all, 1, some) \o Drop(all, some) = all
  BY <1>2, <1>4, TakeAndDrop
<1>8. /\ new.out = SubSeq(all, 1, some) /\ new.held[i] = Drop(all, some)
      /\ new.held \in Chain /\ new \in Flow
      /\ \A j \in Stages : j # i => new.held[j] = had.held[j]
  <2>1. [had.held EXCEPT ![i] = Drop(all, some)] \in Chain
    BY <1>1, <1>6 DEF Chain
  <2>2. new.held[i] = Drop(all, some)
    BY <1>1, <1>5 DEF Chain
  <2> QED
    BY <1>1, <1>5, <1>6, <2>1, <2>2 DEF Flow, Chain
<1>9. all = had.held[i] \o had.out
  BY DEF all
<1> QED
  BY <1>4, <1>6, <1>7, <1>8, <1>9

(* A block passed on from stage to stage: the stages from here on, up to n.  *)
RunUpTo(a, b, given, n) ==
    a = [i \in b..n |-> IF i = b THEN [out |-> given, held |-> held]
                       ELSE Passed(a[i - 1], i)]

(* There is such a run through the stages, and it is what Through computes. *)
LEMMA HasRun ==
  ASSUME NEW b \in 0..Len(Holds), NEW given
  PROVE  \E a : RunUpTo(a, b, given, Len(Holds))
<1> DEFINE S == {n \in Nat : \E a : RunUpTo(a, b, given, n)}
           first == [out |-> given, held |-> held]
<1>0. b \in Nat /\ Len(Holds) \in Nat /\ b <= Len(Holds)
  BY Stage
<1>1. b \in S
  <2> DEFINE a == [i \in b..b |-> first]
  <2>1. \A i \in b..b : i = b
    BY <1>0
  <2> HIDE DEF first
  <2>2. a = [i \in b..b |-> IF i = b THEN first ELSE Passed(a[i - 1], i)]
    BY <2>1, Zenon
  <2> HIDE DEF a
  <2>3. RunUpTo(a, b, given, b)
    BY <2>2, Zenon DEF RunUpTo, first
  <2> QED
    BY <1>0, <2>3
<1>2. ASSUME NEW n \in Nat, b <= n, n \in S PROVE n + 1 \in S
  <2>1. PICK a : RunUpTo(a, b, given, n)
    BY <1>2
  <2> HIDE DEF first
  <2> DEFINE c == [i \in b..(n + 1) |-> IF i = n + 1 THEN Passed(a[n], n + 1) ELSE a[i]]
  <2>2. \A i \in b..n : a[i] = IF i = b THEN first ELSE Passed(a[i - 1], i)
    <3>1. a = [i \in b..n |-> IF i = b THEN first ELSE Passed(a[i - 1], i)]
      BY <2>1, Zenon DEF RunUpTo, first
    <3> QED
      BY <3>1
  <2>3. ASSUME NEW i \in b..(n + 1)
        PROVE  (IF i = n + 1 THEN Passed(a[n], n + 1) ELSE a[i])
                 = IF i = b THEN first ELSE Passed(c[i - 1], i)
    <3>1. CASE i = n + 1
      <4>1. i # b /\ i - 1 = n /\ n \in b..(n + 1) /\ n # n + 1
        BY <1>0, <1>2, <3>1
      <4>2. c[n] = a[n]
        BY <4>1
      <4> QED
        BY <3>1, <4>1, <4>2
    <3>2. CASE i # n + 1 /\ i # b
      <4>1. i \in b..n /\ i - 1 \in b..(n + 1) /\ i - 1 # n + 1
        BY <1>0, <3>2
      <4>2. c[i - 1] = a[i - 1]
        BY <4>1
      <4> HIDE DEF c
      <4> QED
        BY <2>2, <3>2, <4>1, <4>2, Zenon
    <3>3. CASE i # n + 1 /\ i = b
      <4>1. b \in b..n
        BY <1>0, <1>2
      <4> HIDE DEF c
      <4> QED
        BY <2>2, <3>3, <4>1, Zenon
    <3> QED
      BY <3>1, <3>2, <3>3
  <2>4. c = [i \in b..(n + 1) |-> IF i = b THEN first ELSE Passed(c[i - 1], i)]
    BY <2>3, Zenon
  <2> HIDE DEF c
  <2>5. RunUpTo(c, b, given, n + 1)
    BY <2>4, Zenon DEF RunUpTo, first
  <2> QED
    BY <2>5
<1> HIDE DEF S
<1>3. \A i \in b..Len(Holds) : i \in S
  <2>1. \A i \in Nat : b <= i /\ i < Len(Holds) /\ i \in S => i + 1 \in S
    BY <1>2
  <2> QED
    BY <1>0, <1>1, <2>1, OneByOne, Zenon
<1>4. Len(Holds) \in S
  BY <1>0, <1>3
<1> QED
  BY <1>4 DEF S

LEMMA ThroughIs ==
  ASSUME NEW from \in 1..(Len(Holds) + 1), NEW given
  PROVE  \E a : RunUpTo(a, from - 1, given, Len(Holds)) /\ Through(from, given) = a[Len(Holds)]
<1> DEFINE F(a) == [i \in (from - 1)..Len(Holds) |->
                      IF i = from - 1 THEN [out |-> given, held |-> held]
                      ELSE Passed(a[i - 1], i)]
           c == CHOOSE a : a = F(a)
<1>1. \E a : a = F(a)
  <2>1. from - 1 \in 0..Len(Holds)
    BY Stage
  <2>2. PICK a : RunUpTo(a, from - 1, given, Len(Holds))
    BY <2>1, HasRun
  <2>3. a = F(a)
    BY <2>2, Zenon DEF RunUpTo
  <2> HIDE DEF F
  <2> QED
    BY <2>3
<1>2. c = F(c)
  <2> HIDE DEF F
  <2> QED
    BY <1>1, Zenon
<1>3. Through(from, given) = c[Len(Holds)]
  BY Zenon DEF Through, Passed
<1>4. RunUpTo(c, from - 1, given, Len(Holds))
  <2> HIDE DEF c
  <2> QED
    BY <1>2, Zenon DEF RunUpTo
<1> HIDE DEF c
<1> QED
  BY <1>3, <1>4, Zenon

(* What goes in at a stage comes out of the last one or stays in one on the  *)
(* way, behind what was there; no stage before it is touched, and none      *)
(* holds more than its fill.                                                *)
Carried(o, from, given, gone) ==
    /\ o[from - 1] = given /\ o[Len(Holds)] = gone.out
    /\ \A i \in (from - 1)..Len(Holds) : o[i] \in Seq(Whole)
    /\ \A i \in from..Len(Holds) : o[i] \o gone.held[i] = held[i] \o o[i - 1]
    /\ gone.held \in Chain
    /\ \A j \in Stages : j < from => gone.held[j] = held[j]
    /\ Full => /\ Len(gone.out) <= Len(given)
               /\ \A j \in Stages : Len(gone.held[j]) <= Holds[j]

LEMMA ThroughCarries ==
  ASSUME held \in Chain, NEW from \in 1..(Len(Holds) + 1), NEW given \in Seq(Whole)
  PROVE  \E o : Carried(o, from, given, Through(from, given))
<1> DEFINE b == from - 1
           N == Len(Holds)
<1>0. b \in Nat /\ N \in Nat /\ b <= N /\ from = b + 1 /\ Stages = 1..N
  BY Stage DEF Stages
<1>1. PICK a : RunUpTo(a, b, given, N) /\ Through(from, given) = a[N]
  BY ThroughIs, Zenon
<1> HIDE DEF b, N
<1>2. \A i \in b..N : a[i] = IF i = b THEN [out |-> given, held |-> held] ELSE Passed(a[i - 1], i)
  <2>1. a = [i \in b..N |-> IF i = b THEN [out |-> given, held |-> held] ELSE Passed(a[i - 1], i)]
    BY <1>1, Zenon DEF RunUpTo
  <2> QED
    BY <2>1
<1>3. a[b] = [out |-> given, held |-> held]
  BY <1>0, <1>2
<1> DEFINE Fits(i) == Full => /\ Len(a[i].out) <= Len(given)
                              /\ \A j \in Stages : Len(a[i].held[j]) <= Holds[j]
           Good(i) == /\ a[i] \in Flow
                      /\ \A j \in Stages : j <= b \/ j > i => a[i].held[j] = held[j]
                      /\ \A j \in Stages : j > b /\ j <= i =>
                            a[j].out \o a[i].held[j] = held[j] \o a[j - 1].out
                      /\ Fits(i)
           S == {i \in b..N : Good(i)}
<1>4. b \in S
  <2>1. a[b] \in Flow /\ a[b].held = held /\ a[b].out = given
    BY <1>3 DEF Flow
  <2>2. Len(given) \in Nat
    OBVIOUS
  <2>3. Fits(b)
    BY <2>1, <2>2 DEF Full
  <2>4. \A j \in Stages : ~(j > b /\ j <= b)
    BY <1>0
  <2> HIDE DEF Fits
  <2>5. Good(b)
    BY <2>1, <2>3, <2>4, Zenon
  <2>6. b \in b..N
    BY <1>0
  <2> HIDE DEF Good
  <2> QED
    BY <2>5, <2>6
<1>5. ASSUME NEW i \in Nat, b <= i, i < N, i \in S PROVE i + 1 \in S
  <2> DEFINE k == i + 1
             had == a[i]
             new == a[i + 1]
  <2>1. k \in Stages /\ k \in b..N /\ k # b /\ k - 1 = i /\ k > b /\ k > i
    BY <1>0, <1>5
  <2>2. new = Passed(had, k)
    BY <1>2, <2>1
  <2>3. Good(i)
    BY <1>5
  <2> HIDE DEF Good, S
  <2>4. had \in Flow
    BY <2>3 DEF Good
  <2> HIDE DEF k, had, new
  <2>5. /\ new \in Flow
        /\ new.out \o new.held[k] = had.held[k] \o had.out
        /\ Len(new.held[k]) <= Holds[k]
        /\ Len(had.held[k]) <= Holds[k] => Len(new.out) <= Len(had.out)
        /\ \A j \in Stages : j # k => new.held[j] = had.held[j]
    BY <2>1, <2>2, <2>4, StageGives, ZenonT(60)
  <2>6. had.held[k] = held[k]
    BY <2>1, <2>3 DEF Good, had
  <2>7. ASSUME NEW j \in Stages, j <= b \/ j > k PROVE new.held[j] = held[j]
    <3>1. j # k /\ (j <= b \/ j > i)
      BY <1>0, <2>1, <2>7
    <3> QED
      BY <2>3, <2>5, <3>1 DEF Good, had
  <2>8. ASSUME NEW j \in Stages, j > b, j <= k
        PROVE  a[j].out \o new.held[j] = held[j] \o a[j - 1].out
    <3>1. CASE j = k
      BY <2>1, <2>5, <2>6, <3>1 DEF had, new, k
    <3>2. CASE j # k
      <4>1. j <= i
        BY <1>0, <2>1, <2>8, <3>2
      <4> QED
        BY <2>3, <2>5, <2>8, <3>2, <4>1 DEF Good, had
    <3> QED
      BY <3>1, <3>2
  <2>9. Fits(k)
    <3> SUFFICES ASSUME Full
                 PROVE  /\ Len(new.out) <= Len(given)
                        /\ \A j \in Stages : Len(new.held[j]) <= Holds[j]
      BY DEF new, k
    <3>1. Len(had.out) <= Len(given) /\ \A j \in Stages : Len(had.held[j]) <= Holds[j]
      BY <2>3 DEF Good, had
    <3>2. Len(new.out) <= Len(had.out)
      BY <2>1, <2>5, <3>1
    <3>3. Len(new.out) \in Nat /\ Len(had.out) \in Nat /\ Len(given) \in Nat
      BY <2>4, <2>5 DEF Flow
    <3>4. \A j \in Stages : Len(new.held[j]) <= Holds[j]
      BY <2>5, <3>1
    <3> QED
      BY <3>1, <3>2, <3>3, <3>4
  <2> HIDE DEF Fits
  <2>10. Good(k)
    BY <2>5, <2>7, <2>8, <2>9, Zenon DEF Good, new, k
  <2> QED
    BY <2>1, <2>10 DEF S, k
<1>6. \A i \in b..N : i \in S
  <2> HIDE DEF S
  <2>1. \A i \in Nat : b <= i /\ i < N /\ i \in S => i + 1 \in S
    BY <1>5
  <2> QED
    BY <1>0, <1>4, <2>1, OneByOne, Zenon
<1>7. Good(N)
  <2>1. N \in b..N
    BY <1>0
  <2> QED
    BY <1>6, <2>1, Zenon
<1> DEFINE o == [i \in b..N |-> a[i].out]
           gone == Through(from, given)
<1>8. \A i \in b..N : o[i] = a[i].out
  OBVIOUS
<1>9. \A i \in b..N : o[i] \in Seq(Whole)
  <2>1. \A i \in b..N : a[i] \in Flow
    BY <1>6, Zenon
  <2> HIDE DEF o
  <2> QED
    BY <1>8, <2>1 DEF Flow
<1> HIDE DEF Good, o, S
<1>10. /\ o[b] = given /\ o[N] = gone.out /\ gone = a[N]
  BY <1>0, <1>1, <1>3, <1>8
<1>11. \A i \in from..N : o[i] \o gone.held[i] = held[i] \o o[i - 1]
  <2> SUFFICES ASSUME NEW i \in from..N PROVE o[i] \o gone.held[i] = held[i] \o o[i - 1]
    OBVIOUS
  <2>1. i \in Stages /\ i > b /\ i <= N /\ i \in b..N /\ i - 1 \in b..N
    BY <1>0
  <2> HIDE DEF gone
  <2> QED
    BY <1>7, <1>8, <1>10, <2>1, Zenon DEF Good
<1>12. gone.held \in Chain
  BY <1>7, <1>10 DEF Good, Flow
<1>13. \A j \in Stages : j < from => gone.held[j] = held[j]
  <2>1. \A j \in Stages : j < from => j <= b
    BY <1>0
  <2> HIDE DEF gone
  <2> QED
    BY <1>7, <1>10, <2>1, Zenon DEF Good
<1>14. Full => /\ Len(gone.out) <= Len(given)
               /\ \A j \in Stages : Len(gone.held[j]) <= Holds[j]
  BY <1>7, <1>10, Zenon DEF Good
<1>15. Carried(o, from, given, gone)
  <2> HIDE DEF gone
  <2> QED
    BY <1>9, <1>10, <1>11, <1>12, <1>13, <1>14, Zenon DEF Carried, b, N
<1> QED
  BY <1>15

(* What the source gives is on the wire the frames from where it stands.    *)
LEMMA WireOfRead ==
  ASSUME NEW p \in Nat, NEW got \in Nat, p + Ratio * got <= Length,
         NEW read, read = [i \in 1..got |-> p + Ratio * (i - 1)]
  PROVE  /\ read \in Seq(Whole) /\ Len(read) = got
         /\ Wire(read) = Frames(p, Ratio * got)
<1>1. ASSUME NEW i \in 1..got PROVE p + Ratio * (i - 1) \in Whole
  <2>1. i - 1 \in Nat /\ i - 1 < got
    OBVIOUS
  <2>2. Ratio * (i - 1) \in Nat /\ Ratio * (i - 1) + Ratio <= Ratio * got /\ Ratio * got \in Nat
    BY <2>1, Rate, Scales
  <2> DEFINE a == Ratio * (i - 1)
             m == Ratio * got
  <2>3. a \in Nat /\ m \in Nat /\ a + Ratio <= m /\ p + m <= Length
    BY <2>2
  <2> HIDE DEF a, m
  <2>4. p + a \in Nat /\ (p + a) + Ratio <= Length
    BY <2>3, Rate
  <2> QED
    BY <2>4 DEF a, Whole
<1>2. read \in Seq(Whole) /\ Len(read) = got
  <2>1. read \in [1..got -> Whole]
    BY <1>1, Zenon
  <2> QED
    BY <2>1
<1>3. ASSUME NEW j \in 1..(Ratio * got)
      PROVE  read[1 + ((j - 1) \div Ratio)] + ((j - 1) % Ratio) = p + j - 1
  <2> DEFINE d == (j - 1) \div Ratio
             r == (j - 1) % Ratio
  <2>1. d \in Nat /\ 1 + d \in 1..got /\ r \in 0..(Ratio - 1) /\ j - 1 = Ratio * d + r
        /\ Ratio * d \in Nat
    BY InWire, Rate
  <2> HIDE DEF d, r
  <2>2. (1 + d) - 1 = d
    BY <2>1
  <2>3. read[1 + d] = p + Ratio * d
    BY <2>1, <2>2
  <2> DEFINE a == Ratio * d
  <2>4. a \in Nat /\ j - 1 = a + r /\ r \in Nat /\ j \in Nat
    <3>1. Ratio * got \in Nat
      BY Rate
    <3> QED
      BY <2>1, <3>1, Rate
  <2> HIDE DEF a
  <2>5. (p + a) + r = p + j - 1
    BY <2>4
  <2> QED
    BY <2>3, <2>5 DEF a, d, r
<1>4. Wire(read) = [j \in 1..(Ratio * got) |-> read[1 + ((j - 1) \div Ratio)] + ((j - 1) % Ratio)]
  BY <1>2, Zenon DEF Wire
<1>5. Wire(read) = Frames(p, Ratio * got)
  BY <1>3, <1>4, Zenon DEF Frames
<1> QED
  BY <1>2, <1>5

LEMMA JoinsWithNone ==
  ASSUME NEW S, NEW s \in Seq(S)
  PROVE  s \o <<>> = s
  OBVIOUS

(* The chain holds whole frames of the source, no stage more than its fill. *)
ChainInv ==
    /\ held \in Chain /\ Full
    /\ flushStage \in 1..(Len(Holds) + 1) /\ flushed \in BOOLEAN
    /\ ~flushed /\ Holds # <<>> => flushStage \in Stages

LEMMA ChainTyped ==
  ASSUME held \in Chain
  PROVE  InTheChain \in Seq(Whole)
<1>1. Fold(FoldOf(held), held)
  BY FoldIs
<1>2. Len(Holds) \in 0..Len(Holds)
  BY Stage
<1> QED
  BY <1>1, <1>2, InTheChainIs, Zenon DEF Fold

LEMMA NextChainTyped ==
  ASSUME held' \in Chain
  PROVE  InTheChain' \in Seq(Whole)
<1>1. Fold(FoldOf(held'), held')
  BY FoldIs
<1>2. Len(Holds) \in 0..Len(Holds)
  BY Stage
<1> QED
  BY <1>1, <1>2, InTheChainIs, Zenon DEF Fold

(* A block that has gone through the chain.                                 *)
LEMMA RunsConserve ==
  ASSUME held \in Chain, NEW given \in Seq(Whole), held' = Through(1, given).held
  PROVE  /\ held' \in Chain
         /\ Through(1, given).out \in Seq(Whole)
         /\ Through(1, given).out \o InTheChain' = InTheChain \o given
         /\ Full => Full' /\ Len(Through(1, given).out) <= Len(given)
<1> DEFINE N == Len(Holds)
           gone == Through(1, given)
           f == FoldOf(held)
           e == FoldOf(held')
<1>1. N \in Nat /\ 1 \in 1..(N + 1) /\ 1 - 1 = 0 /\ 0 \in 0..N /\ N \in 0..N /\ Stages = 1..N
      /\ 0 + 1 = 1
  BY Stage DEF Stages
<1>2. PICK o : Carried(o, 1, given, gone)
  BY <1>1, ThroughCarries, Zenon
<1> HIDE DEF gone, N
<1>3. /\ o[0] = given /\ o[N] = gone.out
      /\ \A i \in 0..N : o[i] \in Seq(Whole)
      /\ \A i \in 1..N : o[i] \o gone.held[i] = held[i] \o o[i - 1]
      /\ gone.held \in Chain
      /\ Full => /\ Len(gone.out) <= Len(given)
                 /\ \A j \in Stages : Len(gone.held[j]) <= Holds[j]
  BY <1>1, <1>2 DEF Carried, N
<1>4. held' = gone.held /\ held' \in Chain
  BY <1>3 DEF gone
<1>5. Fold(f, held) /\ Fold(e, held')
  BY <1>4, FoldIs, Zenon
<1> HIDE DEF f, e
<1>6. f[0] = <<>> /\ e[0] = <<>>
  BY <1>5 DEF Fold
<1>7. Conserved(o, f, e, given, 0)
  <2>1. given \o <<>> = given /\ <<>> \o given = given
    OBVIOUS
  <2> QED
    BY <1>3, <1>6, <2>1, Zenon DEF Conserved
<1>8. Relayed(o, held, held', 0)
  BY <1>1, <1>3, <1>4, Zenon DEF Relayed, N
<1>9. Conserved(o, f, e, given, N)
  BY <1>1, <1>4, <1>5, <1>7, <1>8, ChainConserves, ZenonT(40) DEF N
<1>10. gone.out \o InTheChain' = InTheChain \o given
  BY <1>3, <1>9, InTheChainIs, Zenon DEF e, f, N, Conserved
<1>11. gone.out \in Seq(Whole)
  BY <1>1, <1>3, Zenon
<1>12. Full => Full' /\ Len(gone.out) <= Len(given)
  <2> SUFFICES ASSUME Full PROVE Full' /\ Len(gone.out) <= Len(given)
    OBVIOUS
  <2>1. Full'
    BY <1>3, <1>4 DEF Full
  <2> QED
    BY <1>3, <2>1
<1> QED
  BY <1>4, <1>10, <1>11, <1>12 DEF gone

(* A block of the stage being drained, that has gone through the rest.      *)
LEMMA DrainConserves ==
  ASSUME held \in Chain, NEW k \in Stages, NEW some \in 0..Len(held[k]),
         NEW gone, gone = Through(k + 1, SubSeq(held[k], 1, some)),
         held' = [gone.held EXCEPT ![k] = Drop(@, some)]
  PROVE  /\ held' \in Chain
         /\ gone.out \in Seq(Whole)
         /\ gone.out \o InTheChain' = InTheChain
         /\ Full => Full' /\ Len(gone.out) <= some
         /\ \A j \in Stages : j < k => held'[j] = held[j]
<1> DEFINE N == Len(Holds)
           given == SubSeq(held[k], 1, some)
           rest == Drop(held[k], some)
           f == FoldOf(held)
           e == FoldOf(held')
<1>1. /\ N \in Nat /\ k + 1 \in 1..(N + 1) /\ (k + 1) - 1 = k /\ k \in 0..N /\ N \in 0..N
      /\ Stages = 1..N /\ k - 1 \in 0..N /\ k \in Nat
  BY Stage DEF Stages
<1>2. held[k] \in Seq(Whole)
  BY DEF Chain
<1>3. /\ given \in Seq(Whole) /\ Len(given) = some
      /\ rest \in Seq(Whole) /\ Len(rest) = Len(held[k]) - some
      /\ given \o rest = held[k]
  BY <1>2, TakeTyped, DropTyped, TakeAndDrop
<1> HIDE DEF given, rest, N
<1>4. PICK o : Carried(o, k + 1, given, gone)
  BY <1>1, <1>3, ThroughCarries, Zenon DEF given, N
<1>5. /\ o[k] = given /\ o[N] = gone.out
      /\ \A i \in k..N : o[i] \in Seq(Whole)
      /\ \A i \in (k + 1)..N : o[i] \o gone.held[i] = held[i] \o o[i - 1]
      /\ gone.held \in Chain
      /\ \A j \in Stages : j < k + 1 => gone.held[j] = held[j]
      /\ Full => /\ Len(gone.out) <= Len(given)
                 /\ \A j \in Stages : Len(gone.held[j]) <= Holds[j]
  BY <1>1, <1>4 DEF Carried, N
<1>6. gone.held[k] = held[k]
  BY <1>1, <1>5
<1>7. /\ held' \in Chain /\ held'[k] = rest
      /\ \A j \in Stages : j # k => held'[j] = gone.held[j]
  BY <1>3, <1>5, <1>6 DEF Chain, rest
<1>8. Fold(f, held) /\ Fold(e, held')
  BY <1>7, FoldIs, Zenon
<1> HIDE DEF f, e
<1>9. \A j \in Stages : j < k => held'[j] = held[j]
  <2> SUFFICES ASSUME NEW j \in Stages, j < k PROVE held'[j] = held[j]
    OBVIOUS
  <2>1. j # k /\ j < k + 1
    BY <1>1
  <2> QED
    BY <1>5, <1>7, <2>1
<1>10. f[k - 1] = e[k - 1]
  <2>1. Agree(held, held', k - 1)
    <3>1. \A j \in Stages : j <= k - 1 => j < k
      BY <1>1
    <3> QED
      BY <1>9, <3>1 DEF Agree
  <2>2. SameAt(f, e, k - 1)
    BY <1>1, <1>8, <2>1, FoldsAgree, ZenonT(40) DEF N
  <2> QED
    BY <2>2 DEF SameAt
<1>11. f[k] = held[k] \o f[k - 1] /\ e[k] = rest \o e[k - 1] /\ f[k - 1] \in Seq(Whole)
       /\ f[k] \in Seq(Whole)
  BY <1>1, <1>7, <1>8 DEF Fold, N
<1>12. Conserved(o, f, e, <<>>, k)
  <2>1. (given \o rest) \o f[k - 1] = given \o (rest \o f[k - 1])
    BY <1>3, <1>11, JoinsOfWhole, Zenon DEF Joined
  <2>2. f[k] \o <<>> = f[k]
    BY <1>11
  <2> QED
    BY <1>3, <1>5, <1>10, <1>11, <2>1, <2>2, Zenon DEF Conserved
<1>13. Relayed(o, held, held', k)
  <2> SUFFICES ASSUME NEW i \in (k + 1)..N PROVE o[i] \o held'[i] = held[i] \o o[i - 1]
    BY <1>5 DEF Relayed, N
  <2>1. i \in Stages /\ i # k
    BY <1>1
  <2> QED
    BY <1>5, <1>7, <2>1
<1>14. Conserved(o, f, e, <<>>, N)
  <2>1. <<>> \in Seq(Whole)
    OBVIOUS
  <2> QED
    BY <1>1, <1>7, <1>8, <1>12, <1>13, <2>1, ChainConserves, ZenonT(40) DEF N
<1>15. f[N] \o <<>> = f[N]
  <2>1. f[N] \in Seq(Whole)
    BY <1>1, <1>8 DEF Fold, N
  <2> QED
    BY <2>1
<1>16. gone.out \o InTheChain' = InTheChain
  BY <1>5, <1>14, <1>15, InTheChainIs, Zenon DEF e, f, N, Conserved
<1>17. gone.out \in Seq(Whole)
  BY <1>1, <1>5
<1>18. Full => Full' /\ Len(gone.out) <= some
  <2> SUFFICES ASSUME Full PROVE Full' /\ Len(gone.out) <= some
    OBVIOUS
  <2>1. Len(held'[k]) <= Holds[k]
    <3>1. Len(held[k]) \in Nat /\ Len(held[k]) <= Holds[k] /\ Holds[k] \in Nat
      BY <1>2, Stage DEF Full
    <3> QED
      BY <1>3, <1>7, <3>1
  <2>2. Full'
    BY <1>5, <1>7, <2>1 DEF Full
  <2> QED
    BY <1>3, <1>5, <2>2
<1> QED
  BY <1>7, <1>9, <1>16, <1>17, <1>18

(* As many source frames as fit a number of the wire are no more than it.   *)
LEMMA Quotient ==
  ASSUME NEW R \in Nat \ {0}, NEW n \in Nat, NEW k \in Nat, k <= n \div R
  PROVE  R * k <= n
<1> DEFINE q == n \div R
           r == n % R
<1>1. q \in Nat /\ r \in 0..(R - 1) /\ n = R * q + r /\ k <= q
  BY Division
<1> HIDE DEF q, r
<1>2. R * k <= R * q
  BY <1>1, Scales
<1> DEFINE x == R * k
           y == R * q
<1>3. x \in Nat /\ y \in Nat /\ n = y + r /\ r \in Nat /\ x <= y
  BY <1>1, <1>2
<1> HIDE DEF x, y
<1> QED
  BY <1>3 DEF x

(* What a turn of the pump does when it does not fail: got frames of the    *)
(* source go in, x comes out into the ring, and the order is kept.          *)
Given(got, x) ==
    /\ got \in Nat /\ srcPos' = srcPos + got /\ srcPos' <= Length
    /\ x \in Seq(0..(Length - 1)) /\ Len(x) <= Chunk
    /\ Puts(x)
    /\ Wire(InTheChain) \o Frames(srcPos, got) = x \o Wire(InTheChain')
GivesInOrder == \E got, x : Given(got, x)

(* What a typed state says of the numbers a turn of the pump computes with. *)
LEMMA Numbers ==
  ASSUME Typed
  PROVE  /\ srcPos \in Nat /\ srcPos <= Length /\ Length \in Nat /\ Length - srcPos \in Nat
         /\ ring \in Seq(0..(Length - 1)) /\ Len(ring) \in Nat /\ Capacity \in Nat
         /\ Chunk \in Nat /\ Ratio \in Nat \ {0}
<1>1. /\ srcPos \in Nat /\ srcPos <= Length /\ Length \in Nat
      /\ ring \in Seq(0..(Length - 1)) /\ Capacity \in Nat /\ Chunk \in Nat
  BY GraphAssumption DEF Typed, FramesOK, GraphAssumption
<1> QED
  BY <1>1, Rate

(* A block of the source goes in, and frames in order come out.             *)
LEMMA RunsGive ==
  ASSUME Typed, held \in Chain, Full, ChainRuns
  PROVE  held' \in Chain /\ Full' /\ srcPos < Length /\ GivesInOrder
<1>1. PICK got \in 1..Least(Chunk \div Ratio, (Length - srcPos) \div Ratio) :
         /\ srcPos' = srcPos + Ratio * got
         /\ Puts(Wire(Through(1, [i \in 1..got |-> srcPos + Ratio * (i - 1)]).out))
         /\ held' = Through(1, [i \in 1..got |-> srcPos + Ratio * (i - 1)]).held
  BY Zenon DEF ChainRuns
<1> DEFINE read == [i \in 1..got |-> srcPos + Ratio * (i - 1)]
           gone == Through(1, read)
<1>2. got \in Nat \ {0} /\ got <= Chunk \div Ratio /\ got <= (Length - srcPos) \div Ratio
  <2>1. Chunk \div Ratio \in Nat /\ (Length - srcPos) \div Ratio \in Nat
    BY Numbers, Division
  <2> QED
    BY <2>1 DEF Least
<1>3. Ratio * got <= Chunk /\ Ratio * got <= Length - srcPos
  BY <1>2, Numbers, Quotient
<1>4. Ratio * got \in Nat \ {0}
  BY <1>2, Rate
<1> DEFINE n == Ratio * got
<1>5. n \in Nat \ {0} /\ n <= Chunk /\ n <= Length - srcPos /\ srcPos' = srcPos + n
  BY <1>1, <1>3, <1>4
<1> HIDE DEF n
<1>6. srcPos < Length /\ srcPos' <= Length /\ srcPos + n <= Length
  BY <1>5, Numbers, SMTT(30)
<1>7. read \in Seq(Whole) /\ Len(read) = got /\ Wire(read) = Frames(srcPos, n)
  BY <1>2, <1>6, Numbers, WireOfRead DEF n
<1> HIDE DEF read
<1>8. held' = Through(1, read).held
  BY <1>1, Zenon DEF read
<1>9. /\ held' \in Chain /\ gone.out \in Seq(Whole)
      /\ gone.out \o InTheChain' = InTheChain \o read
      /\ Full' /\ Len(gone.out) <= got
  BY <1>7, <1>8, RunsConserve, Zenon
<1> HIDE DEF gone
<1>10. Wire(gone.out) \o Wire(InTheChain') = Wire(InTheChain) \o Wire(read)
  <2>1. InTheChain \in Seq(Whole) /\ InTheChain' \in Seq(Whole)
    BY <1>9, ChainTyped, NextChainTyped
  <2>2. /\ Wire(gone.out \o InTheChain') = Wire(gone.out) \o Wire(InTheChain')
        /\ Wire(InTheChain \o read) = Wire(InTheChain) \o Wire(read)
    BY <1>7, <1>9, <2>1, WireJoin, Zenon
  <2> QED
    BY <1>9, <2>2, Zenon
<1>11. Wire(gone.out) \in Seq(0..(Length - 1)) /\ Len(Wire(gone.out)) <= Chunk
  <2>1. Wire(gone.out) \in Seq(0..(Length - 1)) /\ Len(Wire(gone.out)) = Ratio * Len(gone.out)
    BY <1>9, WireTyped
  <2>2. Len(gone.out) \in Nat
    BY <1>9
  <2>3. Ratio * Len(gone.out) <= Ratio * got
    BY <1>2, <1>9, <2>2, Rate, Scales
  <2> DEFINE a == Ratio * Len(gone.out)
  <2>4. a \in Nat /\ a <= n /\ Len(Wire(gone.out)) = a
    BY <2>1, <2>2, <2>3, Rate DEF n
  <2> HIDE DEF a
  <2>5. Len(Wire(gone.out)) <= Chunk
    BY <1>5, <2>4, Numbers, SMTT(30)
  <2> QED
    BY <2>1, <2>5
<1>12. Puts(Wire(gone.out))
  BY <1>1, Zenon DEF gone, read
<1>13. Given(n, Wire(gone.out))
  BY <1>5, <1>6, <1>7, <1>10, <1>11, <1>12 DEF Given
<1> QED
  BY <1>6, <1>9, <1>13 DEF GivesInOrder

(* A turn that reads nothing from the source.                               *)
LEMMA NothingGiven ==
  ASSUME Typed, NEW x, x \in Seq(0..(Length - 1)), Len(x) <= Chunk, Puts(x),
         srcPos' = srcPos, held \in Chain, Wire(InTheChain) = x \o Wire(InTheChain')
  PROVE  GivesInOrder
<1>1. Frames(srcPos, 0) = <<>> /\ srcPos' = srcPos + 0 /\ srcPos' <= Length /\ 0 \in Nat
  BY Numbers, FramesOfNone
<1>2. Wire(InTheChain) \in Seq(Nat)
  BY ChainTyped, WireTyped
<1>3. Wire(InTheChain) \o <<>> = Wire(InTheChain)
  BY <1>2, JoinsWithNone, Zenon
<1>4. Given(0, x)
  BY <1>1, <1>3, Zenon DEF Given
<1> QED
  BY <1>4 DEF GivesInOrder

(* A block of the stage being drained comes out through those after it.     *)
LEMMA DrainGives ==
  ASSUME Typed, held \in Chain, Full, flushStage \in Stages, DrainStage
  PROVE  /\ held' \in Chain /\ Full' /\ GivesInOrder
         /\ \A j \in Stages : j < flushStage => held'[j] = held[j]
<1> DEFINE k == flushStage
<1>1. PICK some \in 1..Least(Chunk \div Ratio, Len(held[k])) :
         LET gone == Through(k + 1, SubSeq(held[k], 1, some))
         IN /\ Puts(Wire(gone.out))
            /\ held' = [gone.held EXCEPT ![k] = Drop(@, some)]
  BY Zenon DEF DrainStage
<1> DEFINE gone == Through(k + 1, SubSeq(held[k], 1, some))
<1>2. /\ Puts(Wire(gone.out))
      /\ held' = [gone.held EXCEPT ![k] = Drop(@, some)]
  BY <1>1, Zenon
<1>3. some \in 0..Len(held[k]) /\ some \in Nat /\ some <= Chunk \div Ratio
  <2>1. held[k] \in Seq(Whole)
    BY DEF Chain
  <2>2. Chunk \div Ratio \in Nat /\ Len(held[k]) \in Nat
    <3>1. Chunk \div Ratio \in Nat
      BY Numbers, Division
    <3> QED
      BY <2>1, <3>1
  <2> QED
    BY <2>2 DEF Least
<1>4. k \in Stages
  OBVIOUS
<1>5. gone = Through(k + 1, SubSeq(held[k], 1, some))
  OBVIOUS
<1> HIDE DEF k, gone
<1>6. /\ held' \in Chain /\ gone.out \in Seq(Whole)
      /\ gone.out \o InTheChain' = InTheChain
      /\ Full' /\ Len(gone.out) <= some
      /\ \A j \in Stages : j < k => held'[j] = held[j]
  BY <1>2, <1>3, <1>4, <1>5, DrainConserves
<1>7. Wire(gone.out) \o Wire(InTheChain') = Wire(InTheChain)
  <2>1. InTheChain' \in Seq(Whole)
    BY <1>6, NextChainTyped
  <2> QED
    BY <1>6, <2>1, WireJoin, Zenon
<1>8. Wire(gone.out) \in Seq(0..(Length - 1)) /\ Len(Wire(gone.out)) <= Chunk
  <2>1. Wire(gone.out) \in Seq(0..(Length - 1)) /\ Len(Wire(gone.out)) = Ratio * Len(gone.out)
    BY <1>6, WireTyped
  <2>2. Len(gone.out) \in Nat /\ Chunk \div Ratio \in Nat
    <3>1. Chunk \div Ratio \in Nat
      BY Numbers, Division
    <3> QED
      BY <1>6, <3>1
  <2>3. Len(gone.out) <= Chunk \div Ratio
    BY <1>3, <1>6, <2>2
  <2>4. Ratio * Len(gone.out) <= Chunk
    BY <2>2, <2>3, Numbers, Quotient
  <2> QED
    BY <2>1, <2>4
<1>9. srcPos' = srcPos
  BY DEF DrainStage
<1>10. GivesInOrder
  BY <1>2, <1>7, <1>8, <1>9, NothingGiven
<1> QED
  BY <1>6, <1>10 DEF k

(* A turn that moves nothing.                                               *)
LEMMA KeptGives ==
  ASSUME Typed, held \in Chain, UNCHANGED <<ring, apart, srcPos, held>>
  PROVE  GivesInOrder
<1>1. InTheChain' = InTheChain
  BY InTheChainIs, Zenon
<1>2. Wire(InTheChain) \in Seq(Nat) /\ ring \in Seq(0..(Length - 1)) /\ Chunk \in Nat
  BY ChainTyped, WireTyped, Numbers
<1>3. <<>> \o Wire(InTheChain) = Wire(InTheChain)
  BY <1>2, JoinOfNone, Zenon
<1>4. Puts(<<>>)
  <2>1. ring \o <<>> = ring
    BY <1>2, JoinsWithNone, Zenon
  <2> QED
    BY <2>1 DEF Puts
<1>5. <<>> \in Seq(0..(Length - 1)) /\ Len(<<>>) <= Chunk
  BY <1>2
<1> QED
  BY <1>1, <1>3, <1>4, <1>5, NothingGiven, Zenon

(* One turn of the pump, whatever it finds to do.                           *)
LEMMA PumpOnceGives ==
  ASSUME Typed, ChainInv, PumpOnce
  PROVE  ChainInv' /\ (ChainFails \/ GivesInOrder)
<1> USE DEF ChainInv
<1>0. Len(Holds) \in Nat /\ Stages = 1..Len(Holds)
  BY Stage DEF Stages
<1>1. CASE ChainRuns
  <2>1. held' \in Chain /\ Full' /\ GivesInOrder
    BY <1>1, RunsGive
  <2> QED
    BY <1>1, <2>1 DEF ChainRuns
<1>2. CASE ChainFails
  BY <1>2 DEF ChainFails, chain, Full
<1>3. CASE FlushIsOver
  <2>1. UNCHANGED <<ring, apart, srcPos, held>> /\ flushed' = TRUE
    BY <1>3 DEF FlushIsOver
  <2>2. flushStage' \in 1..(Len(Holds) + 1)
    BY <1>0, <1>3 DEF FlushIsOver
  <2> QED
    BY <2>1, <2>2, KeptGives DEF Full
<1>4. CASE NextStage
  <2>1. UNCHANGED <<ring, apart, srcPos, held, flushed>>
    BY <1>4 DEF NextStage, store
  <2>2. flushStage' \in Stages /\ flushStage' \in 1..(Len(Holds) + 1)
    BY <1>0, <1>4 DEF NextStage
  <2> QED
    BY <2>1, <2>2, KeptGives DEF Full
<1>5. CASE DrainStage
  <2>1. flushStage \in Stages /\ UNCHANGED <<flushStage, flushed>>
    BY <1>5 DEF DrainStage
  <2>2. held' \in Chain /\ Full' /\ GivesInOrder
    BY <1>5, <2>1, DrainGives
  <2> QED
    BY <2>1, <2>2
<1> QED
  BY <1>1, <1>2, <1>3, <1>4, <1>5 DEF PumpOnce

(* What comes out of the chain fits, as there was room for a chunk.         *)
LEMMA PumpOnceTyped ==
  ASSUME Typed, ChainInv, PumpOnce, Room >= Chunk
  PROVE  /\ RingTyped
         /\ srcPos' \in 0..Length
         /\ drained' \in BOOLEAN /\ running' \in BOOLEAN /\ failed' \in BOOLEAN
         /\ woken' \in BOOLEAN /\ lost' \in BOOLEAN
         /\ running' => running
<1>1. CASE PumpFails
  <2>1. Pump
    BY <1>1 DEF Pump
  <2>2. running' => running
    BY <1>1 DEF PumpFails, Fail
  <2> QED
    BY <2>1, <2>2, PumpTyped DEF Typed, TypeOK
<1>2. CASE GivesInOrder
  <2>1. PICK got, x : Given(got, x)
    BY <1>2, Zenon DEF GivesInOrder
  <2>2. /\ got \in Nat /\ srcPos' = srcPos + got /\ srcPos' <= Length
        /\ x \in Seq(0..(Length - 1)) /\ Len(x) <= Chunk /\ Puts(x)
    BY <2>1 DEF Given
  <2>3. srcPos' \in 0..Length
    BY <2>2, Numbers, SMTT(30)
  <2>4. Len(x) <= Room
    <3>1. Len(x) \in Nat /\ Room \in Int
      BY <2>2, Numbers DEF Room
    <3> QED
      BY <2>2, <3>1, Numbers, SMTT(30)
  <2>5. RingTyped
    BY <2>2, <2>4, PutsTyped DEF Typed, TypeOK
  <2>6. /\ drained' \in BOOLEAN /\ running' \in BOOLEAN /\ failed' \in BOOLEAN
        /\ woken' \in BOOLEAN /\ lost' \in BOOLEAN /\ (running' => running)
    <3>1. CASE ChainRuns
      BY <3>1 DEF ChainRuns, Typed, FlagsOK
    <3>2. CASE ChainFails
      BY <3>2 DEF ChainFails, PumpFails, Fail
    <3>3. CASE FlushIsOver
      BY <3>3 DEF FlushIsOver, Typed, FlagsOK
    <3>4. CASE NextStage
      BY <3>4 DEF NextStage, store, Typed, FlagsOK
    <3>5. CASE DrainStage
      BY <3>5 DEF DrainStage, Typed, FlagsOK
    <3> QED
      BY <3>1, <3>2, <3>3, <3>4, <3>5 DEF PumpOnce
  <2> QED
    BY <2>3, <2>5, <2>6
<1> QED
  BY <1>1, <1>2, PumpOnceGives DEF ChainFails

(* A turn of the pump, on whichever thread, when there is room for a chunk. *)
Pumping ==
    /\ PumpOnce /\ Room >= Chunk
    /\ \/ pc["control"] = "floor" /\ \E next \in {"floor", "launch"} : Goto("control", next)
       \/ \E t \in {"control", "decode"} :
            pc[t] = "fill" /\ \E next \in {"fill", "clear"} : Goto(t, next)
       \/ pc["decode"] = "work" /\ Goto("decode", "top")
    /\ UNCHANGED <<live, paused, devRunning, shake, seekDone, renderTurned,
                   renderWake, place, call, turn, due, landed, late, torn>>

(* A step that reads nothing, or one of the other graph that keeps the      *)
(* chain; of the other graph are all but these.                             *)
QuietStep == [Next]_vars /\ UNCHANGED chain /\ PlainFrames

ProcStep ==
    \/ QuietStep \/ StartOver \/ Pumping
    \/ \E t \in {"control", "decode"} : MoveAndForget(t)

(* fill_to_floor() pumps once, or has filled what it was to.                *)
LEMMA FillsOrPumps ==
  ASSUME Typed, ThreadInv, NEW t \in {"control", "decode"}, NEW here, NEW after,
         \/ t = "control" /\ here = "floor" /\ after = "launch"
         \/ here = "fill" /\ after = "clear",
         FillToFloor(t, here, after)
  PROVE  QuietStep \/ Pumping
<1>1. CASE Short /\ Room >= Chunk /\ PumpOnce
           /\ Goto(t, IF drained' THEN after ELSE here)
  BY <1>1, Zenon DEF FillToFloor, Pumping
<1>2. CASE /\ ~Short \/ Room < Chunk
           /\ Goto(t, after)
           /\ UNCHANGED <<store, chain, running, failed, woken, lost>>
  <2>1. Fill(t, here, after)
    BY <1>2 DEF FillToFloor, Fill
  <2>2. Next
    BY <2>1 DEF Next, ControlStep, Decode, PerformSeek
  <2>3. Still
    BY <2>1 DEF Fill, Still, Moving, Reading, Typed, PlacesOK, Threads, Goto
  <2>4. Same
    BY <1>2, <2>1, <2>3 DEF Same, Fill, store, turn, place
  <2> QED
    BY <1>2, <2>2, <2>4 DEF QuietStep, PlainFrames
<1> QED
  BY <1>1, <1>2 DEF FillToFloor

(* Every step is one of the other graph, which leaves the chain alone or has*)
(* it forget, a start, or a turn of the pump.                               *)
LEMMA ProcSteps ==
  ASSUME Typed, ThreadInv, [ProcNext]_pvars
  PROVE  ProcStep
<1>1. ASSUME Plain, [Next]_vars, UNCHANGED chain PROVE ProcStep
  BY <1>1, PlainSteps DEF ProcStep, QuietStep
<1>2. ASSUME NEW t \in {"control", "decode"}, perform_seek(t) PROVE ProcStep
  <2>1. CASE /\ \/ Claim(t) \/ CountTurns(t) \/ Handshake(t) \/ AwaitTurn(t)
                \/ ResetRing(t) \/ ClearRequest(t) \/ Release(t)
             /\ UNCHANGED chain
    <3>1. PerformSeek(t)
      BY <2>1 DEF PerformSeek
    <3>2. Plain /\ Next
      BY <2>1, <3>1 DEF Plain, Next, ControlStep, Decode
    <3> QED
      BY <1>1, <2>1, <3>2
  <2>2. CASE MoveAndForget(t)
    BY <2>2 DEF ProcStep
  <2>3. CASE FillToFloor(t, "fill", "clear")
    BY <2>3, FillsOrPumps, Zenon DEF ProcStep
  <2> QED
    BY <1>2, <2>1, <2>2, <2>3 DEF perform_seek
<1>3. CASE ProcCalls
  <2>1. CASE StartOver
    BY <2>1 DEF ProcStep
  <2>2. CASE pause \/ resume \/ stop \/ seek
    <3>1. Plain /\ Calls /\ UNCHANGED chain
      BY <2>2 DEF pause, resume, stop, seek, Plain, Calls
    <3> QED
      BY <1>1, <3>1 DEF Next
  <2> QED
    BY <1>3, <2>1, <2>2 DEF ProcCalls
<1>4. CASE ProcControl
  <2>1. CASE FillToFloor("control", "floor", "launch")
    BY <2>1, FillsOrPumps, Zenon DEF ProcStep
  <2>2. CASE perform_seek("control")
    BY <1>2, <2>2
  <2>3. CASE /\ Launch \/ Join \/ SeekReturns \/ SeekSleeps \/ SeekLooksAgain \/ SeekTimesOut
             /\ UNCHANGED chain
    BY <1>1, <2>3 DEF Plain, Next, ControlStep
  <2> QED
    BY <1>4, <2>1, <2>2, <2>3 DEF ProcControl, StartGoesOn, StopGoesOn, SeekGoesOn
<1>5. CASE decode_loop
  <2>1. CASE DecodePumps
    BY <2>1 DEF DecodePumps, Pumping, ProcStep
  <2>2. CASE perform_seek("decode")
    BY <1>2, <2>2
  <2>3. CASE /\ \/ DecodeTop \/ DecodeExit \/ DecodeSeek \/ DecodeGoesOn
                \/ DecodeSleep \/ DecodeWakes
             /\ UNCHANGED chain
    BY <1>1, <2>3 DEF Plain, Next, Decode
  <2> QED
    BY <1>5, <2>1, <2>2, <2>3 DEF decode_loop
<1>6. CASE render_loop
  BY <1>1, <1>6 DEF render_loop, Plain, Next
<1>7. CASE UNCHANGED pvars
  BY <1>1, <1>7 DEF pvars, Plain
<1> QED
  BY <1>3, <1>4, <1>5, <1>6, <1>7 DEF ProcNext

(* A chain that forgets everything.                                         *)
Forgets == held' = [i \in Stages |-> <<>>] /\ flushStage' = 1 /\ flushed' = FALSE

LEMMA ChainForgets ==
  ASSUME Forgets
  PROVE  ChainInv'
<1>1. Len(Holds) \in Nat /\ Stages = 1..Len(Holds) /\ \A i \in Stages : Holds[i] \in Nat
  BY Stage DEF Stages
<1>2. held' \in Chain /\ Full'
  <2>1. <<>> \in Seq(Whole) /\ Len(<<>>) = 0
    OBVIOUS
  <2> QED
    BY <1>1, <2>1 DEF Forgets, Chain, Full
<1>3. 1 \in 1..(Len(Holds) + 1) /\ (Holds # <<>> => 1 \in Stages)
  <2>1. Holds \in Seq(Nat)
    BY ChainAssumption DEF ChainAssumption
  <2> QED
    BY <1>1, <2>1
<1> QED
  BY <1>2, <1>3 DEF ChainInv, Forgets

(* No step breaks the chain.                                                *)
LEMMA ChainIsKept ==
  ASSUME Typed, ThreadInv, ChainInv, ProcStep
  PROVE  ChainInv'
<1>1. CASE QuietStep
  BY <1>1 DEF QuietStep, chain, ChainInv, Full
<1>2. CASE Pumping
  BY <1>2, PumpOnceGives DEF Pumping
<1>3. CASE StartOver
  BY <1>3, ChainForgets DEF StartOver, ChainResets, Forgets
<1>4. ASSUME NEW t \in {"control", "decode"}, MoveAndForget(t) PROVE ChainInv'
  BY <1>4, ChainForgets DEF MoveAndForget, ChainResets, Forgets
<1> QED
  BY <1>1, <1>2, <1>3, <1>4 DEF ProcStep

(* A second start, which touches neither threads nor waits.                 *)
StartOverLeaves ==
    /\ ~running /\ ~live /\ pc["control"] = "idle"
    /\ pc' = [pc EXCEPT !["control"] = "floor"]
    /\ calls' = calls + 1 /\ calls < MaxCalls
    /\ ring' = <<>> /\ apart' = FALSE /\ drained' = FALSE /\ failed' = FALSE
    /\ lost' \in BOOLEAN
    /\ (lost => lost')
    /\ UNCHANGED <<running, live, paused, devRunning, seeking, parked, turned, request,
                   woken, seekDone, renderTurned, renderWake, srcPos,
                   playedBase, since, asked, reply, target, sawSeeking, want, hand,
                   due, landed, late, torn>>

LEMMA StartsOver ==
  ASSUME Typed, StartOver
  PROVE  StartOverLeaves
<1>1. lost' \in BOOLEAN /\ (lost => lost')
  BY Zenon DEF StartOver
<1> QED
  BY <1>1 DEF StartOver, StartOverLeaves, Call, Goto, shake, wakes, place, turn

LEMMA MovesOf ==
  ASSUME NEW t \in {"control", "decode"}, MoveAndForget(t)
  PROVE  [Next]_vars
  BY DEF MoveAndForget, Next, ControlStep, Decode, PerformSeek

PumpLeaves ==
    /\ (running' => running)
    /\ UNCHANGED <<live, paused, devRunning, seeking, parked, turned, request,
                   seekDone, renderTurned, renderWake, playedBase, since,
                   calls, asked, reply, target, sawSeeking, want, hand,
                   due, landed, late, torn>>
    /\ \/ /\ pc["control"] = "floor"
          /\ \E next \in {"floor", "launch"} : pc' = [pc EXCEPT !["control"] = next]
       \/ \E t \in {"control", "decode"} :
            /\ pc[t] = "fill"
            /\ \E next \in {"fill", "clear"} : pc' = [pc EXCEPT ![t] = next]
       \/ pc["decode"] = "work" /\ pc' = [pc EXCEPT !["decode"] = "top"]

LEMMA PumpingLeaves ==
  ASSUME Typed, ChainInv, Pumping
  PROVE  PumpLeaves
<1>1. running' => running
  BY PumpOnceTyped DEF Pumping
<1>2. \/ /\ pc["control"] = "floor"
         /\ \E next \in {"floor", "launch"} : pc' = [pc EXCEPT !["control"] = next]
      \/ \E t \in {"control", "decode"} :
           /\ pc[t] = "fill"
           /\ \E next \in {"fill", "clear"} : pc' = [pc EXCEPT ![t] = next]
      \/ pc["decode"] = "work" /\ pc' = [pc EXCEPT !["decode"] = "top"]
  BY Zenon DEF Pumping, Goto
<1> QED
  BY <1>1, <1>2 DEF Pumping, PumpLeaves, shake, place, call, turn

LEMMA ProcTypedIsKept ==
  ASSUME Typed, ThreadInv, ChainInv, ProcStep
  PROVE  Typed'
<1>1. CASE QuietStep
  BY <1>1, TypedIsKept DEF QuietStep
<1>2. CASE Pumping
  <2>1. /\ RingTyped
        /\ srcPos' \in 0..Length
        /\ drained' \in BOOLEAN /\ running' \in BOOLEAN /\ failed' \in BOOLEAN
        /\ woken' \in BOOLEAN /\ lost' \in BOOLEAN
    BY <1>2, PumpOnceTyped DEF Pumping
  <2>2. PumpLeaves
    BY <1>2, PumpingLeaves
  <2>3. FlagsOK'
    BY <2>1, <2>2 DEF PumpLeaves, RingTyped, Typed, FlagsOK
  <2>4. FramesOK'
    BY <2>1, <2>2 DEF PumpLeaves, RingTyped, Typed, FramesOK
  <2>5. PlacesOK' /\ TargetInv'
    BY <2>2 DEF PumpLeaves, Typed, PlacesOK, TargetInv, Threads, Labels, SeekLabels
  <2> QED
    BY <2>3, <2>4, <2>5 DEF Typed
<1>3. CASE StartOver
  <2>1. StartOverLeaves
    BY <1>3, StartsOver
  <2>2. FlagsOK'
    BY <2>1, ZenonT(40) DEF StartOverLeaves, Typed, FlagsOK
  <2>3. FramesOK'
    BY <2>1, GraphAssumption DEF StartOverLeaves, Typed, FramesOK, GraphAssumption
  <2>4. PlacesOK' /\ TargetInv'
    BY <2>1 DEF StartOverLeaves, Typed, PlacesOK, TargetInv, Threads, Labels, SeekLabels
  <2> QED
    BY <2>2, <2>3, <2>4 DEF Typed
<1>4. ASSUME NEW t \in {"control", "decode"}, MoveAndForget(t) PROVE Typed'
  BY <1>4, MovesOf, TypedIsKept
<1> QED
  BY <1>1, <1>2, <1>3, <1>4 DEF ProcStep

(* The threads, turns, waits and wakes of the other graph. *)
LEMMA ProcThreadsAreKept ==
  ASSUME Typed, ThreadInv, TurnInv, WaitInv, WakeInv, SeenInv, ChainInv, ProcStep
  PROVE  ThreadInv' /\ TurnInv' /\ WaitInv' /\ WakeInv' /\ SeenInv'
<1>1. CASE [Next]_vars
  BY <1>1, ThreadsAreKept, TurnsAreKept, WaitsAreKept, WakesAreKept, SeenIsKept
<1>2. CASE Pumping
  <2> USE DEF PumpLeaves, Typed, PlacesOK, Threads
  <2>1. PumpLeaves
    BY <1>2, PumpingLeaves
  <2>2. ThreadInv'
    BY <2>1 DEF ThreadInv, SeekLabels
  <2>3. TurnInv'
    BY <2>1 DEF TurnInv, Claimed, Counting, SeekLabels
  <2>4. WaitInv'
    BY <2>1 DEF WaitInv, ThreadInv, Answering, Owning, Gone, SeekLabels
  <2>5. WakeInv'
    BY <2>1 DEF WakeInv, WorkWakesTheDecoder, ThreadInv, SeekLabels
  <2>6. SeenInv'
    BY <2>1 DEF SeenInv, Claimed, Counting, InTurn, SeekLabels
  <2> QED
    BY <2>2, <2>3, <2>4, <2>5, <2>6
<1>3. CASE StartOver
  <2> USE DEF StartOverLeaves, Typed, PlacesOK, Threads, ThreadInv, SeekLabels
  <2>1. StartOverLeaves
    BY <1>3, StartsOver
  <2>2. ThreadInv'
    BY <2>1
  <2>3. TurnInv'
    BY <2>1 DEF TurnInv, Claimed, Counting
  <2>4. WaitInv'
    BY <2>1 DEF WaitInv, Answering, Owning, Gone
  <2>5. WakeInv'
    BY <2>1 DEF WakeInv, WorkWakesTheDecoder
  <2>6. SeenInv'
    BY <2>1 DEF SeenInv, Claimed, Counting, InTurn
  <2> QED
    BY <2>2, <2>3, <2>4, <2>5, <2>6
<1>4. QuietStep \/ (\E t \in {"control", "decode"} : MoveAndForget(t)) => [Next]_vars
  BY MovesOf, Zenon DEF QuietStep
<1> QED
  BY <1>1, <1>2, <1>3, <1>4 DEF ProcStep

(* A turn of the pump finds the end of the source where it is.              *)
(* Nor are the indices of its ring parted by what the chain gives.          *)
LEMMA ProcRingIsKept ==
  ASSUME Typed, ThreadInv, TurnInv, WaitInv, RingInv, ChainInv, ProcStep
  PROVE  RingInv'
<1>1. CASE [Next]_vars
  BY <1>1, RingIsKept
<1>2. CASE Pumping
  <2>1. UNCHANGED <<hand, late, torn>> /\ Still
    BY <1>2, PumpingLeaves
       DEF PumpLeaves, Typed, PlacesOK, Threads, ThreadInv, SeekLabels, Moving, Reading, Still
  <2>2. CASE ChainFails
    <3>1. ring \in Seq(0..(Length - 1)) /\ UNCHANGED <<ring, apart>>
      BY <2>2 DEF ChainFails, PumpFails, Typed, FramesOK
    <3> QED
      BY <2>1, <3>1, PutsLeaveReader
  <2>3. CASE GivesInOrder
    <3>1. PICK got, x : Given(got, x)
      BY <2>3, Zenon DEF GivesInOrder
    <3>2. x \in Seq(0..(Length - 1)) /\ Puts(x)
      BY <3>1 DEF Given
    <3> QED
      BY <2>1, <3>2, PutsLeaveReader
  <2> QED
    BY <1>2, <2>2, <2>3, PumpOnceGives DEF Pumping
<1>3. CASE StartOver
  <2>1. ~Reading' /\ apart' = FALSE /\ UNCHANGED <<late, torn>>
    BY <1>3, StartsOver DEF StartOverLeaves, Reading, ThreadInv, Typed, PlacesOK, Threads
  <2> QED
    BY <2>1 DEF RingInv
<1>4. QuietStep \/ (\E t \in {"control", "decode"} : MoveAndForget(t)) => [Next]_vars
  BY MovesOf, Zenon DEF QuietStep
<1> QED
  BY <1>1, <1>2, <1>3, <1>4 DEF ProcStep

LEMMA ProcRunsAreKept ==
  ASSUME Typed, ThreadInv, TurnInv, WaitInv, RingInv, RunInv, HandInv, ChainInv, ProcStep
  PROVE  RunInv' /\ HandInv'
<1>1. CASE [Next]_vars
  BY <1>1, RunsAreKept, HandsAreKept
<1>2. CASE Pumping
  <2> USE DEF PumpLeaves, Typed, PlacesOK, Threads
  <2>1. PumpLeaves
    BY <1>2, PumpingLeaves
  <2>2. HandInv'
    BY <2>1 DEF HandInv
  <2>3. CASE ChainRuns
    <3>1. srcPos < Length
      BY <2>3, RunsGive DEF ChainInv
    <3> QED
      <4>1. UNCHANGED <<drained, running, lost>>
        BY <2>3 DEF ChainRuns
      <4>2. ~(drained /\ (~lost \/ Faultless))
        BY <3>1, Numbers DEF RunInv, Ending
      <4>3. Ending'
        BY <4>1, <4>2 DEF Ending, Faultless
      <4> QED
        BY <2>1, <2>2, <4>1, <4>3 DEF RunInv, ThreadInv, SeekLabels
  <2>4. CASE ChainFails
    BY <2>1, <2>2, <2>4
       DEF RunInv, Ending, Faultless, ChainFails, PumpFails, Fail, ThreadInv, SeekLabels
  <2>5. CASE FlushIsOver
    BY <2>1, <2>2, <2>5 DEF RunInv, Ending, FlushIsOver, ThreadInv, SeekLabels
  <2>6. CASE NextStage
    BY <2>1, <2>2, <2>6 DEF RunInv, Ending, NextStage, store, ThreadInv, SeekLabels
  <2>7. CASE DrainStage
    BY <2>1, <2>2, <2>7 DEF RunInv, Ending, DrainStage, ThreadInv, SeekLabels
  <2> QED
    BY <1>2, <2>3, <2>4, <2>5, <2>6, <2>7 DEF Pumping, PumpOnce
<1>3. CASE StartOver
  <2>1. StartOverLeaves
    BY <1>3, StartsOver
  <2> QED
    BY <2>1 DEF StartOverLeaves, Typed, PlacesOK, Threads, RunInv, Ending, HandInv
<1>4. QuietStep \/ (\E t \in {"control", "decode"} : MoveAndForget(t)) => [Next]_vars
  BY MovesOf, Zenon DEF QuietStep
<1> QED
  BY <1>1, <1>2, <1>3, <1>4 DEF ProcStep

(* The stages are drained from the first on, once the source is out, and    *)
(* then hold nothing.                                                       *)
Empty == \A i \in Stages : held[i] = <<>>

FlushInv ==
    /\ flushStage > 1 \/ flushed => srcPos = Length
    /\ \A i \in Stages : i < flushStage => held[i] = <<>>
    /\ flushed /\ ~lost => Empty
    /\ drained /\ ~lost => flushed

(* Before the source is out nothing is drained, and a turn of the pump loses *)
(* frames only when it says so.                                             *)
LEMMA PumpOnlyLoses ==
  ASSUME PumpOnce
  PROVE  lost => lost'
<1>1. CASE ChainFails
  BY <1>1 DEF ChainFails, PumpFails
<1>2. CASE FlushIsOver
  BY <1>2 DEF FlushIsOver
<1>3. CASE ChainRuns \/ NextStage \/ DrainStage
  BY <1>3 DEF ChainRuns, NextStage, DrainStage
<1> QED
  BY <1>1, <1>2, <1>3 DEF PumpOnce

LEMMA FlushIsKept ==
  ASSUME Typed, ThreadInv, ChainInv, FlushInv, ProcStep
  PROVE  FlushInv'
<1>0. /\ flushStage \in Nat /\ flushStage >= 1 /\ flushStage <= Len(Holds) + 1
      /\ Len(Holds) \in Nat /\ Stages = 1..Len(Holds)
  BY Stage DEF ChainInv, Stages
<1>1. CASE QuietStep
  <2>1. UNCHANGED <<srcPos, drained, held, flushStage, flushed>> /\ (lost => lost')
    BY <1>1, PlainOnlyLoses DEF QuietStep, chain
  <2> QED
    BY <2>1 DEF FlushInv, Empty
<1>2. CASE Forgets /\ drained' = FALSE
  BY <1>0, <1>2 DEF Forgets, FlushInv
<1>3. CASE ChainRuns
  <2>1. srcPos < Length
    BY <1>3, RunsGive DEF ChainInv
  <2>2. flushStage = 1 /\ ~flushed
    BY <1>0, <2>1, Numbers DEF FlushInv
  <2>3. UNCHANGED <<drained, flushStage, flushed, lost>>
    BY <1>3 DEF ChainRuns
  <2> QED
    BY <1>0, <2>2, <2>3 DEF FlushInv
<1>4. CASE ChainFails
  <2>1. srcPos < Length /\ lost' /\ UNCHANGED <<held, flushStage, flushed>>
    BY <1>4 DEF ChainFails, PumpFails, chain
  <2>2. flushStage = 1 /\ ~flushed
    BY <1>0, <2>1, Numbers DEF FlushInv
  <2> QED
    BY <1>0, <2>1, <2>2 DEF FlushInv
<1>5. CASE FlushIsOver
  <2>1. srcPos' = Length /\ flushed' /\ held' = held
    BY <1>5 DEF FlushIsOver
  <2>2. CASE lost'
    <3>1. \A i \in Stages : i < flushStage' => held[i] = <<>>
      BY <1>0, <1>5 DEF FlushIsOver, FlushInv
    <3> QED
      BY <2>1, <2>2, <3>1 DEF FlushInv
  <2>3. CASE ~lost' /\ flushed
    BY <1>5, <2>1, <2>3 DEF FlushIsOver, FlushInv, Empty
  <2>4. CASE ~lost' /\ ~flushed
    <3>1. Empty /\ \A i \in Stages : i < flushStage' => held[i] = <<>>
      <4>1. CASE Holds = <<>>
        BY <1>0, <4>1 DEF Empty
      <4>2. CASE flushStage = Len(Holds) /\ held[flushStage] = <<>>
        BY <1>0, <4>2 DEF FlushInv, Empty
      <4> QED
        BY <1>5, <2>4, <4>1, <4>2 DEF FlushIsOver
    <3> QED
      BY <2>1, <3>1 DEF FlushInv, Empty
  <2> QED
    BY <2>2, <2>3, <2>4
<1>6. CASE NextStage
  <2>1. /\ srcPos = Length /\ held[flushStage] = <<>> /\ flushStage' = flushStage + 1
        /\ UNCHANGED <<held, flushed, srcPos, drained, lost>>
    BY <1>6 DEF NextStage, store
  <2>2. \A i \in Stages : i < flushStage' => held[i] = <<>>
    BY <1>0, <2>1 DEF FlushInv
  <2> QED
    BY <2>1, <2>2 DEF FlushInv, Empty
<1>7. CASE DrainStage
  <2>1. /\ srcPos = Length /\ ~flushed /\ Holds # <<>>
        /\ UNCHANGED <<flushStage, flushed, srcPos, drained, lost>>
    BY <1>7 DEF DrainStage
  <2>2. \A j \in Stages : j < flushStage => held'[j] = held[j]
    BY <1>7, <2>1, DrainGives DEF ChainInv
  <2> QED
    BY <2>1, <2>2 DEF FlushInv, Empty
<1>8. CASE StartOver
  BY <1>2, <1>8 DEF StartOver, ChainResets, Forgets
<1>9. ASSUME NEW t \in {"control", "decode"}, MoveAndForget(t) PROVE FlushInv'
  BY <1>2, <1>9 DEF MoveAndForget, MoveSource, ChainResets, Forgets
<1> QED
  BY <1>1, <1>3, <1>4, <1>5, <1>6, <1>7, <1>8, <1>9 DEF ProcStep, Pumping, PumpOnce

-----------------------------------------------------------------------------
(* What the ring, the render thread and the chain hold between them.        *)

Hollow(h) == \A i \in Stages : h[i] = <<>>

(* Of stages that hold nothing nothing is in the chain.                     *)
LEMMA HollowFold ==
  ASSUME NEW h \in Chain, Hollow(h)
  PROVE  FoldOf(h)[Len(Holds)] = <<>>
<1> DEFINE f == FoldOf(h)
           N == Len(Holds)
           S == {i \in 0..N : f[i] = <<>>}
<1>1. Fold(f, h)
  BY FoldIs
<1> HIDE DEF f
<1>2. N \in Nat /\ 0 \in 0..N /\ N \in 0..N /\ Stages = 1..N
  BY Stage DEF Stages
<1>3. 0 \in S
  BY <1>1, <1>2 DEF Fold
<1>4. ASSUME NEW i \in Nat, 0 <= i, i < N, i \in S PROVE i + 1 \in S
  <2>1. i + 1 \in Stages /\ (i + 1) - 1 = i /\ i + 1 \in 0..N
    BY <1>2, <1>4
  <2>2. f[i + 1] = h[i + 1] \o f[i]
    BY <1>1, <2>1 DEF Fold
  <2>3. h[i + 1] = <<>> /\ f[i] = <<>>
    BY <1>4, <2>1 DEF Hollow
  <2>4. f[i + 1] = <<>>
    BY <2>2, <2>3
  <2> QED
    BY <2>1, <2>4
<1> HIDE DEF N
<1>5. \A i \in 0..N : i \in S
  <2> HIDE DEF S
  <2> QED
    BY <1>2, <1>3, <1>4, OneByOne
<1> QED
  BY <1>2, <1>5 DEF N, f

LEMMA EmptyChain ==
  /\ held \in Chain /\ Empty => InTheChain = <<>>
  /\ held' \in Chain /\ Hollow(held') => InTheChain' = <<>>
<1>1. ASSUME held \in Chain, Empty PROVE InTheChain = <<>>
  BY <1>1, HollowFold, InTheChainIs DEF Hollow, Empty
<1>2. ASSUME held' \in Chain, Hollow(held') PROVE InTheChain' = <<>>
  BY <1>2, HollowFold, InTheChainIs
<1> QED
  BY <1>1, <1>2

LEMMA ForgottenChain ==
  ASSUME Forgets
  PROVE  InTheChain' = <<>>
<1>1. held' \in Chain /\ Hollow(held')
  BY ChainForgets DEF ChainInv, Forgets, Hollow
<1> QED
  BY <1>1, EmptyChain

(* What the chain holds are the frames from e up to where the source stands.*)
ChainFrom(e) == ~Moving => e <= srcPos /\ Wire(InTheChain) = Frames(e, srcPos - e)
InLine(e) == OrderedTo(e) /\ ChainFrom(e)
ChainOrderInv == ~lost /\ ~late => \E e \in Nat : InLine(e)

(* An empty chain ends where the source stands. *)
LEMMA NothingHeld ==
  ASSUME Typed, NEW e \in Nat, ChainFrom(e), ~Moving, InTheChain = <<>>
  PROVE  e = srcPos
<1>1. e <= srcPos /\ Wire(<<>>) = Frames(e, srcPos - e)
  BY DEF ChainFrom
<1>2. srcPos - e \in Nat /\ Frames(e, srcPos - e) = <<>>
  BY <1>1, WireOfNone, Numbers
<1>3. srcPos - e = 0
  BY <1>2, FramesCount
<1> QED
  BY <1>3, Numbers

(* What the threads do between themselves leaves everything in its place.   *)
LEMMA QuietKeepsLine ==
  ASSUME Typed, ThreadInv, TurnInv, WaitInv, NEW e \in Nat, InLine(e), QuietStep,
         ~lost', ~late'
  PROVE  InLine(e)'
<1>1. UNCHANGED <<srcPos, held>> /\ (late => late') /\ (Moving => Moving') /\ PlainFrames
  BY PlainOnlyLoses DEF QuietStep, chain
<1>2. InTheChain' = InTheChain
  BY <1>1, InTheChainIs, Zenon
<1>3. ChainFrom(e)'
  BY <1>1, <1>2 DEF InLine, ChainFrom
<1>4. ~late
  BY <1>1
<1>5. ASSUME NEW t \in {"control", "decode"}, ResetRing(t) PROVE hand = <<>> /\ ~Reading
  BY <1>4, <1>5, ResetFindsNoReader DEF ResetRing
<1>6. BeginRead => pc["decode"] # "reset"
  BY <1>4, NoReadAtReset
<1>7. OrderedTo(e)'
  BY <1>1, <1>5, <1>6, OrderOfPlain DEF InLine, Sound
<1> QED
  BY <1>3, <1>7 DEF InLine

(* Nothing in flight and nothing in the chain. *)
LEMMA LineOfNothing ==
  ASSUME NEW e \in Nat, srcPos' = e, due' = e, ring' = <<>>, hand' = <<>>,
         ~Reading', ~torn', ~apart', InTheChain' = <<>>
  PROVE  InLine(e)'
<1>1. InHand' = <<>> /\ e - e = 0 /\ Frames(e, 0) = <<>> /\ Wire(<<>>) = <<>>
  BY FramesOfNone, WireOfNone DEF InHand, Reading
<1>2. OrderedTo(e)'
  BY <1>1 DEF OrderedTo
<1>3. ChainFrom(e)'
  BY <1>1 DEF ChainFrom
<1> QED
  BY <1>2, <1>3 DEF InLine

(* A start that loses nothing had nothing to drop.                          *)
LEMMA StartKeepsLine ==
  ASSUME Typed, ThreadInv, ChainInv, NEW e \in Nat, InLine(e), StartOver, ~lost'
  PROVE  InLine(e)'
<1>1. StartOverLeaves
  BY StartsOver
<1>2. ring = <<>> /\ Empty
  <2>1. lost' = (lost \/ ring # <<>> \/ \E i \in Stages : held[i] # <<>>)
    BY DEF StartOver
  <2> QED
    BY <2>1, Zenon DEF Empty
<1>3. ~Moving /\ ~Reading /\ ~Reading' /\ hand = <<>>
  BY <1>1 DEF StartOverLeaves, Typed, PlacesOK, Threads, ThreadInv, Moving, Reading
<1>4. InHand = <<>>
  BY <1>2, <1>3 DEF InHand, Reading
<1>5. due = e
  BY <1>3, <1>4, NothingInFlight DEF InLine
<1>6. srcPos = e
  <2>1. InTheChain = <<>>
    BY <1>2, EmptyChain DEF ChainInv
  <2> QED
    BY <1>3, <2>1, NothingHeld DEF InLine
<1>7. InTheChain' = <<>>
  BY ForgottenChain DEF StartOver, ChainResets, Forgets
<1>8. ~torn' /\ ~apart'
  BY <1>1 DEF StartOverLeaves, InLine, OrderedTo
<1> QED
  BY <1>1, <1>3, <1>5, <1>6, <1>7, <1>8, LineOfNothing DEF StartOverLeaves

(* A seek begins anew where it lands.                                       *)
LEMMA MoveBeginsLine ==
  ASSUME Typed, ThreadInv, NEW e \in Nat, InLine(e), NEW t \in {"control", "decode"},
         MoveAndForget(t), ~lost'
  PROVE  \E f \in Nat : InLine(f)'
<1>1. MoveSource(t)
  BY DEF MoveAndForget
<1>2. srcPos' = target /\ due' = target
  BY <1>1 DEF MoveSource
<1>3. target \in Nat
  BY <1>1, GraphAssumption
  DEF MoveSource, Typed, TargetInv, FramesOK, SeekLabels, MaybeFrame, None, GraphAssumption
<1>4. ring' = <<>> /\ hand' = <<>> /\ ~Reading' /\ ~torn' /\ ~apart'
  <2>1. Moving /\ ~Reading
    BY <1>1 DEF MoveSource, Moving, Reading, ThreadInv, InLine, OrderedTo
  <2> QED
    BY <1>1, <2>1
         DEF MoveSource, InLine, OrderedTo, Reading, Goto, turn, Typed, PlacesOK, Threads
<1>5. InTheChain' = <<>>
  BY ForgottenChain DEF MoveAndForget, ChainResets, Forgets
<1>6. PICK f \in Nat : f = target
  BY <1>3
<1>7. InLine(f)'
  BY <1>2, <1>4, <1>5, <1>6, LineOfNothing
<1> QED
  BY <1>7

(* A turn of the pump puts what comes out behind what is in the ring.       *)
LEMMA PumpKeepsLine ==
  ASSUME Typed, ThreadInv, ChainInv, NEW e \in Nat, InLine(e), Pumping, ~lost'
  PROVE  \E f \in Nat : InLine(f)'
<1>1. ChainInv' /\ GivesInOrder
  <2>1. ~ChainFails
    BY DEF ChainFails, PumpFails
  <2> QED
    BY <2>1, PumpOnceGives DEF Pumping
<1>2. PICK got, x : Given(got, x)
  BY <1>1, Zenon DEF GivesInOrder
<1>3. /\ got \in Nat /\ srcPos' = srcPos + got /\ srcPos' <= Length
      /\ x \in Seq(0..(Length - 1)) /\ ring' = ring \o x /\ apart' = apart
      /\ Wire(InTheChain) \o Frames(srcPos, got) = x \o Wire(InTheChain')
  BY <1>2 DEF Given, Puts, InLine, OrderedTo
<1>4. PumpLeaves
  BY PumpingLeaves
<1>5. ~Moving /\ Still /\ UNCHANGED <<hand, due, torn>>
  BY <1>4
     DEF PumpLeaves, Typed, PlacesOK, Threads, ThreadInv, SeekLabels, Moving, Reading, Still
<1>6. e <= srcPos /\ Wire(InTheChain) = Frames(e, srcPos - e) /\ OrderedTo(e)
  BY <1>5 DEF InLine, ChainFrom
<1> DEFINE m == srcPos' - e
           n == Len(x)
           W == Wire(InTheChain')
<1>7. m \in Nat /\ m = (srcPos - e) + got /\ srcPos - e \in Nat /\ e + m = srcPos'
      /\ e + (srcPos - e) = srcPos /\ Length \in Nat
  <2>1. e <= srcPos /\ srcPos' = srcPos + got /\ got \in Nat
    BY <1>3, <1>6
  <2>2. srcPos \in Nat /\ Length \in Nat
    BY Numbers
  <2> QED
    BY <2>1, <2>2
<1>8. Frames(e, m) = x \o W
  <2>1. Frames(e, srcPos - e) \o Frames(e + (srcPos - e), got) = Frames(e, (srcPos - e) + got)
    BY <1>3, <1>7, FramesJoin, ZenonT(40)
  <2>2. Frames(e, m) = Frames(e, srcPos - e) \o Frames(srcPos, got)
    BY <1>7, <2>1, Zenon
  <2> QED
    BY <1>3, <1>6, <2>2, Zenon
<1>9. W \in Seq(Nat) /\ x \in Seq(Nat)
  <2>1. W \in Seq(Nat)
    BY <1>1, NextChainTyped, WireTyped DEF ChainInv
  <2>2. x \in Seq(Nat)
    BY <1>3, <1>7, SMTT(30)
  <2> QED
    BY <2>1, <2>2
<1> HIDE DEF m, W
<1>10. n \in 0..m
  <2>1. Len(x \o W) = Len(x) + Len(W) /\ Len(x) \in Nat /\ Len(W) \in Nat
    BY <1>9
  <2>2. Len(Frames(e, m)) = m
    BY <1>7, FramesCount
  <2> QED
    BY <1>7, <1>8, <2>1, <2>2
<1>11. x = Frames(e, n) /\ W = Frames(e + n, m - n)
  <2>1. SubSeq(x \o W, 1, n) = x /\ Drop(x \o W, n) = W
    BY <1>9, JoinTake
  <2> HIDE DEF n
  <2>2. SubSeq(Frames(e, m), 1, n) = Frames(e, n) /\ Drop(Frames(e, m), n) = Frames(e + n, m - n)
    BY <1>7, <1>10, FramesFirst, FramesRest, ZenonT(40)
  <2> QED
    BY <1>8, <2>1, <2>2
<1> HIDE DEF n
<1>12. n \in Nat /\ e + n \in Nat /\ e + n <= Length /\ e + n <= srcPos'
       /\ m - n = srcPos' - (e + n)
  <2>1. srcPos' \in Nat /\ srcPos' <= Length
    BY <1>3, Numbers, SMTT(30)
  <2>2. m \in Nat /\ e + m = srcPos' /\ Length \in Nat
    BY <1>7
  <2>3. n \in 0..m
    BY <1>10
  <2>4. PICK to \in Nat : to = srcPos'
    BY <2>1
  <2>5. to <= Length /\ e + m = to
    BY <2>1, <2>2, <2>4
  <2>6. n \in Nat /\ e + n \in Nat /\ e + n <= Length /\ e + n <= to /\ m - n = to - (e + n)
    BY <2>2, <2>3, <2>5
  <2> QED
    BY <2>4, <2>6
<1>13. OrderedTo(e + n)'
  <2>1. ring' = ring \o Frames(e, n)
    BY <1>3, <1>11
  <2> QED
    BY <1>3, <1>5, <1>6, <1>12, <2>1, GrowsInOrder
<1>14. PICK f \in Nat : f = e + n
  BY <1>12
<1>15. ChainFrom(f)'
  BY <1>11, <1>12, <1>14 DEF ChainFrom, W
<1>16. OrderedTo(f)'
  BY <1>13, <1>14
<1> QED
  BY <1>15, <1>16 DEF InLine

LEMMA ChainOrderIsKept ==
  ASSUME Typed, ThreadInv, TurnInv, WaitInv, ChainInv, ChainOrderInv, ProcStep
  PROVE  ChainOrderInv'
<1> SUFFICES ASSUME ~lost', ~late' PROVE \E f \in Nat : InLine(f)'
  BY DEF ChainOrderInv
<1>1. ~lost /\ ~late
  <2>1. CASE QuietStep
    BY <2>1, PlainOnlyLoses DEF QuietStep
  <2>2. CASE Pumping
    BY <2>2, PumpOnlyLoses DEF Pumping
  <2>3. CASE StartOver
    BY <2>3, StartsOver DEF StartOverLeaves
  <2>4. CASE \E t \in {"control", "decode"} : MoveAndForget(t)
    BY <2>4 DEF MoveAndForget, MoveSource
  <2> QED
    BY <2>1, <2>2, <2>3, <2>4 DEF ProcStep
<1>2. PICK e \in Nat : InLine(e)
  BY <1>1 DEF ChainOrderInv
<1>3. CASE QuietStep
  BY <1>2, <1>3, QuietKeepsLine
<1>4. CASE Pumping
  BY <1>2, <1>4, PumpKeepsLine
<1>5. CASE StartOver
  BY <1>2, <1>5, StartKeepsLine
<1>6. ASSUME NEW t \in {"control", "decode"}, MoveAndForget(t) PROVE \E f \in Nat : InLine(f)'
  BY <1>2, <1>6, MoveBeginsLine
<1> QED
  BY <1>3, <1>4, <1>5, <1>6 DEF ProcStep

(* The position is counted from the beginning of a source frame.            *)
PlaceInv == playedBase % Ratio = 0

(* Inductive for the processed graph.  ChainOrderInv is what it is for: the *)
(* frames from the one due to some e are in the ring and the render threads *)
(* hands, and those from e to where the source stands are in the chain.     *)
ProcInv ==
    /\ Typed /\ ThreadInv /\ TurnInv /\ WaitInv /\ WakeInv
    /\ RunInv /\ SeenInv /\ RingInv /\ HandInv /\ PositionIsNotBehind
    /\ ChainInv /\ FlushInv /\ ChainOrderInv /\ PlaceInv

(* The position stays ahead of what the device was given.                   *)
LEMMA ProcPositionIsKept ==
  ASSUME Typed, ThreadInv, HandInv, ChainInv, ChainOrderInv, PositionIsNotBehind, ProcStep
  PROVE  PositionIsNotBehind'
<1> SUFFICES ASSUME ~lost', ~late' PROVE PositionIsNotBehind'
  BY DEF PositionIsNotBehind
<1>1. CASE QuietStep
  <2>1. ~lost /\ ~late /\ PlainFrames
    BY <1>1, PlainOnlyLoses DEF QuietStep
  <2>2. PICK e \in Nat : OrderedTo(e)
    BY <2>1 DEF ChainOrderInv, InLine
  <2>3. Typed'
    BY <1>1, TypedIsKept DEF QuietStep
  <2> QED
    BY <2>1, <2>2, <2>3, PositionOfPlain
<1>2. CASE UNCHANGED <<due, playedBase, since>> /\ (lost => lost') /\ (late => late')
  BY <1>2 DEF PositionIsNotBehind, Position
<1>3. CASE Pumping
  BY <1>2, <1>3, PumpOnlyLoses DEF Pumping, place
<1>4. CASE StartOver
  BY <1>2, <1>4, StartsOver DEF StartOverLeaves
<1>5. ASSUME NEW t \in {"control", "decode"}, MoveAndForget(t) PROVE PositionIsNotBehind'
  <2>1. due' = target /\ playedBase' = target /\ since' = 0
    BY <1>5 DEF MoveAndForget, MoveSource
  <2>2. target \in Int
    BY <1>5 DEF MoveAndForget, MoveSource, Typed, FramesOK, MaybeFrame, None
  <2> QED
    BY <2>1, <2>2 DEF PositionIsNotBehind, Position
<1> QED
  BY <1>1, <1>3, <1>4, <1>5 DEF ProcStep

LEMMA PlaceIsKept ==
  ASSUME Typed, ThreadInv, PlaceInv, ProcStep
  PROVE  PlaceInv'
<1>1. CASE playedBase' = playedBase
  BY <1>1 DEF PlaceInv
<1>2. CASE QuietStep
  BY <1>1, <1>2, PlainOnlyLoses DEF QuietStep
<1>3. CASE Pumping
  BY <1>1, <1>3 DEF Pumping, place
<1>4. CASE StartOver
  BY <1>1, <1>4, StartsOver DEF StartOverLeaves
<1>5. ASSUME NEW t \in {"control", "decode"}, MoveAndForget(t) PROVE PlaceInv'
  BY <1>5 DEF MoveAndForget, MoveSource, PlaceInv, place
<1> QED
  BY <1>2, <1>3, <1>4, <1>5 DEF ProcStep

LEMMA ProcInitInv == ProcInit => ProcInv
<1> SUFFICES ASSUME ProcInit PROVE ProcInv
  OBVIOUS
<1>1. Inv /\ srcPos \in Begins /\ playedBase = srcPos
  BY InitInv DEF ProcInit, Init
<1>2. held = [i \in Stages |-> <<>>] /\ flushStage = 1 /\ flushed = FALSE /\ ~drained
  BY DEF ProcInit, Init
<1>3. Len(Holds) \in Nat /\ Stages = 1..Len(Holds) /\ \A i \in Stages : Holds[i] \in Nat
  BY Stage DEF Stages
<1>4. ChainInv
  <2>1. <<>> \in Seq(Whole) /\ Len(<<>>) = 0
    OBVIOUS
  <2>2. held \in Chain /\ Full
    BY <1>2, <1>3, <2>1 DEF Chain, Full
  <2>3. 1 \in 1..(Len(Holds) + 1) /\ (Holds # <<>> => 1 \in Stages)
    <3>1. Holds \in Seq(Nat)
      BY ChainAssumption DEF ChainAssumption
    <3> QED
      BY <1>3, <3>1
  <2> QED
    BY <1>2, <2>2, <2>3 DEF ChainInv
<1>5. FlushInv
  BY <1>2, <1>3 DEF FlushInv, Empty
<1>6. ChainOrderInv
  <2>1. PICK e \in Nat : e = srcPos
    BY <1>1, Numbers DEF Inv
  <2>2. OrderedTo(e)
    <3>1. Sound
      BY DEF ProcInit, Init, Sound
    <3> QED
      BY <1>1, <2>1, <3>1 DEF Inv, OrderInv, Ordered
  <2>3. InTheChain = <<>>
    BY <1>2, <1>4, EmptyChain DEF ChainInv, Empty
  <2>4. ChainFrom(e)
    <3>1. e - e = 0 /\ Frames(e, 0) = <<>>
      BY FramesOfNone
    <3> QED
      BY <2>1, <2>3, <3>1, WireOfNone DEF ChainFrom
  <2> QED
    BY <2>2, <2>4 DEF ChainOrderInv, InLine
<1>7. PlaceInv
  BY <1>1, ChainAssumption DEF ChainAssumption, PlaceInv
<1> QED
  BY <1>1, <1>4, <1>5, <1>6, <1>7 DEF Inv, ProcInv

LEMMA ProcInvIsKept == ProcInv /\ [ProcNext]_pvars => ProcInv'
<1> SUFFICES ASSUME ProcInv, [ProcNext]_pvars PROVE ProcInv'
  OBVIOUS
<1>1. ProcStep
  BY ProcSteps DEF ProcInv
<1> QED
  BY <1>1, ProcTypedIsKept, ProcThreadsAreKept, ProcRingIsKept, ProcRunsAreKept,
     ChainIsKept, FlushIsKept, ChainOrderIsKept, ProcPositionIsKept, PlaceIsKept
  DEF ProcInv

LEMMA ProcInvariant == ProcSpec => []ProcInv
  BY ProcInitInv, ProcInvIsKept, PTL DEF ProcSpec

(* What ends an order ends it where the source stands.                      *)
LEMMA LineIsOrder ==
  ASSUME Typed, NEW e \in Nat, InLine(e), ~Moving
  PROVE  InHand \o Wire(InTheChain) = Frames(due, srcPos - due)
<1>1. /\ due <= e /\ InHand = Frames(due, e - due)
      /\ e <= srcPos /\ Wire(InTheChain) = Frames(e, srcPos - e)
  BY DEF InLine, OrderedTo, ChainFrom
<1>2. due \in Nat /\ srcPos \in Nat
  BY GraphAssumption DEF Typed, FramesOK, GraphAssumption
<1>3. /\ e - due \in Nat /\ srcPos - e \in Nat /\ due + (e - due) = e
      /\ (e - due) + (srcPos - e) = srcPos - due
  <2>1. due <= e /\ e <= srcPos
    BY <1>1
  <2> QED
    BY <1>2, <2>1
<1>4. Frames(due, e - due) \o Frames(due + (e - due), srcPos - e)
        = Frames(due, (e - due) + (srcPos - e))
  BY <1>2, <1>3, FramesJoin, ZenonT(40)
<1> QED
  BY <1>1, <1>3, <1>4, Zenon

(* Scaling to source frames keeps the order.                                *)
LEMMA DividesInOrder ==
  ASSUME NEW R \in Nat \ {0}, NEW n \in Nat, NEW m \in Nat, n <= m
  PROVE  n \div R <= m \div R
<1> DEFINE a == n \div R
           b == m \div R
           r == m % R
           s == n % R
<1>1. /\ a \in Nat /\ b \in Nat /\ r \in 0..(R - 1) /\ s \in 0..(R - 1)
      /\ m = R * b + r /\ n = R * a + s
  BY Division
<1> HIDE DEF a, b, r, s
<1>2. b < a => R * b + R <= R * a
  BY <1>1, Scales
<1> DEFINE x == R * a
           y == R * b
<1>3. x \in Nat /\ y \in Nat /\ m = y + r /\ n = x + s /\ (b < a => y + R <= x)
  BY <1>1, <1>2, Scales
<1> HIDE DEF x, y
<1>4. ~(b < a)
  BY <1>1, <1>3
<1> QED
  BY <1>1, <1>4 DEF a, b

(* So that the position in source frames is ahead as well.                  *)
LEMMA PlaceOfPosition ==
  ASSUME Typed, PlaceInv, Position >= due
  PROVE  position_frames >= due \div Ratio
<1>1. playedBase \in Nat /\ since \in Nat /\ due \in Nat
  BY GraphAssumption DEF Typed, FramesOK, GraphAssumption
<1> DEFINE k == playedBase \div Ratio
           q == since \div Ratio
<1>2. k \in Nat /\ playedBase = Ratio * k + 0
  <2>1. playedBase = Ratio * k + (playedBase % Ratio) /\ k \in Nat
    BY <1>1, Rate, Division
  <2> QED
    BY <2>1 DEF PlaceInv
<1>3. playedBase + since = Ratio * k + since
  <2>1. Ratio * k \in Nat
    BY <1>2, Rate
  <2> HIDE DEF k
  <2> QED
    BY <1>1, <1>2, <2>1
<1>4. (playedBase + since) \div Ratio = k + q
  <2>1. (Ratio * k + since) \div Ratio = k + q
    BY <1>1, <1>2, Rate, DividesFrom
  <2> QED
    BY <1>3, <2>1, Zenon
<1>5. due \div Ratio <= (playedBase + since) \div Ratio
  <2>1. playedBase + since \in Nat /\ due <= playedBase + since
    BY <1>1 DEF Position
  <2> QED
    BY <1>1, <2>1, Rate, DividesInOrder
<1>6. k \in Nat /\ q \in Nat /\ due \div Ratio \in Nat
  BY <1>1, Rate, Division
<1>7. due \div Ratio <= k + q
  BY <1>4, <1>5
<1>8. position_frames = k + q
  BY DEF position_frames
<1> DEFINE d == due \div Ratio
<1> HIDE DEF k, q, d
<1>9. d <= k + q /\ d \in Nat
  BY <1>6, <1>7 DEF d
<1> QED
  BY <1>6, <1>8, <1>9 DEF d

(* processed.cpp:59-99, dsp.cpp:358-380: every variable of the processed    *)
(* graph keeps its type.  The ring holds no more than its capacity, whatever*)
(* comes out of the chain at once: pump_once takes a block only where there *)
(* is room for one, and no stage gives more than it was given.  As in the   *)
(* other graph that is said of a ring whose indices belong together, which  *)
(* they do until a wait of a seek runs out (ProcSeekOwnsTheRing).           *)
THEOREM ProcTyped == ProcSpec => [](TypeOK /\ ChainInv)
<1>1. ProcInv => TypeOK /\ ChainInv
  BY DEF ProcInv, Typed, TypeOK
<1> QED
  BY <1>1, ProcInvariant, PTL

(* processed.cpp:59-89, 377-390, dsp.cpp:358-380: no frame is dropped,      *)
(* doubled or overtaken in the stages, in the ring or by a seek, and the    *)
(* position in source frames is never behind what the device was given.     *)
THEOREM ProcPlaysWhatTheChainGives == ProcSpec => []PlaysWhatTheChainGives
<1>1. ProcInv => PlaysWhatTheChainGives
  <2> SUFFICES ASSUME ProcInv PROVE PlaysWhatTheChainGives
    OBVIOUS
  <2>1. ChainKeepsOrder
    <3> SUFFICES ASSUME ~lost, ~late, ~Moving
                 PROVE  InHand \o Wire(InTheChain) = Frames(due, srcPos - due)
      BY DEF ChainKeepsOrder
    <3>1. PICK e \in Nat : InLine(e)
      BY DEF ProcInv, ChainOrderInv
    <3> QED
      BY <3>1, LineIsOrder DEF ProcInv
  <2>2. PlaceIsNotBehind
    <3> SUFFICES ASSUME ~lost, ~late, since < MaxSince
                 PROVE  position_frames >= due \div Ratio
      BY DEF PlaceIsNotBehind
    <3>1. Position >= due
      BY DEF ProcInv, PositionIsNotBehind
    <3> QED
      BY <3>1, PlaceOfPosition DEF ProcInv
  <2> QED
    BY <2>1, <2>2 DEF PlaysWhatTheChainGives
<1> QED
  BY <1>1, ProcInvariant, PTL

(* processed.cpp:454-498: as in the other graph, from the reset to the end  *)
(* of a seek the render thread is out of the ring, and its two indices      *)
(* belong together, as long as no wait of a seek ran out.                   *)
THEOREM ProcSeekOwnsTheRing == ProcSpec => []SeekOwnsTheRing
<1>1. ProcInv => SeekOwnsTheRing
  BY OwnsTheRing DEF ProcInv
<1> QED
  BY <1>1, ProcInvariant, PTL

(* processed.cpp:53-57, 191-216: as in the other graph, the decode thread   *)
(* sleeps unwoken only while it has nothing to do.                          *)
THEOREM ProcWakesTheDecoder == ProcSpec => []WorkWakesTheDecoder
<1>1. ProcInv => WorkWakesTheDecoder
  BY DEF ProcInv, WakeInv
<1> QED
  BY <1>1, ProcInvariant, PTL

(* A run ends by itself and without an error, with nothing lost or late.    *)
EndsByItself ==
    /\ running /\ ~running' /\ ~failed' /\ pc'["control"] # "join"
    /\ ~lost /\ ~late

(* A turn that ends the run found the chain drained too.                    *)
LEMMA ProcEndsAtTheEnd ==
  ASSUME ProcInv, [ProcNext]_pvars, EndsByItself
  PROVE  due = Length /\ InTheChain = <<>>
<1> USE DEF ProcInv
<1>1. ProcStep
  BY ProcSteps
<1>2. ~StartOver
  BY DEF StartOver, EndsByItself
<1>3. ~Pumping
  BY DEF Pumping, PumpOnce, ChainRuns, ChainFails, PumpFails, Fail, FlushIsOver, NextStage,
     DrainStage, EndsByItself
<1>4. ~(\E t \in {"control", "decode"} : MoveAndForget(t))
  BY DEF MoveAndForget, MoveSource, state, EndsByItself
<1>5. RenderSettles /\ Finishing
  <2>1. [Next]_vars
    BY <1>1, <1>2, <1>3, <1>4 DEF ProcStep, QuietStep
  <2> QED
    BY <2>1, EndsBySettling DEF EndsByItself
<1>6. pc["render"] = "settle" /\ ~sawSeeking /\ drained /\ ring = <<>> /\ hand = <<>>
  BY <1>5 DEF RenderSettles, Finishing, ThreadInv
<1>7. srcPos = Length /\ Empty
  BY <1>6 DEF RunInv, Ending, FlushInv, EndsByItself
<1>8. ~Moving
  BY <1>6, SettlesOutOfSeek DEF EndsByItself
<1>9. InTheChain = <<>>
  BY <1>7, EmptyChain DEF ChainInv
<1>10. PICK e \in Nat : InLine(e)
  BY DEF ChainOrderInv, EndsByItself
<1>11. e = srcPos
  BY <1>8, <1>9, <1>10, NothingHeld DEF InLine
<1>12. InHand = <<>>
  BY <1>6 DEF InHand
<1>13. due = e
  BY <1>8, <1>10, <1>12, NothingInFlight DEF InLine
<1> QED
  BY <1>7, <1>9, <1>11, <1>13

(* processed.cpp:64-75, 191-216, 305-341: a run that ends by itself and     *)
(* without an error has played all of the source, and no stage still holds  *)
(* any of it.                                                               *)
THEOREM ProcTailIsPlayed == ProcSpec => TailIsPlayed
<1>1. ProcInv /\ [ProcNext]_pvars => [EndsByItself => due = Length /\ InTheChain = <<>>]_pvars
  BY ProcEndsAtTheEnd
<1> QED
  BY <1>1, ProcInvariant, PTL DEF ProcSpec, TailIsPlayed, EndsByItself
=============================================================================
