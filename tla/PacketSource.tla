---------------------------- MODULE PacketSource ----------------------------
(***************************************************************************)
(* mp::PacketSource (packet.hpp, packet.cpp): packets of one stream,       *)
(* decoded, and the gapless edit made to what comes out: the encoder's     *)
(* delay discarded at the front, the stated length kept, the padding held  *)
(* back at the end, and whatever precedes the target of a seek discarded.  *)
(*                                                                         *)
(* A frame is its number in the decoded stream, the encoder's delay        *)
(* included.  A packet is the frames from one of Cuts to the next; Flushed *)
(* more come out of the codec when the packets are over.  A stream that    *)
(* decodes itself hands over frames and has no packets.                    *)
(*                                                                         *)
(* One action is one branch of read()'s loop or of pump()'s.               *)
(***************************************************************************)
EXTENDS Integers, Sequences, FiniteSetsExt

CONSTANTS
    Cuts,           \* where packets begin, and where the last of them ends
    Flushed,        \* frames a codec still holds at the end
    Edits,          \* what a file may state: records [skip, play, trim, self]
    Rate,           \* frames in a second: the most a trim is believed
    Targets,        \* frames a caller may seek to
    ReadSizes,      \* frames a caller may ask for
    MayBeBusy,      \* whether the feed may answer MP_ERR_BUSY
    MayFail,        \* whether a packet may fail to be read or decoded
    MaxSeeks        \* bound of the exploration: seeks made

ASSUME SourceAssumption ==
    /\ Cuts \subseteq Nat /\ 0 \in Cuts
    /\ \E last \in Cuts : \A c \in Cuts : c <= last
    /\ Flushed \in Nat /\ Rate \in Nat /\ MaxSeeks \in Nat
    /\ Edits \subseteq [skip : Nat, play : Nat, trim : Nat, self : BOOLEAN]
    /\ Targets \subseteq Nat /\ ReadSizes \subseteq Nat \ {0}
    /\ MayBeBusy \in BOOLEAN /\ MayFail \in BOOLEAN

VARIABLES
    edit,                   \* stream_, as far as the edit goes
    pos,                    \* where the packets, or the frames, are read from
    cold,                   \* packets a codec that was reset decodes to nothing
    pcm,                    \* pcm_ from pcm_at_ to pcm_end_
    carry, drained,
    skip, remaining,
    afterSeek, seekTarget,
    position,
    pc,                     \* "idle", "reading" in read(), "pumping" in pump()
    want, filled,           \* the read in progress, in frames
    seeks,                  \* history: seeks made
    start, out,             \* history: the last seek's target, what was read since
    failed, starved         \* history: since then a packet failed, the feed was busy

heard == <<start, out, seeks, failed, starved>>
edits == <<edit, skip, remaining, afterSeek, seekTarget, position>>
vars == <<edits, pos, cold, pcm, carry, drained, pc, want, filled, heard>>

Total == Max(Cuts)
Span(from, to) == [i \in 1..(to - from) |-> from + i - 1]
NextCut(from) == Min({c \in Cuts : c > from})
Least(a, b) == IF a < b THEN a ELSE b
Drop(s, n) == SubSeq(s, n + 1, Len(s))

Bounded == edit.play # 0
SelfDecodes == edit.self     \* MP_STREAM_SELF_DECODES
AllFrames == IF SelfDecodes THEN Total ELSE Total + Flushed
Trim == IF edit.trim <= Rate THEN edit.trim ELSE 0

(* finish_open() *)
Init ==
    /\ edit \in Edits
    /\ pos = 0 /\ cold = 0
    /\ pcm = <<>> /\ carry = <<>> /\ drained = FALSE
    /\ skip = edit.skip /\ remaining = edit.play
    /\ afterSeek = FALSE /\ seekTarget = 0
    /\ position = 0
    /\ pc = "idle" /\ want = 0 /\ filled = 0
    /\ start = 0 /\ out = <<>> /\ seeks = 0
    /\ failed = FALSE /\ starved = FALSE

-----------------------------------------------------------------------------
(* read() *)

Read(n) ==
    /\ pc = "idle"
    /\ pc' = "reading" /\ want' = n /\ filled' = 0
    /\ UNCHANGED <<edits, pos, cold, pcm, carry, drained, heard>>

Returns ==
    /\ pc' = "idle"
    /\ UNCHANGED <<edits, pos, cold, want, filled, start, out, seeks, failed>>

ReadIsFull ==
    /\ pc = "reading" /\ filled = want
    /\ Returns
    /\ UNCHANGED <<pcm, carry, drained, starved>>

Reading == pc = "reading" /\ filled < want

ReadSkipsPastTheSkip ==      \* mutant: a whole buffer is dropped each time
    /\ Reading /\ pcm # <<>> /\ skip # 0
    /\ pcm' = <<>>
    /\ skip' = skip - Len(pcm)
    /\ UNCHANGED <<edit, remaining, afterSeek, seekTarget, position, pos, cold,
                   carry, drained, pc, want, filled, heard>>

ReadSkips ==
    /\ Reading /\ pcm # <<>> /\ skip # 0
    /\ LET drop == Least(skip, Len(pcm))
       IN pcm' = Drop(pcm, drop) /\ skip' = skip - drop
    /\ UNCHANGED <<edit, remaining, afterSeek, seekTarget, position, pos, cold,
                   carry, drained, pc, want, filled, heard>>

ReadIsOver ==
    /\ Reading /\ pcm # <<>> /\ skip = 0
    /\ Bounded /\ remaining = 0
    /\ Returns
    /\ UNCHANGED <<pcm, carry, drained, starved>>

(* No more than the trim is left: it may be the padding, so it is held back. *)
ReadCarries ==
    /\ Reading /\ pcm # <<>> /\ skip = 0
    /\ ~(Bounded /\ remaining = 0)
    /\ Trim # 0 /\ Len(pcm) <= Trim
    /\ carry' = pcm
    /\ pcm' = <<>>
    /\ UNCHANGED <<edits, pos, cold, drained, pc, want, filled, heard>>

ReadTakes ==
    /\ Reading /\ pcm # <<>> /\ skip = 0
    /\ ~(Bounded /\ remaining = 0)
    /\ Trim = 0 \/ Len(pcm) > Trim
    /\ LET there == Least(want - filled, Len(pcm) - Trim)
           take  == IF Bounded THEN Least(there, remaining) ELSE there
       IN /\ pcm' = Drop(pcm, take)
          /\ out' = out \o SubSeq(pcm, 1, take)
          /\ filled' = filled + take
          /\ position' = position + take
          /\ remaining' = IF Bounded THEN remaining - take ELSE remaining
    /\ UNCHANGED <<edit, skip, afterSeek, seekTarget, pos, cold, carry, drained,
                   pc, want, start, seeks, failed, starved>>

-----------------------------------------------------------------------------
(* pump() *)

PumpIsDrained ==
    /\ Reading /\ pcm = <<>> /\ drained
    /\ Returns
    /\ UNCHANGED <<pcm, carry, drained, starved>>

(* What was held back goes in front of what is about to be decoded. *)
PumpBegins ==
    /\ Reading /\ pcm = <<>> /\ ~drained
    /\ pcm' = carry /\ carry' = <<>>
    /\ pc' = "pumping"
    /\ UNCHANGED <<edits, pos, cold, drained, want, filled, heard>>

(* The first packet after a seek to decode to anything says how much of it  *)
(* precedes the target.  (A packet the demuxer gives no time is not          *)
(* modelled: there is nothing to compute then, and nothing is discarded.)   *)
SkipToTarget ==
    /\ afterSeek' = FALSE
    /\ skip' = IF afterSeek /\ pos < seekTarget THEN seekTarget - pos ELSE skip
    /\ UNCHANGED <<edit, remaining, seekTarget, position>>

PumpDecodes ==
    /\ pc = "pumping" /\ ~SelfDecodes
    /\ pos < Total /\ cold = 0
    /\ SkipToTarget
    /\ pos' = NextCut(pos)
    /\ pcm' = pcm \o Span(pos, NextCut(pos))
    /\ pc' = "reading"
    /\ UNCHANGED <<cold, carry, drained, want, filled, heard>>

PumpPrimesTaken ==      \* mutant: the target is measured from a cold packet
    /\ pc = "pumping" /\ ~SelfDecodes
    /\ pos < Total /\ cold > 0
    /\ SkipToTarget
    /\ pos' = NextCut(pos)
    /\ cold' = cold - 1
    /\ UNCHANGED <<pcm, carry, drained, pc, want, filled, heard>>

(* A packet that decodes to nothing: another is asked for. *)
PumpPrimes ==
    /\ pc = "pumping" /\ ~SelfDecodes
    /\ pos < Total /\ cold > 0
    /\ pos' = NextCut(pos)
    /\ cold' = cold - 1
    /\ UNCHANGED <<edits, pcm, carry, drained, pc, want, filled, heard>>

(* Another consumer has to read first: what was held back goes with it. *)
PumpIsBusy ==
    /\ pc = "pumping" /\ ~SelfDecodes /\ MayBeBusy
    /\ pcm' = <<>>
    /\ starved' = TRUE
    /\ Returns
    /\ UNCHANGED <<carry, drained>>

PumpEndsDry ==      \* mutant: the codec is not flushed at the end
    /\ pc = "pumping" /\ ~SelfDecodes
    /\ pos >= Total
    /\ drained' = TRUE
    /\ pcm' = <<>>
    /\ Returns
    /\ UNCHANGED <<carry, starved>>

(* The packets are over; the codec may still hold frames.  When it does not *)
(* what was held back was the padding.                                      *)
PumpEnds ==
    /\ pc = "pumping" /\ ~SelfDecodes
    /\ pos >= Total
    /\ drained' = TRUE
    /\ IF Flushed = 0
         THEN pcm' = <<>> /\ pc' = "idle" /\ UNCHANGED pos
         ELSE /\ pcm' = pcm \o Span(Total, AllFrames)
              /\ pos' = AllFrames
              /\ pc' = "reading"
    /\ UNCHANGED <<edits, cold, carry, want, filled, heard>>

PumpFails ==
    /\ pc = "pumping" /\ ~SelfDecodes /\ MayFail
    /\ pos < Total
    /\ drained' = TRUE
    /\ pcm' = <<>>
    /\ pos' = NextCut(pos)
    /\ pc' = "idle"
    /\ failed' = TRUE
    /\ UNCHANGED <<edits, cold, carry, want, filled, start, out, seeks,
                   starved>>

(* The demuxer decodes: any number of frames, the last perhaps with the     *)
(* word that they are the last.                                             *)
PumpDecodesItself(got) ==
    /\ pc = "pumping" /\ SelfDecodes
    /\ pos + got <= Total
    /\ afterSeek' = FALSE
    /\ pos' = pos + got
    /\ drained' = TRUE \/ (drained' = FALSE /\ got > 0)
    /\ drained' => pos + got = Total \/ MayFail
    /\ failed' = (failed \/ (drained' /\ pos + got < Total))
    /\ IF got = 0
         THEN pcm' = <<>> /\ pc' = "idle"
         ELSE pcm' = pcm \o Span(pos, pos + got) /\ pc' = "reading"
    /\ UNCHANGED <<edit, skip, remaining, seekTarget, position, cold, carry,
                   want, filled, start, out, seeks, starved>>

-----------------------------------------------------------------------------
(* seek().  The demuxer goes to the packet that holds the target or to an   *)
(* earlier one, and a codec that was reset may need a packet to warm up; a  *)
(* demuxer that decodes itself lands on the target.                         *)
Lands(absolute) ==
    IF SelfDecodes THEN pos' = absolute /\ cold' = 0
    ELSE /\ pos' \in {c \in Cuts : c < Total /\ c <= absolute}
         /\ cold' \in {0} \cup {n \in {1} : NextCut(pos') <= absolute
                                              /\ NextCut(pos') < Total}

Seek(frame) ==
    LET absolute == frame + edit.skip
    IN  /\ pc = "idle" /\ seeks < MaxSeeks
        /\ absolute <= Total
        /\ Lands(absolute)
        /\ pcm' = <<>> /\ carry' = <<>> /\ drained' = FALSE
        /\ position' = frame
        /\ skip' = 0
        /\ seekTarget' = absolute /\ afterSeek' = TRUE
        /\ remaining' = IF edit.play > frame THEN edit.play - frame ELSE 0
        /\ start' = frame /\ out' = <<>> /\ seeks' = seeks + 1
        /\ failed' = FALSE /\ starved' = FALSE
        /\ UNCHANGED <<edit, pc, want, filled>>

Pump ==
    \/ PumpIsDrained \/ PumpBegins \/ PumpDecodes \/ PumpPrimes \/ PumpIsBusy
    \/ PumpEnds \/ PumpFails
    \/ \E got \in 0..2 : PumpDecodesItself(got)

Next ==
    \/ \E n \in ReadSizes : Read(n)
    \/ ReadIsFull \/ ReadSkips \/ ReadIsOver \/ ReadCarries \/ ReadTakes
    \/ Pump
    \/ \E frame \in Targets : Seek(frame)

Spec == Init /\ [][Next]_vars

-----------------------------------------------------------------------------
TypeOK ==
    /\ edit \in Edits
    /\ pos \in 0..AllFrames /\ cold \in 0..1
    /\ pcm \in Seq(0..AllFrames) /\ carry \in Seq(0..AllFrames)
    /\ drained \in BOOLEAN /\ afterSeek \in BOOLEAN
    /\ failed \in BOOLEAN /\ starved \in BOOLEAN
    /\ skip \in Nat /\ remaining \in Nat /\ position \in Nat
    /\ seekTarget \in Nat /\ start \in Nat
    /\ pc \in {"idle", "reading", "pumping"}
    /\ want \in ReadSizes \cup {0} /\ filled \in 0..want
    /\ out \in Seq(0..AllFrames)
    /\ seeks \in 0..MaxSeeks

(* What there is to hear from the frame `start` on: after the delay, up to  *)
(* the stated length and before the padding.                                *)
First == edit.skip + start
Last ==
    LET unpadded == AllFrames - Trim
    IN  IF Bounded THEN Least(edit.skip + edit.play, unpadded) ELSE unpadded
Due == IF First < Last THEN Last - First ELSE 0

(* module.h:391-422: what is handed over is the audio and nothing else,     *)
(* from the frame asked for, in order, none twice and none missing, however *)
(* the packets are cut and the reads sized.                                 *)
HandsOverTheAudio ==
    ~failed /\ (starved => Trim = 0) =>
        out = Span(First, First + Len(out)) /\ Len(out) <= Due

(* source.hpp:32-33: a read that returns nothing means the end of the       *)
(* stream, so by then everything was handed over; as long as no other       *)
(* consumer had to read first.                                              *)
ReturnsNothing == pc # "idle" /\ pc' = "idle" /\ filled = 0
NothingMeansTheEnd ==
    [][ReturnsNothing /\ ~failed' /\ ~starved' => Len(out) = Due]_vars
=============================================================================
