---------------------------- MODULE PacketRouter ----------------------------
(***************************************************************************)
(* mp::PacketRouter (packet.hpp, packet.cpp): one demuxer, read once, for  *)
(* every stream that was selected.  A consumer that asks is served what    *)
(* waits for it, or else the file is read, packets for the others waiting  *)
(* in their queues, until one of its own comes, the file ends or somebody  *)
(* else's queue is full.                                                   *)
(*                                                                         *)
(* A packet is its number in the file.  A call is broken where it calls    *)
(* the demuxer and where it hands a packet to a queue.  The router has no  *)
(* lock: the shells' show (win/mediaperch/main.cpp) has a consumer on each  *)
(* of two threads, as the Player does, and a test drives both from one,    *)
(* which is OneThread.                                                     *)
(***************************************************************************)
EXTENDS Integers, Sequences, FiniteSetsExt, SequencesExt

CONSTANTS
    Files,       \* what may be in the file: sequences of [stream, bytes]
    Streams,     \* the streams the router was given, each with a consumer
    Limits,      \* PacketRouterLimits: records [soft, floor, hard]
    OneThread,   \* whether the consumers call from one thread
    MaySeekFail, \* whether the demuxer may refuse a seek
    MaxSeeks     \* bound of the exploration: seeks made

ASSUME RouterAssumption ==
    /\ \A f \in Files : /\ Len(f) \in Nat /\ DOMAIN f = 1..Len(f)
                         /\ \A k \in DOMAIN f : f[k].bytes \in Nat
    /\ Limits \subseteq [soft : Nat, floor : Nat, hard : Nat]
    /\ OneThread \in BOOLEAN /\ MaySeekFail \in BOOLEAN /\ MaxSeeks \in Nat

VARIABLES
    file, limits,       \* chosen when the router is built
    at,                 \* the demuxer's position: the next packet
    waiting, bytes,     \* each queue, and its bytes
    ended,
    queuedBytes, queuedPackets,     \* stats_, as far as clear() resets it
    pc,                 \* each consumer: "idle", "reading", "handing", "clearing"
    packet,             \* each consumer's packet in hand, when "handing"
    answer,             \* each consumer's last answer
    from, got,          \* history: where the last seek landed, what each got since
    seeks               \* history: seeks made

chosen == <<file, limits>>
queues == <<waiting, bytes, queuedBytes, queuedPackets>>
vars == <<chosen, at, queues, ended, pc, packet, answer, from, got, seeks>>

(* Everything that is about one stream, of the packets from a to b - 1. *)
Of(s, a, b) == {k \in a..(b - 1) : file[k].stream = s}

InOrder(q) == \A i, j \in DOMAIN q : i < j => q[i] < q[j]
IsJust(q, packets) == InOrder(q) /\ Range(q) = packets

Init ==
    /\ file \in Files /\ limits \in Limits
    /\ at = 1
    /\ waiting = [s \in Streams |-> <<>>] /\ bytes = [s \in Streams |-> 0]
    /\ ended = FALSE
    /\ queuedBytes = 0 /\ queuedPackets = 0
    /\ pc = [s \in Streams |-> "idle"]
    /\ packet = [s \in Streams |-> 0]
    /\ answer = [s \in Streams |-> "none"]
    /\ from = 1 /\ got = [s \in Streams |-> <<>>]
    /\ seeks = 0

-----------------------------------------------------------------------------
SoftlyFull(q) ==      \* mutant: the cap with no condition on it is forgotten
    bytes[q] >= limits.soft /\ Len(waiting[q]) >= limits.floor

Full(q) ==
    \/ limits.hard # 0 /\ bytes[q] >= limits.hard
    \/ bytes[q] >= limits.soft /\ Len(waiting[q]) >= limits.floor

SomeoneIsFull(mine) == \E q \in Streams \ {mine} : Full(q)

(* A call begins: from any thread, or from the one there is. *)
Calls(s) ==
    /\ pc[s] = "idle"
    /\ OneThread => \A t \in Streams : pc[t] = "idle"

Deliver(s, k) ==
    /\ got' = [got EXCEPT ![s] = Append(@, k)]
    /\ answer' = [answer EXCEPT ![s] = "packet"]

Answer(s, a) ==
    /\ answer' = [answer EXCEPT ![s] = a]
    /\ UNCHANGED got

NextWaitingUncounted(s) ==      \* mutant: the queue is not made lighter
    /\ Calls(s)
    /\ waiting[s] # <<>>
    /\ waiting' = [waiting EXCEPT ![s] = Tail(@)]
    /\ queuedBytes' = queuedBytes - file[Head(waiting[s])].bytes
    /\ queuedPackets' = queuedPackets - 1
    /\ Deliver(s, Head(waiting[s]))
    /\ UNCHANGED <<chosen, at, bytes, ended, pc, packet, from, seeks>>

(* next() with something waiting. *)
NextWaiting(s) ==
    /\ Calls(s)
    /\ waiting[s] # <<>>
    /\ waiting' = [waiting EXCEPT ![s] = Tail(@)]
    /\ bytes' = [bytes EXCEPT ![s] = @ - file[Head(waiting[s])].bytes]
    /\ queuedBytes' = queuedBytes - file[Head(waiting[s])].bytes
    /\ queuedPackets' = queuedPackets - 1
    /\ Deliver(s, Head(waiting[s]))
    /\ UNCHANGED <<chosen, at, ended, pc, packet, from, seeks>>

NextEnded(s) ==
    /\ Calls(s)
    /\ waiting[s] = <<>> /\ ended
    /\ Answer(s, "end")
    /\ UNCHANGED <<chosen, at, queues, ended, pc, packet, from, seeks>>

NextBegins(s) ==
    /\ Calls(s)
    /\ waiting[s] = <<>> /\ ~ended
    /\ pc' = [pc EXCEPT ![s] = "reading"]
    /\ UNCHANGED <<chosen, at, queues, ended, packet, answer, from, got, seeks>>

NextBusy(s) ==
    /\ pc[s] = "reading"
    /\ SomeoneIsFull(s)
    /\ Answer(s, "busy")
    /\ pc' = [pc EXCEPT ![s] = "idle"]
    /\ UNCHANGED <<chosen, at, queues, ended, packet, from, seeks>>

(* read_packet() at the end of the file. *)
NextEnds(s) ==
    /\ pc[s] = "reading"
    /\ ~SomeoneIsFull(s)
    /\ at > Len(file)
    /\ ended' = TRUE
    /\ Answer(s, "end")
    /\ pc' = [pc EXCEPT ![s] = "idle"]
    /\ UNCHANGED <<chosen, at, queues, packet, from, seeks>>

NextReadsWhatever(s) ==      \* mutant: every packet is the asker's
    /\ pc[s] = "reading"
    /\ ~SomeoneIsFull(s)
    /\ at <= Len(file)
    /\ at' = at + 1
    /\ Deliver(s, at) /\ pc' = [pc EXCEPT ![s] = "idle"]
    /\ UNCHANGED <<chosen, queues, ended, packet, from, seeks>>

(* read_packet(): one's own is the answer, another consumer's is for its    *)
(* queue, and one of a stream nobody selected is dropped.                   *)
NextReads(s) ==
    /\ pc[s] = "reading"
    /\ ~SomeoneIsFull(s)
    /\ at <= Len(file)
    /\ at' = at + 1
    /\ LET of == file[at].stream
       IN \/ /\ of = s
             /\ Deliver(s, at) /\ pc' = [pc EXCEPT ![s] = "idle"]
             /\ UNCHANGED packet
          \/ /\ of \in Streams \ {s}
             /\ packet' = [packet EXCEPT ![s] = at]
             /\ pc' = [pc EXCEPT ![s] = "handing"]
             /\ UNCHANGED <<got, answer>>
          \/ /\ of \notin Streams
             /\ UNCHANGED <<got, answer, pc, packet>>
    /\ UNCHANGED <<chosen, queues, ended, from, seeks>>

(* The packet goes to its queue, and the file is read on. *)
NextHands(s) ==
    /\ pc[s] = "handing"
    /\ LET k == packet[s]
           q == file[k].stream
       IN /\ waiting' = [waiting EXCEPT ![q] = Append(@, k)]
          /\ bytes' = [bytes EXCEPT ![q] = @ + file[k].bytes]
          /\ queuedBytes' = queuedBytes + file[k].bytes
    /\ queuedPackets' = queuedPackets + 1
    /\ packet' = [packet EXCEPT ![s] = 0]
    /\ pc' = [pc EXCEPT ![s] = "reading"]
    /\ UNCHANGED <<chosen, at, ended, answer, from, got, seeks>>

(* seek(): the file first.  A demuxer that refuses leaves it where it was,  *)
(* and the queues with it.                                                  *)
SeekMoves(s, to) ==
    /\ Calls(s)
    /\ seeks < MaxSeeks
    /\ seeks' = seeks + 1
    /\ \/ /\ at' = to /\ from' = to
          /\ got' = [q \in Streams |-> <<>>]
          /\ pc' = [pc EXCEPT ![s] = "clearing"]
       \/ /\ MaySeekFail
          /\ UNCHANGED <<at, from, got, pc>>
    /\ UNCHANGED <<chosen, queues, ended, packet, answer>>

(* clear() *)
SeekClears(s) ==
    /\ pc[s] = "clearing"
    /\ waiting' = [q \in Streams |-> <<>>] /\ bytes' = [q \in Streams |-> 0]
    /\ ended' = FALSE
    /\ queuedBytes' = 0 /\ queuedPackets' = 0
    /\ pc' = [pc EXCEPT ![s] = "idle"]
    /\ UNCHANGED <<chosen, at, packet, answer, from, got, seeks>>

Asks(s) ==
    \/ NextWaiting(s) \/ NextEnded(s) \/ NextBegins(s) \/ NextBusy(s)
    \/ NextEnds(s) \/ NextReads(s) \/ NextHands(s) \/ SeekClears(s)

Next ==
    \E s \in Streams : Asks(s) \/ \E to \in 1..Len(file) : SeekMoves(s, to)

Spec == Init /\ [][Next]_vars

(* Each consumer keeps asking, which the decode thread and the display's    *)
(* loop both do; nobody is obliged to seek.                                 *)
FairSpec == Spec /\ \A s \in Streams : SF_vars(Asks(s))

-----------------------------------------------------------------------------
(* packet.hpp:164-177, plan.md:6606: what each stream gets is what it would *)
(* have got from a demuxer of its own: what it got, and after it what waits *)
(* for it, and after that what is being handed to it, is every packet of    *)
(* its own that was read since the file last moved, in the file's order.    *)
InHand(s) == {packet[t] : t \in {u \in Streams : packet[u] # 0 /\ file[packet[u]].stream = s}}
GetsItsOwn(s) ==
    LET had == got[s] \o waiting[s]
    IN  /\ IsJust(had, Of(s, from, at) \ InHand(s))
        /\ InHand(s) \subseteq Of(s, from, at)
        /\ \A k \in InHand(s) : \A i \in DOMAIN had : had[i] < k
EachGetsItsOwn ==
    (\A s \in Streams : pc[s] # "clearing") => \A s \in Streams : GetsItsOwn(s)

(* packet.hpp:195-197, packet.cpp:373-375: the cap is exceeded by at most   *)
(* the one packet that discovers it: no queue is full without its last.     *)
FullWithout(q, last) ==
    \/ limits.hard # 0 /\ bytes[q] - last >= limits.hard
    \/ bytes[q] - last >= limits.soft /\ Len(waiting[q]) - 1 >= limits.floor
OneOverAtMost ==
    \A q \in Streams : waiting[q] # <<>> =>
        ~FullWithout(q, file[Last(waiting[q])].bytes)

BytesIn(packets) == UNION {{k} \X (1..file[k].bytes) : k \in packets}
Waiting == UNION {Range(waiting[s]) : s \in Streams}

(* packet.hpp:289-292: the counts are of what waits, whatever was served,   *)
(* queued and thrown away by a seek.                                        *)
CountsWhatWaits ==
    /\ \A s \in Streams : bytes[s] = Cardinality(BytesIn(Range(waiting[s])))
    /\ queuedBytes = Cardinality(BytesIn(Waiting))
    /\ queuedPackets = Cardinality(Waiting)

(* packet.hpp:195-197, 289-292: back pressure goes by counts that are right. *)
CapsHold == OneOverAtMost /\ CountsWhatWaits

(* packet.hpp:158: the end is the end of this stream: a consumer told       *)
(* of it has had every packet of its own.                                   *)
EndIsTheEnd ==
    [][\A s \in Streams : answer'[s] = "end" /\ answer[s] # "end" =>
           IsJust(got[s], Of(s, from, Len(file) + 1))]_vars

(* packet.hpp:179-185: back pressure is not a deadlock: while every         *)
(* consumer keeps asking, each comes to the end of its stream, and again    *)
(* after every seek.                                                        *)
EveryoneGetsToTheEnd ==
    \A s \in Streams : []<>(answer[s] = "end")

(* packet.hpp:158-185: everyone comes to the end, and to no end but its own. *)
EndIsReached == EndIsTheEnd /\ EveryoneGetsToTheEnd

(* plan.md:6606, of two consumers on two threads: what each has had is the  *)
(* packets it would have had from a demuxer of its own.                     *)
PacketForPacket ==
    (\A s \in Streams : pc[s] # "clearing") =>
        \A s \in Streams :
            \E end \in from..(Len(file) + 1) : IsJust(got[s], Of(s, from, end))
=============================================================================
