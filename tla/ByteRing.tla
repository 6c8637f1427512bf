------------------------------ MODULE ByteRing ------------------------------
(***************************************************************************)
(* mp::ByteRing (src/src/engine/mediaperch/ring.hpp): the single-producer, *)
(* single-consumer ring between the decode thread and the render thread.   *)
(*                                                                         *)
(* A call is broken where the other thread can be seen to act: at the load *)
(* of the two indices, at each of the two memcpys, and at the store that   *)
(* publishes the caller's own index.  The indices run freely and wrap as   *)
(* std::size_t does, modulo Modulus; Slot is `& mask_`.                    *)
(*                                                                         *)
(* A byte is the number of the byte, counted from the last reset.  written *)
(* and consumed count the bytes published by each side; they are history   *)
(* and nothing in the code reads them.                                     *)
(***************************************************************************)
EXTENDS Integers, Sequences

CONSTANTS
    Capacity,   \* bytes in the ring; the code rounds up to a power of two
    Modulus,    \* 2^w for a std::size_t of w bits
    MaxBytes    \* bound of the exploration: bytes written between two resets

(* round_up_pow2 makes Capacity a power of two, so it divides 2^w; a vector *)
(* of 2^w bytes cannot exist, so it is smaller.                             *)
ASSUME RingAssumption ==
    /\ Capacity \in Nat \ {0}
    /\ Modulus \in Nat
    /\ \E k \in 2..Modulus : Modulus = Capacity * k
    /\ MaxBytes \in Nat

VARIABLES
    buf,        \* buf_: the byte in each slot, or Stale
    write,      \* write_
    read,       \* read_
    wpc, wn,    \* the producer's place in write(), and its n
    rpc, rn,    \* the consumer's place in read(), and its n
    out,        \* what read() has copied to its caller's buffer so far
    delivered,  \* what the last completed read() returned
    room,       \* room the producer last saw in writable() and has not used
    hand,       \* bytes the consumer last saw in readable() and has not used
    written, consumed

producer == <<wpc, wn, room>>
consumer == <<rpc, rn, out, delivered, hand>>
vars == <<buf, write, read, wpc, wn, rpc, rn, out, delivered, room, hand,
          written, consumed>>

Stale == -1
Slots == 0..(Capacity - 1)

Least(a, b) == IF a < b THEN a ELSE b

Slot(i) == i % Capacity

WrapNever(i) == i                     \* mutant: an index of no width
Wrap(i) == i % Modulus

Readable == Wrap(write - read)

WritableAndOne == Capacity - Readable + 1     \* mutant: full one byte late
Writable == Capacity - Readable

(* How many of n bytes lie before the end of the buffer: the first memcpy. *)
FirstPart(index, n) == Least(n, Capacity - Slot(index))

Init ==
    /\ buf = [s \in Slots |-> Stale]
    /\ write = 0 /\ read = 0
    /\ wpc = "idle" /\ wn = 0
    /\ rpc = "idle" /\ rn = 0
    /\ out = <<>> /\ delivered = <<>>
    /\ room = 0 /\ hand = 0
    /\ written = 0 /\ consumed = 0

-----------------------------------------------------------------------------
(* The producer. *)

LookForRoom ==
    /\ wpc = "idle"
    /\ room' = Writable
    /\ UNCHANGED <<buf, write, read, wpc, wn, consumer, written, consumed>>

WriteLoad(bytes) ==
    /\ wpc = "idle"
    /\ written + bytes <= MaxBytes
    /\ Writable > 0
    /\ wn' = Least(bytes, Writable)
    /\ wpc' = "first"
    /\ UNCHANGED <<buf, write, read, room, consumer, written, consumed>>

WriteFirst ==
    /\ wpc = "first"
    /\ LET offset == Slot(write)
           first  == FirstPart(write, wn)
       IN  buf' = [s \in Slots |-> IF s \in offset..(offset + first - 1)
                                   THEN written + (s - offset)
                                   ELSE buf[s]]
    /\ wpc' = "second"
    /\ UNCHANGED <<write, read, wn, room, consumer, written, consumed>>

WriteSecond ==
    /\ wpc = "second"
    /\ LET first == FirstPart(write, wn)
       IN  buf' = [s \in Slots |-> IF s < wn - first
                                   THEN written + first + s
                                   ELSE buf[s]]
    /\ wpc' = "publish"
    /\ UNCHANGED <<write, read, wn, room, consumer, written, consumed>>

WritePublish ==
    /\ wpc = "publish"
    /\ write' = Wrap(write + wn)
    /\ written' = written + wn
    /\ room' = IF room > wn THEN room - wn ELSE 0
    /\ wpc' = "idle"
    /\ wn' = 0
    /\ UNCHANGED <<buf, read, consumer, consumed>>

-----------------------------------------------------------------------------
(* The consumer. *)

LookInHand ==
    /\ rpc = "idle"
    /\ hand' = Readable
    /\ UNCHANGED <<buf, write, read, producer, rpc, rn, out, delivered,
                   written, consumed>>

ReadLoad(bytes) ==
    /\ rpc = "idle"
    /\ Readable > 0
    /\ rn' = Least(bytes, Readable)
    /\ rpc' = "first"
    /\ UNCHANGED <<buf, write, read, producer, out, delivered, hand,
                   written, consumed>>

ReadFirstFromZero ==      \* mutant: the copy ignores the offset
    /\ rpc = "first"
    /\ out' = [i \in 1..FirstPart(read, rn) |-> buf[i - 1]]
    /\ rpc' = "second"
    /\ UNCHANGED <<buf, write, read, producer, rn, delivered, hand,
                   written, consumed>>

ReadFirst ==
    /\ rpc = "first"
    /\ out' = [i \in 1..FirstPart(read, rn) |-> buf[Slot(read) + i - 1]]
    /\ rpc' = "second"
    /\ UNCHANGED <<buf, write, read, producer, rn, delivered, hand,
                   written, consumed>>

ReadSecond ==
    /\ rpc = "second"
    /\ LET first == FirstPart(read, rn)
       IN  out' = [i \in 1..rn |-> IF i <= first THEN out[i]
                                                 ELSE buf[i - first - 1]]
    /\ rpc' = "publish"
    /\ UNCHANGED <<buf, write, read, producer, rn, delivered, hand,
                   written, consumed>>

ReadPublish ==
    /\ rpc = "publish"
    /\ read' = Wrap(read + rn)
    /\ consumed' = consumed + rn
    /\ delivered' = out
    /\ hand' = IF hand > rn THEN hand - rn ELSE 0
    /\ rpc' = "idle"
    /\ rn' = 0
    /\ out' = <<>>
    /\ UNCHANGED <<buf, write, producer, written>>

-----------------------------------------------------------------------------
(* reset() is legal only when both sides are stopped.  Bytes are numbered   *)
(* from zero again, so what is still in the buffer is Stale.                *)
Reset ==
    /\ wpc = "idle" /\ rpc = "idle"
    /\ write' = 0 /\ read' = 0
    /\ written' = 0 /\ consumed' = 0
    /\ buf' = [s \in Slots |-> Stale]
    /\ room' = 0 /\ hand' = 0
    /\ UNCHANGED <<wpc, wn, rpc, rn, out, delivered>>

Producer ==
    \/ LookForRoom
    \/ \E bytes \in 1..Capacity : WriteLoad(bytes)
    \/ WriteFirst
    \/ WriteSecond
    \/ WritePublish

Consumer ==
    \/ LookInHand
    \/ \E bytes \in 1..Capacity : ReadLoad(bytes)
    \/ ReadFirst
    \/ ReadSecond
    \/ ReadPublish

Next == Producer \/ Consumer \/ Reset

Spec == Init /\ [][Next]_vars

-----------------------------------------------------------------------------
TypeOK ==
    /\ buf \in [Slots -> Int]
    /\ write \in 0..(Modulus - 1) /\ read \in 0..(Modulus - 1)
    /\ wpc \in {"idle", "first", "second", "publish"}
    /\ rpc \in {"idle", "first", "second", "publish"}
    /\ wn \in 0..Capacity /\ rn \in 0..Capacity
    /\ out \in Seq(Int) /\ delivered \in Seq(Int)
    /\ room \in 0..Capacity /\ hand \in 0..Capacity
    /\ written \in Nat /\ consumed \in Nat

(* The slots each memcpy in progress touches. *)
Part(pc, index, n) ==
    LET first == FirstPart(index, n)
    IN  CASE pc = "first"  -> Slot(index)..(Slot(index) + first - 1)
          [] pc = "second" -> 0..(n - first - 1)
          [] OTHER         -> {}

(* ring.hpp:69-75 and 96-102: while one thread copies into the buffer and   *)
(* the other out of it, no slot is in both copies.                          *)
CopiesNeverOverlap == Part(wpc, write, wn) \cap Part(rpc, read, rn) = {}

(* ring.hpp:86-106: a read about to publish holds the next rn bytes the     *)
(* producer wrote, in order: none skipped, none repeated, none overwritten. *)
ReadsWhatWasWritten ==
    rpc = "publish" => out = [i \in 1..rn |-> consumed + i - 1]

(* ring.hpp:42-55: room seen in writable() is still there at the write, and *)
(* bytes seen in readable() at the read.  pump_once (passthrough.cpp:69)    *)
(* ignores what write() returned and relies on it.                          *)
SeenIsStillThere ==
    /\ wpc = "idle" => room <= Writable
    /\ rpc = "idle" => hand <= Readable

(* ring.hpp:85-111: a thread at work in the buffer is alone in its part of   *)
(* it, and what it reckoned with stays true until it publishes.             *)
CopiesAreSafe == CopiesNeverOverlap /\ SeenIsStillThere

(* ring.hpp:12-24: the ring is a bounded FIFO pipe.  What it holds is what  *)
(* its slots hold between the two indices, not what history says it should. *)
Pipe == INSTANCE ByteFifo WITH
            items <- [i \in 1..Readable |-> buf[Slot(read + i - 1)]],
            next  <- written
IsAFifo == Pipe!Spec
=============================================================================
