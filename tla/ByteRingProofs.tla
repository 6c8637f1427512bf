--------------------------- MODULE ByteRingProofs ---------------------------
(***************************************************************************)
(* For every capacity, index width and bound: the ring's two copies never  *)
(* overlap, a read returns what was written, and what a side saw in        *)
(* readable() or writable() is there when it acts on it.                   *)
(*                                                                         *)
(* The indices are the history's counts modulo Modulus (IndexInv), so the  *)
(* wrapped difference is the number of bytes in the ring; every unread     *)
(* byte is in the slot its number falls in (ContentInv), and so are the    *)
(* bytes a read has copied (OutInv).                                       *)
(***************************************************************************)
EXTENDS ByteRing, SequenceTheorems, TLAPS

(* How many bytes past `written` the write in progress has copied.          *)
Copied == CASE wpc = "second"  -> FirstPart(write, wn)
            [] wpc = "publish" -> wn
            [] OTHER           -> 0

IndexInv ==
    /\ write = Wrap(written) /\ read = Wrap(consumed)
    /\ consumed <= written /\ written <= consumed + Capacity

CallInv ==
    /\ wpc = "idle" => wn = 0
    /\ wpc # "idle" => wn > 0
    /\ rpc = "idle" => rn = 0
    /\ rpc # "idle" => rn > 0
    /\ written + wn <= consumed + Capacity
    /\ consumed + rn <= written

ContentInv == \A k \in consumed..(written + Copied - 1) : buf[Slot(k)] = k

OutInv ==
    /\ rpc = "second" =>
         out = [i \in 1..FirstPart(read, rn) |-> consumed + i - 1]
    /\ rpc = "publish" => out = [i \in 1..rn |-> consumed + i - 1]

SeenInv ==
    /\ room <= Capacity - (written - consumed)
    /\ hand <= written - consumed

Inv == TypeOK /\ IndexInv /\ CallInv /\ ContentInv /\ OutInv /\ SeenInv

-----------------------------------------------------------------------------
(* Arithmetic of wrapped indices.                                           *)

(* A quotient and a remainder below the modulus are the remainder.          *)
LEMMA Remainder ==
  ASSUME NEW M \in Nat \ {0}, NEW q \in Int, NEW r \in 0..(M - 1)
  PROVE  (M * q + r) % M = r
  OBVIOUS

LEMMA Division ==
  ASSUME NEW M \in Nat \ {0}, NEW a \in Int
  PROVE  /\ a % M \in 0..(M - 1)
         /\ \E q \in Int : a = M * q + (a % M)
<1>1. /\ a % M \in 0..(M - 1)
      /\ a \div M \in Int
      /\ a = M * (a \div M) + (a % M)
  OBVIOUS
<1> QED  BY <1>1

LEMMA Modulo ==
  /\ Capacity \in Nat \ {0} /\ Modulus \in Nat \ {0}
  /\ Capacity < Modulus
  /\ \E k \in Nat : Modulus = Capacity * k
<1>1. PICK k \in 2..Modulus : Modulus = Capacity * k
  BY RingAssumption
<1>2. Capacity * k >= Capacity * 2
  BY <1>1, RingAssumption
<1> QED  BY <1>1, <1>2, RingAssumption

LEMMA Sizes ==
  Capacity \in Nat /\ Capacity > 0 /\ Modulus \in Nat /\ Modulus > 0
BY Modulo

LEMMA WrapDivision ==
  ASSUME NEW n \in Int
  PROVE  /\ Wrap(n) \in 0..(Modulus - 1)
         /\ \E q \in Int : n = Modulus * q + Wrap(n)
<1>1. Modulus \in Nat \ {0}
  BY Modulo
<1> QED  BY <1>1, Division DEF Wrap

LEMMA WrapRemainder ==
  ASSUME NEW n \in Int, NEW q \in Int, NEW r \in 0..(Modulus - 1),
         n = Modulus * q + r
  PROVE  Wrap(n) = r
<1>1. Modulus \in Nat \ {0}
  BY Modulo
<1>2. (Modulus * q + r) % Modulus = r
  BY <1>1, Remainder
<1> QED  BY <1>2 DEF Wrap

LEMMA SlotDivision ==
  ASSUME NEW n \in Int
  PROVE  /\ Slot(n) \in 0..(Capacity - 1)
         /\ \E q \in Int : n = Capacity * q + Slot(n)
<1>1. Capacity \in Nat \ {0}
  BY Modulo
<1> QED  BY <1>1, Division DEF Slot

LEMMA SlotRemainder ==
  ASSUME NEW n \in Int, NEW q \in Int, NEW r \in 0..(Capacity - 1),
         n = Capacity * q + r
  PROVE  Slot(n) = r
<1>1. Capacity \in Nat \ {0}
  BY Modulo
<1>2. (Capacity * q + r) % Capacity = r
  BY <1>1, Remainder
<1> QED  BY <1>2 DEF Slot

LEMMA Distribute ==
  ASSUME NEW c \in Int, NEW x \in Int, NEW y \in Int
  PROVE  c * (x + y) = c * x + c * y /\ c * (x - y) = c * x - c * y
  OBVIOUS

(* ring.hpp:46-55: the wrapped difference of two wrapped counts is how far  *)
(* apart they are.                                                          *)
LEMMA WrappedDifference ==
  ASSUME NEW a \in Nat, NEW b \in Nat, b <= a, a <= b + Capacity
  PROVE  Wrap(Wrap(a) - Wrap(b)) = a - b
<1>1. PICK qa \in Int : a = Modulus * qa + Wrap(a)
  BY WrapDivision
<1>2. PICK qb \in Int : b = Modulus * qb + Wrap(b)
  BY WrapDivision
<1>3. Wrap(a) \in Int /\ Wrap(b) \in Int
  BY WrapDivision, Modulo
<1>4. a - b \in 0..(Modulus - 1)
  BY Modulo
<1>5. Modulus * (qb - qa) = Modulus * qb - Modulus * qa
  BY Distribute, Modulo
<1>6. Modulus * qa \in Int /\ Modulus * qb \in Int
  BY Modulo
<1>7. Wrap(a) - Wrap(b) = Modulus * (qb - qa) + (a - b)
  BY <1>1, <1>2, <1>3, <1>5, <1>6
<1>8. Wrap(a) - Wrap(b) \in Int /\ qb - qa \in Int
  BY <1>3
<1> QED  BY <1>4, <1>7, <1>8, WrapRemainder

(* ring.hpp:77 and 104: publishing n more is wrapping the count and n.      *)
LEMMA WrappedSum ==
  ASSUME NEW a \in Nat, NEW n \in Nat
  PROVE  Wrap(Wrap(a) + n) = Wrap(a + n)
<1>1. PICK q \in Int : a = Modulus * q + Wrap(a)
  BY WrapDivision
<1>2. PICK p \in Int : a + n = Modulus * p + Wrap(a + n)
  BY WrapDivision
<1>3. Wrap(a) \in Int /\ Wrap(a + n) \in 0..(Modulus - 1)
  BY WrapDivision, Modulo
<1>4. Modulus * (p - q) = Modulus * p - Modulus * q
  BY Distribute, Modulo
<1>5. Modulus * p \in Int /\ Modulus * q \in Int
  BY Modulo
<1>6. Wrap(a) + n = Modulus * (p - q) + Wrap(a + n)
  BY <1>1, <1>2, <1>3, <1>4, <1>5, Modulo
<1>7. Wrap(a) + n \in Int /\ p - q \in Int
  BY <1>3
<1> QED  BY <1>3, <1>6, <1>7, WrapRemainder

(* ring.hpp:69 and 96: masking a wrapped index is masking the count.        *)
LEMMA SlotOfIndex ==
  ASSUME NEW n \in Nat
  PROVE  Slot(Wrap(n)) = Slot(n)
<1>1. PICK q \in Int : n = Modulus * q + Wrap(n)
  BY WrapDivision
<1>2. Wrap(n) \in Int
  BY WrapDivision, Modulo
<1>3. PICK p \in Int : Wrap(n) = Capacity * p + Slot(Wrap(n))
  BY <1>2, SlotDivision
<1>4. Slot(Wrap(n)) \in 0..(Capacity - 1)
  BY <1>2, SlotDivision
<1>5. PICK k \in Nat : Modulus = Capacity * k
  BY Modulo
<1>6. Modulus * q = Capacity * (k * q)
  BY <1>5, Modulo
<1>7. k * q \in Int
  OBVIOUS
<1>8. Capacity * (k * q + p) = Capacity * (k * q) + Capacity * p
  BY <1>7, Distribute, Modulo
<1>9. Capacity * (k * q) \in Int /\ Capacity * p \in Int
  BY <1>7, Modulo
<1>10. n = Capacity * (k * q + p) + Slot(Wrap(n))
  BY <1>1, <1>3, <1>4, <1>6, <1>8, <1>9, Modulo
<1>11. k * q + p \in Int
  BY <1>7
<1> QED  BY <1>4, <1>10, <1>11, SlotRemainder

LEMMA SlotType ==
  ASSUME NEW n \in Int
  PROVE  Slot(n) \in Slots /\ Slot(n) \in Int
  BY SlotDivision, Modulo DEF Slots

(* Slots follow one another up to the end of the buffer, and go on at its   *)
(* start.                                                                   *)
LEMMA SlotOfSum ==
  ASSUME NEW n \in Nat, NEW j \in Nat
  PROVE  /\ Slot(n) + j < Capacity => Slot(n + j) = Slot(n) + j
         /\ Slot(n) + j >= Capacity /\ Slot(n) + j < 2 * Capacity
              => Slot(n + j) = Slot(n) + j - Capacity
<1>1. PICK q \in Int : n = Capacity * q + Slot(n)
  BY SlotDivision
<1>2. Slot(n) \in 0..(Capacity - 1)
  BY SlotDivision
<1>3. Capacity * q \in Int
  BY Modulo
<1>4. n + j \in Int /\ q + 1 \in Int
  OBVIOUS
<1>5. ASSUME Slot(n) + j < Capacity
      PROVE  Slot(n + j) = Slot(n) + j
  <2>1. n + j = Capacity * q + (Slot(n) + j)
    BY <1>1, <1>2, <1>3, Modulo
  <2>2. Slot(n) + j \in 0..(Capacity - 1)
    BY <1>2, <1>5, Modulo
  <2> QED  BY <1>4, <2>1, <2>2, SlotRemainder
<1>6. ASSUME Slot(n) + j >= Capacity, Slot(n) + j < 2 * Capacity
      PROVE  Slot(n + j) = Slot(n) + j - Capacity
  <2>1. Capacity * (q + 1) = Capacity * q + Capacity
    BY Modulo
  <2>2. n + j = Capacity * (q + 1) + (Slot(n) + j - Capacity)
    BY <1>1, <1>2, <1>3, <2>1, Modulo
  <2>3. Slot(n) + j - Capacity \in 0..(Capacity - 1)
    BY <1>2, <1>6, Modulo
  <2> QED  BY <1>4, <2>2, <2>3, SlotRemainder
<1> QED  BY <1>5, <1>6

(* Bytes less than a capacity apart are in different slots.                 *)
LEMMA SlotsDiffer ==
  ASSUME NEW a \in Nat, NEW b \in Nat, a < b, b < a + Capacity
  PROVE  Slot(a) # Slot(b)
<1> DEFINE j == b - a
<1>1. j \in Nat /\ j > 0 /\ j < Capacity /\ b = a + j
  BY Modulo
<1>2. Slot(a) \in 0..(Capacity - 1)
  BY SlotDivision
<1> HIDE DEF j
<1>3. Slot(a) + j < Capacity => Slot(b) = Slot(a) + j
  BY <1>1, SlotOfSum
<1>4. Slot(a) + j >= Capacity => Slot(b) = Slot(a) + j - Capacity
  BY <1>1, <1>2, SlotOfSum, Modulo
<1> QED  BY <1>1, <1>2, <1>3, <1>4, Modulo

-----------------------------------------------------------------------------
(* What the invariant says of the ring in terms of the counts.              *)

LEMMA ReadableIs ==
  ASSUME TypeOK, IndexInv
  PROVE  /\ Readable = written - consumed
         /\ Writable = Capacity - (written - consumed)
         /\ Readable \in 0..Capacity /\ Writable \in 0..Capacity
<1>1. /\ written \in Nat /\ consumed \in Nat
      /\ write = Wrap(written) /\ read = Wrap(consumed)
      /\ consumed <= written /\ written <= consumed + Capacity
  BY DEF TypeOK, IndexInv
<1>2. Readable = written - consumed
  BY <1>1, WrappedDifference DEF Readable
<1> QED  BY <1>1, <1>2, Modulo DEF Writable

(* The two memcpys of a copy of n bytes from the c-th on.                   *)
LEMMA CopySplit ==
  ASSUME NEW c \in Nat, NEW n \in 0..Capacity
  PROVE  /\ Slot(Wrap(c)) = Slot(c)
         /\ Slot(c) \in 0..(Capacity - 1)
         /\ FirstPart(Wrap(c), n) \in 0..n
         /\ FirstPart(Wrap(c), n) <= Capacity - Slot(c)
         /\ FirstPart(Wrap(c), n) < n =>
              FirstPart(Wrap(c), n) = Capacity - Slot(c)
         /\ \A j \in 0..(FirstPart(Wrap(c), n) - 1) : Slot(c + j) = Slot(c) + j
         /\ \A j \in FirstPart(Wrap(c), n)..(n - 1) :
              Slot(c + j) = j - FirstPart(Wrap(c), n)
<1> DEFINE f == FirstPart(Wrap(c), n)
<1>1. Slot(Wrap(c)) = Slot(c)
  BY SlotOfIndex
<1>2. Slot(c) \in 0..(Capacity - 1)
  BY SlotDivision
<1>3. f = Least(n, Capacity - Slot(c))
  BY <1>1 DEF FirstPart
<1>4. /\ f \in 0..n /\ f <= Capacity - Slot(c)
      /\ f < n => f = Capacity - Slot(c)
  BY <1>2, <1>3, Sizes DEF Least
<1> HIDE DEF f
<1>5. ASSUME NEW j \in 0..(f - 1)
      PROVE  Slot(c + j) = Slot(c) + j
  <2>1. j \in Nat /\ Slot(c) + j < Capacity
    BY <1>2, <1>4, Sizes
  <2> QED  BY <2>1, SlotOfSum
<1>6. ASSUME NEW j \in f..(n - 1)
      PROVE  Slot(c + j) = j - f
  <2>1. f = Capacity - Slot(c)
    BY <1>2, <1>4, Sizes
  <2>2. j \in Nat /\ Slot(c) + j >= Capacity /\ Slot(c) + j < 2 * Capacity
    BY <1>2, <1>4, <2>1, Sizes
  <2>3. Slot(c + j) = Slot(c) + j - Capacity
    BY <2>2, SlotOfSum
  <2> QED  BY <1>2, <2>1, <2>2, <2>3, Sizes
<1> QED  BY <1>1, <1>2, <1>4, <1>5, <1>6 DEF f

(* A slot the n bytes from the c-th on are copied to is that of one of them.*)
LEMMA CopiedSlot ==
  ASSUME NEW c \in Nat, NEW n \in 0..Capacity, NEW s \in Slots
  PROVE  /\ s \in Slot(c)..(Slot(c) + FirstPart(Wrap(c), n) - 1) =>
              \E j \in 0..(n - 1) : /\ j = s - Slot(c)
                                    /\ s = Slot(c + j)
         /\ s < n - FirstPart(Wrap(c), n) =>
              \E j \in 0..(n - 1) : /\ j = FirstPart(Wrap(c), n) + s
                                    /\ s = Slot(c + j)
<1> DEFINE f == FirstPart(Wrap(c), n)
<1>1. /\ Slot(c) \in 0..(Capacity - 1) /\ f \in 0..n
      /\ \A j \in 0..(f - 1) : Slot(c + j) = Slot(c) + j
      /\ \A j \in f..(n - 1) : Slot(c + j) = j - f
  BY CopySplit
<1>2. s \in 0..(Capacity - 1)
  BY DEF Slots
<1> HIDE DEF f
<1>3. ASSUME s \in Slot(c)..(Slot(c) + f - 1)
      PROVE  \E j \in 0..(n - 1) : j = s - Slot(c) /\ s = Slot(c + j)
  <2>1. (s - Slot(c)) \in 0..(f - 1) /\ (s - Slot(c)) \in 0..(n - 1)
    BY <1>1, <1>2, <1>3, Sizes
  <2>2. Slot(c + (s - Slot(c))) = s
    BY <1>1, <1>2, <2>1, Sizes
  <2> QED  BY <2>1, <2>2
<1>4. ASSUME s < n - f
      PROVE  \E j \in 0..(n - 1) : j = f + s /\ s = Slot(c + j)
  <2>1. (f + s) \in f..(n - 1) /\ (f + s) \in 0..(n - 1)
    BY <1>1, <1>2, <1>4, Sizes
  <2>2. Slot(c + (f + s)) = s
    BY <1>1, <1>2, <2>1, Sizes
  <2> QED  BY <2>1, <2>2
<1> QED  BY <1>3, <1>4 DEF f

-----------------------------------------------------------------------------
(* The invariant is inductive: one lemma for each side, one step for each   *)
(* action.                                                                  *)

LEMMA InvInit == Init => Inv
<1> SUFFICES ASSUME Init PROVE Inv
  OBVIOUS
<1>1. write = Wrap(written) /\ read = Wrap(consumed)
  <2>1. 0 = Modulus * 0 + 0 /\ 0 \in 0..(Modulus - 1)
    BY Sizes
  <2> QED  BY <2>1, WrapRemainder DEF Init
<1>2. TypeOK
  BY Sizes DEF Init, TypeOK, Stale
<1>3. IndexInv /\ CallInv /\ SeenInv
  BY <1>1, Sizes DEF Init, IndexInv, CallInv, SeenInv
<1>4. ContentInv
  BY DEF Init, ContentInv, Copied
<1>5. OutInv
  BY DEF Init, OutInv
<1> QED  BY <1>2, <1>3, <1>4, <1>5 DEF Inv

LEMMA InvProducer ==
  ASSUME Inv, Producer
  PROVE  Inv'
<1> USE DEF Inv
<1>0. /\ written \in Nat /\ consumed \in Nat /\ wn \in 0..Capacity
      /\ write = Wrap(written) /\ buf \in [Slots -> Int]
      /\ consumed <= written /\ written + wn <= consumed + Capacity
  BY DEF TypeOK, IndexInv, CallInv
<1>1. CASE LookForRoom
  <2>1. TypeOK' /\ IndexInv' /\ CallInv'
    BY <1>1, ReadableIs DEF LookForRoom, TypeOK, IndexInv, CallInv, consumer
  <2>2. ContentInv'
    BY <1>1 DEF LookForRoom, ContentInv, Copied
  <2>3. OutInv' /\ SeenInv'
    BY <1>1, ReadableIs, Sizes
    DEF LookForRoom, OutInv, SeenInv, consumer, TypeOK, FirstPart
  <2> QED  BY <2>1, <2>2, <2>3
<1>2. ASSUME NEW bytes \in 1..Capacity, WriteLoad(bytes)
      PROVE  Inv'
  <2>1. wn' \in 1..Capacity /\ written + wn' <= consumed + Capacity
    BY <1>0, <1>2, ReadableIs, Sizes DEF WriteLoad, Least
  <2>2. /\ wpc' = "first" /\ wn' > 0
        /\ UNCHANGED <<buf, write, read, room, consumer, written, consumed>>
    BY <1>2, <2>1 DEF WriteLoad
  <2>4. TypeOK'
    BY <2>1, <2>2 DEF TypeOK, consumer
  <2>5. IndexInv' /\ CallInv'
    BY <2>1, <2>2 DEF IndexInv, CallInv, consumer
  <2>3. ContentInv'
    BY <1>2 DEF WriteLoad, ContentInv, Copied
  <2>6. OutInv' /\ SeenInv'
    BY <1>2 DEF WriteLoad, OutInv, SeenInv, consumer, FirstPart
  <2> QED  BY <2>3, <2>4, <2>5, <2>6
<1>3. CASE WriteFirst
  <2> DEFINE first == FirstPart(write, wn)
  <2>1. /\ Slot(write) = Slot(written) /\ Slot(written) \in 0..(Capacity - 1)
        /\ first \in 0..wn
        /\ \A j \in 0..(first - 1) : Slot(written + j) = Slot(written) + j
    BY <1>0, CopySplit
  <2>2. \A s \in Slots :
          s \in Slot(written)..(Slot(written) + first - 1) =>
            \E j \in 0..(wn - 1) : j = s - Slot(written) /\ s = Slot(written + j)
    BY <1>0, CopiedSlot
  <2>3. buf' = [s \in Slots |->
                 IF s \in Slot(written)..(Slot(written) + first - 1)
                 THEN written + (s - Slot(written)) ELSE buf[s]]
    BY <1>3, <2>1 DEF WriteFirst
  <2> HIDE DEF first
  <2>4. ASSUME NEW k \in consumed..(written - 1)
        PROVE  buf'[Slot(k)] = k
    <3>1. k \in Nat /\ Slot(k) \in Slots /\ buf[Slot(k)] = k
      BY <1>0, <1>3, SlotType DEF ContentInv, Copied, WriteFirst
    <3>2. \A j \in 0..(wn - 1) : Slot(k) # Slot(written + j)
      BY <1>0, <3>1, SlotsDiffer, Sizes
    <3> QED  BY <2>2, <2>3, <3>1, <3>2
  <2>5. ASSUME NEW k \in written..(written + first - 1)
        PROVE  buf'[Slot(k)] = k
    <3>1. PICK j \in 0..(first - 1) : k = written + j
      BY <1>0, <2>1
    <3>2. Slot(k) = Slot(written) + j
      BY <2>1, <3>1
    <3>3. Slot(k) \in Slots
      BY <1>0, <3>1, SlotType
    <3> QED  BY <1>0, <2>1, <2>3, <3>1, <3>2, <3>3
  <2>6. ContentInv'
    <3>1. Copied' = first /\ written' = written /\ consumed' = consumed
      BY <1>3 DEF WriteFirst, Copied, consumer, first, FirstPart
    <3>2. ASSUME NEW k \in consumed..(written + first - 1)
          PROVE  k \in consumed..(written - 1) \/ k \in written..(written + first - 1)
      BY <1>0, <2>1
    <3> QED  BY <2>4, <2>5, <3>1, <3>2 DEF ContentInv
  <2>7. buf' \in [Slots -> Int]
    BY <1>0, <2>1, <2>3 DEF Slots
  <2>8. TypeOK' /\ IndexInv' /\ CallInv'
    BY <1>3, <2>7 DEF WriteFirst, TypeOK, IndexInv, CallInv, consumer
  <2>9. OutInv' /\ SeenInv'
    BY <1>3 DEF WriteFirst, OutInv, SeenInv, consumer, FirstPart
  <2> QED  BY <2>6, <2>8, <2>9
<1>4. CASE WriteSecond
  <2> DEFINE first == FirstPart(write, wn)
  <2>1. /\ Slot(written) \in 0..(Capacity - 1)
        /\ first \in 0..wn
        /\ \A j \in first..(wn - 1) : Slot(written + j) = j - first
    BY <1>0, CopySplit
  <2>2. \A s \in Slots : s < wn - first =>
          \E j \in 0..(wn - 1) : j = first + s /\ s = Slot(written + j)
    BY <1>0, CopiedSlot
  <2>3. buf' = [s \in Slots |-> IF s < wn - first THEN written + first + s
                                                  ELSE buf[s]]
    BY <1>4 DEF WriteSecond
  <2>4. Copied = first
    BY <1>4 DEF WriteSecond, Copied
  <2> HIDE DEF first
  <2>5. ASSUME NEW k \in consumed..(written + first - 1)
        PROVE  buf'[Slot(k)] = k
    <3>1. k \in Nat /\ Slot(k) \in Slots /\ buf[Slot(k)] = k
      BY <1>0, <2>1, <2>4, SlotType DEF ContentInv
    <3>2. \A j \in first..(wn - 1) : Slot(k) # Slot(written + j)
      BY <1>0, <2>1, <3>1, SlotsDiffer, Sizes
    <3>3. ~(Slot(k) < wn - first)
      <4> SUFFICES ASSUME Slot(k) < wn - first PROVE FALSE
        OBVIOUS
      <4>1. PICK j \in 0..(wn - 1) : j = first + Slot(k) /\ Slot(k) = Slot(written + j)
        BY <2>2, <3>1
      <4>2. j \in first..(wn - 1)
        BY <1>0, <2>1, <3>1, <4>1, SMTT(30) DEF Slots
      <4> QED  BY <3>2, <4>1, <4>2
    <3> QED  BY <2>3, <3>1, <3>3
  <2>6. ASSUME NEW k \in (written + first)..(written + wn - 1)
        PROVE  buf'[Slot(k)] = k
    <3>1. PICK j \in first..(wn - 1) : k = written + j
      BY <1>0, <2>1
    <3>2. Slot(k) = j - first
      BY <2>1, <3>1
    <3>3. Slot(k) \in Slots
      BY <1>0, <2>1, <3>1, SlotType
    <3> QED  BY <1>0, <2>1, <2>3, <3>1, <3>2, <3>3
  <2>7. ContentInv'
    <3>1. Copied' = wn /\ written' = written /\ consumed' = consumed
      BY <1>4 DEF WriteSecond, Copied, consumer
    <3>2. ASSUME NEW k \in consumed..(written + wn - 1)
          PROVE  \/ k \in consumed..(written + first - 1)
                 \/ k \in (written + first)..(written + wn - 1)
      BY <1>0, <2>1
    <3> QED  BY <2>5, <2>6, <3>1, <3>2 DEF ContentInv
  <2>8. buf' \in [Slots -> Int]
    BY <1>0, <2>1, <2>3 DEF Slots
  <2>9. TypeOK' /\ IndexInv' /\ CallInv'
    BY <1>4, <2>8 DEF WriteSecond, TypeOK, IndexInv, CallInv, consumer
  <2>10. OutInv' /\ SeenInv'
    BY <1>4 DEF WriteSecond, OutInv, SeenInv, consumer, FirstPart
  <2> QED  BY <2>7, <2>9, <2>10
<1>5. CASE WritePublish
  <2>1. write' = Wrap(written') /\ write' \in 0..(Modulus - 1)
    BY <1>0, <1>5, WrappedSum, WrapDivision DEF WritePublish
  <2>2. TypeOK' /\ IndexInv' /\ CallInv'
    BY <1>0, <1>5, <2>1, Sizes, SMTT(30)
    DEF WritePublish, TypeOK, IndexInv, CallInv, consumer
  <2>3. ContentInv'
    BY <1>0, <1>5 DEF WritePublish, ContentInv, Copied, consumer
  <2>4. OutInv'
    BY <1>5 DEF WritePublish, OutInv, consumer, FirstPart
  <2>5. SeenInv'
    BY <1>0, <1>5, Sizes DEF WritePublish, SeenInv, TypeOK, consumer
  <2> QED  BY <2>2, <2>3, <2>4, <2>5
<1> QED  BY <1>1, <1>2, <1>3, <1>4, <1>5 DEF Producer

LEMMA InvConsumer ==
  ASSUME Inv, Consumer
  PROVE  Inv'
<1> USE DEF Inv
<1>0. /\ written \in Nat /\ consumed \in Nat /\ rn \in 0..Capacity
      /\ read = Wrap(consumed) /\ buf \in [Slots -> Int]
      /\ consumed + rn <= written /\ written <= consumed + Capacity
  BY DEF TypeOK, IndexInv, CallInv
<1>00. Copied \in Nat
  BY <1>0, CopySplit, Sizes, SMTT(30) DEF Copied, TypeOK, IndexInv
<1>1. CASE LookInHand
  <2>1. TypeOK' /\ IndexInv' /\ CallInv'
    BY <1>1, ReadableIs DEF LookInHand, TypeOK, IndexInv, CallInv, producer
  <2>2. ContentInv'
    BY <1>1 DEF LookInHand, ContentInv, Copied, producer, FirstPart
  <2>3. OutInv' /\ SeenInv'
    BY <1>1, ReadableIs DEF LookInHand, OutInv, SeenInv, producer, FirstPart
  <2> QED  BY <2>1, <2>2, <2>3
<1>2. ASSUME NEW bytes \in 1..Capacity, ReadLoad(bytes)
      PROVE  Inv'
  <2>1. rn' \in 1..Capacity /\ consumed + rn' <= written
    BY <1>0, <1>2, ReadableIs, Sizes DEF ReadLoad, Least
  <2>2. /\ rpc' = "first" /\ rn' > 0
        /\ UNCHANGED <<buf, write, read, producer, out, delivered, hand, written,
                       consumed>>
    BY <1>2, <2>1 DEF ReadLoad
  <2>6. TypeOK'
    BY <2>1, <2>2 DEF TypeOK, producer
  <2>7. IndexInv' /\ CallInv'
    BY <2>1, <2>2 DEF IndexInv, CallInv, producer
  <2>3. ContentInv'
    BY <1>2 DEF ReadLoad, ContentInv, Copied, producer, FirstPart
  <2>4. OutInv' /\ SeenInv'
    BY <1>2 DEF ReadLoad, OutInv, SeenInv, producer
  <2> QED  BY <2>3, <2>4, <2>6, <2>7
<1>3. CASE ReadFirst
  <2> DEFINE first == FirstPart(read, rn)
  <2>1. /\ Slot(read) = Slot(consumed) /\ Slot(consumed) \in 0..(Capacity - 1)
        /\ first \in 0..rn
        /\ \A j \in 0..(first - 1) : Slot(consumed + j) = Slot(consumed) + j
    BY <1>0, CopySplit
  <2>2. out' = [i \in 1..first |-> buf[Slot(consumed) + i - 1]]
    BY <1>3, <2>1 DEF ReadFirst
  <2> HIDE DEF first
  <2>3. ASSUME NEW i \in 1..first
        PROVE  buf[Slot(consumed) + i - 1] = consumed + i - 1
    <3>1. Slot(consumed + (i - 1)) = Slot(consumed) + (i - 1)
      BY <2>1
    <3>2. consumed + (i - 1) \in consumed..(written + Copied - 1)
      BY <1>0, <1>00, <2>1
    <3>3. buf[Slot(consumed + (i - 1))] = consumed + (i - 1)
      BY <3>2 DEF ContentInv
    <3> QED  BY <1>0, <2>1, <3>1, <3>3
  <2>4. out' = [i \in 1..first |-> consumed + i - 1]
    BY <2>2, <2>3
  <2>5. out' \in Seq(Int)
    <3>1. first \in Nat /\ \A i \in 1..first : consumed + i - 1 \in Int
      BY <1>0, <2>1
    <3> QED  BY <2>4, <3>1, IsASeq
  <2>6. TypeOK' /\ IndexInv' /\ CallInv'
    BY <1>3, <2>5 DEF ReadFirst, TypeOK, IndexInv, CallInv, producer
  <2>7. ContentInv'
    BY <1>3 DEF ReadFirst, ContentInv, Copied, producer, FirstPart
  <2>8. OutInv' /\ SeenInv'
    BY <1>3, <2>4 DEF ReadFirst, OutInv, SeenInv, producer, first, FirstPart
  <2> QED  BY <2>6, <2>7, <2>8
<1>4. CASE ReadSecond
  <2> DEFINE first == FirstPart(read, rn)
  <2>1. /\ first \in 0..rn
        /\ \A j \in first..(rn - 1) : Slot(consumed + j) = j - first
    BY <1>0, CopySplit
  <2>2. out' = [i \in 1..rn |-> IF i <= first THEN out[i] ELSE buf[i - first - 1]]
    BY <1>4 DEF ReadSecond
  <2>3. out = [i \in 1..first |-> consumed + i - 1]
    BY <1>4 DEF ReadSecond, OutInv
  <2> HIDE DEF first
  <2>4. ASSUME NEW i \in (first + 1)..rn
        PROVE  buf[i - first - 1] = consumed + i - 1
    <3>1. Slot(consumed + (i - 1)) = (i - 1) - first
      BY <1>0, <2>1
    <3>2. consumed + (i - 1) \in consumed..(written + Copied - 1)
      BY <1>0, <1>00, <2>1
    <3>3. buf[Slot(consumed + (i - 1))] = consumed + (i - 1)
      BY <3>2 DEF ContentInv
    <3> QED  BY <1>0, <2>1, <3>1, <3>3
  <2>5. out' = [i \in 1..rn |-> consumed + i - 1]
    <3>1. ASSUME NEW i \in 1..rn
          PROVE  (IF i <= first THEN out[i] ELSE buf[i - first - 1])
                   = consumed + i - 1
      <4>1. CASE i <= first
        BY <1>0, <2>1, <2>3, <4>1
      <4>2. CASE ~(i <= first)
        BY <1>0, <2>1, <2>4, <4>2
      <4> QED  BY <4>1, <4>2
    <3> QED  BY <2>2, <3>1
  <2>6. out' \in Seq(Int)
    <3>1. rn \in Nat /\ \A i \in 1..rn : consumed + i - 1 \in Int
      BY <1>0, Sizes
    <3> QED  BY <2>5, <3>1, IsASeq
  <2>7. TypeOK' /\ IndexInv' /\ CallInv'
    BY <1>4, <2>6 DEF ReadSecond, TypeOK, IndexInv, CallInv, producer
  <2>8. ContentInv'
    BY <1>4 DEF ReadSecond, ContentInv, Copied, producer, FirstPart
  <2>9. OutInv' /\ SeenInv'
    BY <1>4, <2>5 DEF ReadSecond, OutInv, SeenInv, producer
  <2> QED  BY <2>7, <2>8, <2>9
<1>5. CASE ReadPublish
  <2>1. read' = Wrap(read + rn) /\ consumed' = consumed + rn
    BY <1>5 DEF ReadPublish
  <2>2. read' = Wrap(consumed') /\ read' \in 0..(Modulus - 1)
    BY <1>0, <2>1, WrappedSum, WrapDivision, Sizes
  <2>3. out' \in Seq(Int)
    BY <1>5, EmptySeq DEF ReadPublish
  <2>4. TypeOK'
    BY <1>0, <1>5, <2>2, <2>3, Sizes DEF ReadPublish, TypeOK, producer
  <2>5. IndexInv' /\ CallInv'
    BY <1>0, <1>5, <2>2, Sizes, SMTT(30)
    DEF ReadPublish, IndexInv, CallInv, TypeOK, producer
  <2>6. ContentInv'
    <3>1. Copied' = Copied /\ written' = written /\ buf' = buf
      BY <1>5 DEF ReadPublish, Copied, producer, FirstPart
    <3>2. \A k \in consumed'..(written + Copied - 1) :
            k \in consumed..(written + Copied - 1)
      BY <1>0, <1>00, <2>1, Sizes
    <3> QED  BY <3>1, <3>2 DEF ContentInv
  <2>7. OutInv' /\ SeenInv'
    BY <1>0, <1>5, Sizes DEF ReadPublish, OutInv, SeenInv, TypeOK, producer
  <2> QED  BY <2>4, <2>5, <2>6, <2>7
<1> QED  BY <1>1, <1>2, <1>3, <1>4, <1>5 DEF Consumer

LEMMA InvReset ==
  ASSUME Inv, Reset
  PROVE  Inv'
<1> USE DEF Inv
<1>1. Wrap(0) = 0
  <2>1. 0 = Modulus * 0 + 0 /\ 0 \in 0..(Modulus - 1)
    BY Sizes
  <2> QED  BY <2>1, WrapRemainder
<1>2. TypeOK'
  BY Sizes DEF Reset, TypeOK, Stale
<1>3. IndexInv' /\ CallInv' /\ SeenInv'
  BY <1>1, Sizes DEF Reset, IndexInv, CallInv, SeenInv
<1>4. ContentInv' /\ OutInv'
  BY DEF Reset, ContentInv, Copied, OutInv
<1> QED  BY <1>2, <1>3, <1>4

LEMMA InvStep == Inv /\ [Next]_vars => Inv'
<1> SUFFICES ASSUME Inv, [Next]_vars PROVE Inv'
  OBVIOUS
<1>1. CASE Next
  BY <1>1, InvProducer, InvConsumer, InvReset DEF Next
<1>2. CASE UNCHANGED vars
  <2>1. TypeOK' /\ IndexInv' /\ CallInv' /\ SeenInv'
    BY <1>2 DEF Inv, vars, TypeOK, IndexInv, CallInv, SeenInv
  <2>2. ContentInv' /\ OutInv'
    BY <1>2 DEF Inv, vars, ContentInv, OutInv, Copied, FirstPart
  <2> QED  BY <2>1, <2>2 DEF Inv
<1> QED  BY <1>1, <1>2

-----------------------------------------------------------------------------
(* The theorems.                                                            *)

(* The inductive invariant of ring.hpp holds in every reachable state.      *)
THEOREM RingInvariant == Spec => []Inv
<1>1. Init => Inv
  BY InvInit
<1>2. Inv /\ [Next]_vars => Inv'
  BY InvStep
<1> QED  BY <1>1, <1>2, PTL DEF Spec

(* The state of ring.hpp:127-134 is well typed: the indices keep to their   *)
(* width and no call moves more than a capacity.                            *)
THEOREM RingTyped == Spec => []TypeOK
<1>1. Inv => TypeOK
  BY DEF Inv
<1> QED  BY <1>1, RingInvariant, PTL

(* ring.hpp:69-75 and 96-102: the bytes being copied in are written onwards *)
(* and those being copied out lie before, all within one capacity.          *)
THEOREM RingCopiesNeverOverlap == Spec => []CopiesNeverOverlap
<1>1. Inv => CopiesNeverOverlap
  <2> SUFFICES ASSUME Inv,
                      NEW s \in Part(wpc, write, wn),
                      s \in Part(rpc, read, rn)
               PROVE  FALSE
    BY DEF CopiesNeverOverlap
  <2>1. /\ written \in Nat /\ consumed \in Nat
        /\ wn \in 0..Capacity /\ rn \in 0..Capacity
        /\ write = Wrap(written) /\ read = Wrap(consumed)
        /\ consumed + rn <= written /\ written + wn <= consumed + Capacity
    BY DEF Inv, TypeOK, IndexInv, CallInv
  <2>2. ASSUME NEW pc, NEW c \in Nat, NEW n \in 0..Capacity,
               s \in Part(pc, Wrap(c), n)
        PROVE  \E j \in 0..(n - 1) : s = Slot(c + j)
    <3> DEFINE f == FirstPart(Wrap(c), n)
    <3>1. /\ Slot(Wrap(c)) = Slot(c) /\ Slot(c) \in 0..(Capacity - 1)
          /\ f \in 0..n /\ f <= Capacity - Slot(c)
          /\ f < n => f = Capacity - Slot(c)
      BY CopySplit
    <3>2. \/ s \in Slot(c)..(Slot(c) + f - 1)
          \/ s \in 0..(n - f - 1)
      BY <2>2, <3>1 DEF Part
    <3> HIDE DEF f
    <3>3. s \in Slots
      BY <3>1, <3>2, Sizes DEF Slots
    <3>4. s \in 0..(n - f - 1) => s < n - f
      BY <3>1
    <3>5. /\ s \in Slot(c)..(Slot(c) + f - 1) => \E j \in 0..(n - 1) : s = Slot(c + j)
          /\ s < n - f => \E j \in 0..(n - 1) : s = Slot(c + j)
      BY <3>3, CopiedSlot, ZenonT(60) DEF f
    <3> QED  BY <3>2, <3>4, <3>5
  <2>3. PICK i \in 0..(wn - 1) : s = Slot(written + i)
    BY <2>1, <2>2
  <2>4. PICK j \in 0..(rn - 1) : s = Slot(consumed + j)
    BY <2>1, <2>2
  <2>5. /\ consumed + j \in Nat /\ written + i \in Nat
        /\ consumed + j < written + i
        /\ written + i < consumed + j + Capacity
    BY <2>1, Sizes
  <2> QED  BY <2>3, <2>4, <2>5, SlotsDiffer
<1> QED  BY <1>1, RingInvariant, PTL

(* ring.hpp:86-106: every read returns the next bytes written, in order.    *)
THEOREM RingReadsWhatWasWritten == Spec => []ReadsWhatWasWritten
<1>1. Inv => ReadsWhatWasWritten
  BY DEF Inv, OutInv, ReadsWhatWasWritten
<1> QED  BY <1>1, RingInvariant, PTL

(* ring.hpp:42-55: the consumer only ever adds to the room the producer saw, *)
(* and the producer to the bytes the consumer saw.                          *)
THEOREM RingSeenIsStillThere == Spec => []SeenIsStillThere
<1>1. Inv => SeenIsStillThere
  BY ReadableIs DEF Inv, SeenInv, SeenIsStillThere
<1> QED  BY <1>1, RingInvariant, PTL

(* ring.hpp:85-111: a thread at work in the buffer is alone in its part of   *)
(* it, and what it reckoned with stays true.                                *)
THEOREM RingCopiesAreSafe == Spec => []CopiesAreSafe
BY RingCopiesNeverOverlap, RingSeenIsStillThere, PTL DEF CopiesAreSafe

-----------------------------------------------------------------------------
(* The ring implements the pipe.                                            *)

Items == [i \in 1..Readable |-> buf[Slot(read + i - 1)]]
Between(from, to) == [i \in 1..(to - from) |-> from + i - 1]

LEMMA ItemsAre == Inv => Items = Between(consumed, written)
<1> SUFFICES ASSUME Inv PROVE Items = Between(consumed, written)
  OBVIOUS
<1>1. /\ written \in Nat /\ consumed \in Nat /\ consumed <= written
      /\ read = Wrap(consumed) /\ Readable = written - consumed
  BY ReadableIs DEF Inv, TypeOK, IndexInv
<1>2. Copied \in Nat
  BY CopySplit, Sizes, SMTT(30) DEF Copied, Inv, TypeOK, IndexInv
<1>3. ASSUME NEW i \in 1..(written - consumed)
      PROVE  buf[Slot(read + i - 1)] = consumed + i - 1
  <2>0. read \in Nat /\ written - consumed \in Nat
    BY <1>1, Sizes DEF Inv, TypeOK
  <2>1. i - 1 \in Nat /\ consumed + (i - 1) \in Nat /\ read + (i - 1) \in Nat
    BY <1>1, <2>0
  <2>2. Slot(read + (i - 1)) = Slot(Wrap(read + (i - 1)))
    BY <2>1, SlotOfIndex
  <2>3. Wrap(read + (i - 1)) = Wrap(consumed + (i - 1))
    BY <1>1, <2>1, WrappedSum
  <2>4. Slot(Wrap(consumed + (i - 1))) = Slot(consumed + (i - 1))
    BY <2>1, SlotOfIndex
  <2>5. consumed + (i - 1) \in consumed..(written + Copied - 1)
    BY <1>1, <1>2
  <2>6. buf[Slot(consumed + (i - 1))] = consumed + (i - 1)
    BY <2>5 DEF Inv, ContentInv
  <2>7. read + i - 1 = read + (i - 1) /\ consumed + i - 1 = consumed + (i - 1)
    BY <1>1, <2>0
  <2> QED  BY <2>2, <2>3, <2>4, <2>6, <2>7
<1> QED  BY <1>1, <1>3 DEF Items, Between

LEMMA BetweenIsASeq ==
  ASSUME NEW a \in Nat, NEW b \in Nat, a <= b
  PROVE  Between(a, b) \in Seq(Int) /\ Len(Between(a, b)) = b - a
<1>1. b - a \in Nat /\ \A i \in 1..(b - a) : a + i - 1 \in Int
  OBVIOUS
<1>2. Between(a, b) \in Seq(Int)
  BY <1>1, IsASeq DEF Between
<1> QED  BY <1>1, <1>2 DEF Between

LEMMA BetweenSplits ==
  ASSUME NEW a \in Nat, NEW b \in Nat, NEW c \in Nat, a <= b, b <= c
  PROVE  /\ Between(a, c) = Between(a, b) \o Between(b, c)
         /\ Between(a, b) = SubSeq(Between(a, c), 1, b - a)
         /\ Between(b, c) = SubSeq(Between(a, c), b - a + 1, Len(Between(a, c)))
<1>1. /\ Between(a, b) \in Seq(Int) /\ Len(Between(a, b)) = b - a
      /\ Between(b, c) \in Seq(Int) /\ Len(Between(b, c)) = c - b
  BY BetweenIsASeq
<1>2. a <= c
  OBVIOUS
<1>3. Between(a, c) \in Seq(Int) /\ Len(Between(a, c)) = c - a
  BY <1>2, BetweenIsASeq
<1>4. Between(a, c) = Between(a, b) \o Between(b, c)
  <2> DEFINE s == Between(a, b) \o Between(b, c)
  <2>1. s \in Seq(Int) /\ Len(s) = Len(Between(a, b)) + Len(Between(b, c))
    BY <1>1, ConcatProperties
  <2>2. Len(s) = c - a
    BY <1>1, <2>1
  <2>4. \A i \in 1..(Len(Between(a, b)) + Len(Between(b, c))) :
          s[i] = IF i <= Len(Between(a, b)) THEN Between(a, b)[i]
                 ELSE Between(b, c)[i - Len(Between(a, b))]
    BY <1>1, ConcatProperties, SMTT(30)
  <2>5. Len(Between(a, b)) + Len(Between(b, c)) = c - a
    BY <2>1, <2>2
  <2> HIDE DEF s
  <2>3. ASSUME NEW i \in 1..(c - a)
        PROVE  s[i] = Between(a, c)[i]
    <3>1. s[i] = IF i <= Len(Between(a, b)) THEN Between(a, b)[i]
                 ELSE Between(b, c)[i - Len(Between(a, b))]
      BY <2>4, <2>5
    <3>2. CASE i <= b - a
      BY <1>1, <3>1, <3>2 DEF Between
    <3>3. CASE i > b - a
      <4>1. s[i] = Between(b, c)[i - (b - a)] /\ i - (b - a) \in 1..(c - b)
        BY <1>1, <3>1, <3>3
      <4>2. Between(b, c)[i - (b - a)] = b + (i - (b - a)) - 1
        BY <4>1 DEF Between
      <4> QED  BY <4>1, <4>2 DEF Between
    <3>4. i <= b - a \/ i > b - a
      OBVIOUS
    <3> QED  BY ONLY <3>2, <3>3, <3>4
  <2> HIDE DEF s
  <2> QED  BY <1>3, <2>1, <2>2, <2>3, SeqEqual DEF s
<1>5. /\ Between(a, b) = SubSeq(Between(a, c), 1, b - a)
      /\ Between(b, c) = SubSeq(Between(a, c), b - a + 1, Len(Between(a, c)))
  BY <1>1, <1>3 DEF Between
<1> QED  BY <1>4, <1>5

(* write() puts, read() takes, reset() clears, and no other step is seen.   *)
LEMMA StepIsAPipeStep ==
  ASSUME Inv, Inv', [Next]_vars
  PROVE  [Pipe!Next]_Pipe!vars
<1>1. Items = Between(consumed, written) /\ Items' = Between(consumed', written')
  <2>1. Items = Between(consumed, written)
    BY ItemsAre
  <2>2. (Inv => Items = Between(consumed, written))'
    BY ItemsAre, PTL
  <2> QED  BY <2>1, <2>2 DEF Between
<1>2. /\ written \in Nat /\ consumed \in Nat /\ wn \in Nat /\ rn \in Nat
      /\ consumed <= written /\ consumed + rn <= written
      /\ written + wn <= consumed + Capacity
      /\ wn \in 0..Capacity
      /\ wpc = "publish" => wn > 0
      /\ rpc = "publish" => rn > 0 /\ out = [i \in 1..rn |-> consumed + i - 1]
  <2>1. Capacity \in Nat
    BY Sizes
  <2>2. /\ written \in Nat /\ consumed \in Nat
        /\ wn \in 0..Capacity /\ rn \in 0..Capacity
    BY DEF Inv, TypeOK
  <2>3. /\ consumed <= written /\ consumed + rn <= written
        /\ written + wn <= consumed + Capacity
        /\ wpc = "publish" => wn > 0
        /\ rpc = "publish" => rn > 0
    BY DEF Inv, IndexInv, CallInv
  <2>4. rpc = "publish" => out = [i \in 1..rn |-> consumed + i - 1]
    BY DEF Inv, OutInv
  <2> QED  BY <2>1, <2>2, <2>3, <2>4
<1>3. ASSUME consumed' = consumed, written' = written, delivered' = delivered
      PROVE  UNCHANGED Pipe!vars
  BY <1>1, <1>3 DEF Pipe!vars, Items, Between
<1>4. CASE WritePublish
  <2>1. /\ written' = written + wn /\ consumed' = consumed
        /\ delivered' = delivered /\ wn > 0
    BY <1>2, <1>4 DEF WritePublish, consumer
  <2>2. Len(Items) + wn <= Capacity
    BY <1>1, <1>2, BetweenIsASeq, Sizes
  <2>3. Items' = Items \o [i \in 1..wn |-> written + i - 1]
    <3>1. written + wn \in Nat /\ written <= written + wn
      BY <1>2
    <3>2. Between(consumed, written + wn)
            = Between(consumed, written) \o Between(written, written + wn)
      BY <1>2, <3>1, BetweenSplits, ZenonT(60)
    <3>3. Between(written, written + wn) = [i \in 1..wn |-> written + i - 1]
      BY <1>2 DEF Between
    <3> QED  BY <1>1, <2>1, <3>2, <3>3
  <2>4. Pipe!Put(wn)
    BY <2>1, <2>2, <2>3 DEF Pipe!Put, Items
  <2> QED  BY <1>2, <2>1, <2>4 DEF Pipe!Next
<1>5. CASE ReadPublish
  <2>1. /\ consumed' = consumed + rn /\ written' = written
        /\ delivered' = [i \in 1..rn |-> consumed + i - 1] /\ rn > 0
    BY <1>2, <1>5 DEF ReadPublish, producer
  <2>2. /\ consumed + rn \in Nat /\ consumed <= consumed + rn
        /\ (consumed + rn) - consumed = rn
    BY <1>2
  <2>3. /\ Between(consumed, consumed + rn) = SubSeq(Items, 1, rn)
        /\ Between(consumed + rn, written) = SubSeq(Items, rn + 1, Len(Items))
    <3>1. consumed + rn <= written
      BY <1>2
    <3> DEFINE b == consumed + rn
    <3>4. b \in Nat /\ consumed <= b /\ b <= written /\ b - consumed = rn
      BY <2>2, <3>1
    <3> HIDE DEF b
    <3>5. /\ Between(consumed, b)
               = SubSeq(Between(consumed, written), 1, b - consumed)
          /\ Between(b, written)
               = SubSeq(Between(consumed, written), b - consumed + 1,
                        Len(Between(consumed, written)))
      BY <1>2, <3>4, BetweenSplits, ZenonT(60)
    <3>6. /\ Between(consumed, b) = SubSeq(Items, 1, rn)
          /\ Between(b, written) = SubSeq(Items, rn + 1, Len(Items))
      BY <1>1, <3>4, <3>5
    <3> QED  BY <3>6 DEF b
  <2>4. Between(consumed, consumed + rn) = [i \in 1..rn |-> consumed + i - 1]
    BY <2>2 DEF Between
  <2>5. Pipe!Take(rn)
    BY <1>1, <2>1, <2>3, <2>4 DEF Pipe!Take, Items
  <2>6. rn \in 1..Len(Items)
    <3>1. Len(Between(consumed, written)) = written - consumed
      BY <1>2, BetweenIsASeq
    <3>2. rn <= written - consumed /\ written - consumed \in Nat
      BY <1>2
    <3> QED  BY <1>1, <1>2, <2>1, <3>1, <3>2
  <2> QED  BY <2>5, <2>6 DEF Pipe!Next, Items
<1>6. CASE Reset
  <2>1. written' = 0 /\ consumed' = 0 /\ delivered' = delivered
    BY <1>6 DEF Reset
  <2>2. Items' = <<>>
    BY <1>1, <2>1 DEF Between
  <2> QED  BY <2>1, <2>2 DEF Pipe!Next, Pipe!Clear, Items
<1>7. CASE \/ LookForRoom \/ WriteFirst \/ WriteSecond
           \/ \E bytes \in 1..Capacity : WriteLoad(bytes)
  BY <1>3, <1>7 DEF LookForRoom, WriteLoad, WriteFirst, WriteSecond, consumer
<1>8. CASE \/ LookInHand \/ ReadFirst \/ ReadSecond
           \/ \E bytes \in 1..Capacity : ReadLoad(bytes)
  BY <1>3, <1>8 DEF LookInHand, ReadLoad, ReadFirst, ReadSecond, producer
<1>9. CASE UNCHANGED vars
  BY <1>3, <1>9 DEF vars
<1> QED  BY <1>4, <1>5, <1>6, <1>7, <1>8, <1>9 DEF Next, Producer, Consumer

(* ring.hpp:12-24: for every capacity and width the ring is the pipe        *)
(* ByteFifo specifies: bytes come out in the order they went in, never more *)
(* of them in it than it holds.                                             *)
THEOREM RingIsAFifo == Spec => IsAFifo
<1>1. Init => Pipe!Init
  <2> SUFFICES ASSUME Init PROVE Pipe!Init
    OBVIOUS
  <2>1. Inv
    BY InvInit
  <2>2. Items = Between(consumed, written)
    BY <2>1, ItemsAre
  <2> QED  BY <2>2 DEF Init, Pipe!Init, Items, Between
<1>2. Inv /\ Inv' /\ [Next]_vars => [Pipe!Next]_Pipe!vars
  BY StepIsAPipeStep
<1> QED  BY <1>1, <1>2, RingInvariant, PTL DEF Spec, IsAFifo, Pipe!Spec
=============================================================================
