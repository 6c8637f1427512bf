------------------------- MODULE PacketRouterProofs -------------------------
(***************************************************************************)
(* Proofs about PacketRouter called from one thread, for every file, every *)
(* set of streams and every cap: each consumer gets its own packets and    *)
(* all of them, the end it is told of is the end of its stream, a cap is   *)
(* passed by no more than the packet that reaches it, and the counts back  *)
(* pressure goes by are of what waits.                                     *)
(*                                                                         *)
(* With one thread at most one call is under way, so what its reads found  *)
(* about the queues still holds when it hands a packet on.  RouterThreads  *)
(* shows the first of these results lost with two.                         *)
(***************************************************************************)
EXTENDS PacketRouter, SequenceTheorems, FiniteSetTheorems, TLAPS

-----------------------------------------------------------------------------
(* Packets in the file's order *)

(* One more, after all that are there. *)
LEMMA JustAppend ==
    ASSUME NEW q \in Seq(Nat), NEW P, NEW k \in Nat,
           IsJust(q, P), \A i \in DOMAIN q : q[i] < k
    PROVE  Append(q, k) \in Seq(Nat) /\ IsJust(Append(q, k), P \cup {k})
<1> DEFINE r == Append(q, k)
<1>1. /\ r \in Seq(Nat) /\ Len(q) \in Nat /\ Len(r) = Len(q) + 1
      /\ DOMAIN q = 1..Len(q) /\ DOMAIN r = 1..(Len(q) + 1)
      /\ \A i \in 1..Len(q) : r[i] = q[i] /\ q[i] \in Nat
      /\ r[Len(q) + 1] = k
  OBVIOUS
<1> HIDE DEF r
<1>2. InOrder(r)
  <2>1. ASSUME NEW i \in DOMAIN r, NEW j \in DOMAIN r, i < j PROVE r[i] < r[j]
    <3>1. i \in 1..Len(q) /\ (j \in 1..Len(q) \/ j = Len(q) + 1)
      BY <1>1, <2>1, SMTT(30)
    <3>2. CASE j \in 1..Len(q)
      BY <1>1, <2>1, <3>1, <3>2 DEF IsJust, InOrder
    <3>3. CASE j = Len(q) + 1
      BY <1>1, <3>1, <3>3
    <3> QED
      BY <3>1, <3>2, <3>3
  <2> QED
    BY <2>1 DEF InOrder
<1>3. Range(r) = P \cup {k}
  <2>1. P = {q[i] : i \in 1..Len(q)}
    BY <1>1 DEF IsJust, Range
  <2>2. Range(r) = {r[i] : i \in 1..(Len(q) + 1)}
    BY <1>1 DEF Range
  <2>3. ASSUME NEW x \in P PROVE x \in Range(r)
    <3>1. PICK i \in 1..Len(q) : x = q[i]
      BY <2>1
    <3> QED
      BY <1>1, <2>2, <3>1
  <2>4. k \in Range(r)
    BY <1>1, <2>2
  <2>5. ASSUME NEW x \in Range(r) PROVE x \in P \cup {k}
    <3>1. PICK i \in 1..(Len(q) + 1) : x = r[i]
      BY <2>2
    <3>2. i \in 1..Len(q) \/ i = Len(q) + 1
      BY <1>1
    <3> QED
      BY <1>1, <2>1, <3>1, <3>2
  <2> QED
    BY <2>3, <2>4, <2>5
<1> QED
  BY <1>1, <1>2, <1>3 DEF IsJust, r

LEMMA NothingIsJust == <<>> \in Seq(Nat) /\ IsJust(<<>>, {})
<1>1. DOMAIN <<>> = {} /\ <<>> \in Seq(Nat)
  BY EmptySeq, LenProperties
<1> QED
  BY <1>1 DEF IsJust, InOrder, Range

(* What is served from the queue was the next to be served. *)
LEMMA ServeFirst ==
    ASSUME NEW q \in Seq(Nat), NEW w \in Seq(Nat), w # <<>>
    PROVE  Append(q, Head(w)) \o Tail(w) = q \o w
<1>1. Len(w) \in Nat \ {0} /\ Len(q) \in Nat
  BY EmptySeq
<1>2. /\ Append(q, Head(w)) \in Seq(Nat) /\ Tail(w) \in Seq(Nat)
      /\ Len(Append(q, Head(w))) = Len(q) + 1 /\ Len(Tail(w)) = Len(w) - 1
      /\ \A i \in 1..Len(q) : Append(q, Head(w))[i] = q[i]
      /\ Append(q, Head(w))[Len(q) + 1] = w[1]
      /\ \A i \in 1..(Len(w) - 1) : Tail(w)[i] = w[i + 1]
  BY <1>1, HeadTailProperties, AppendProperties
<1> DEFINE a == Append(q, Head(w))
           t == Tail(w)
<1> HIDE DEF a, t
<1>3. /\ a \o t \in Seq(Nat) /\ Len(a \o t) = Len(a) + Len(t)
      /\ \A i \in 1..(Len(a) + Len(t)) :
             (a \o t)[i] = IF i <= Len(a) THEN a[i] ELSE t[i - Len(a)]
  BY <1>2, ConcatProperties DEF a, t
<1>4. /\ q \o w \in Seq(Nat) /\ Len(q \o w) = Len(q) + Len(w)
      /\ \A i \in 1..(Len(q) + Len(w)) :
             (q \o w)[i] = IF i <= Len(q) THEN q[i] ELSE w[i - Len(q)]
  BY ConcatProperties
<1>5. /\ Len(a) = Len(q) + 1 /\ Len(t) = Len(w) - 1
      /\ \A i \in 1..Len(q) : a[i] = q[i]
      /\ a[Len(q) + 1] = w[1]
      /\ \A i \in 1..(Len(w) - 1) : t[i] = w[i + 1]
  BY <1>2 DEF a, t
<1>6. ASSUME NEW i \in 1..(Len(q) + Len(w)) PROVE (a \o t)[i] = (q \o w)[i]
  <2>1. CASE i <= Len(q)
    BY <1>1, <1>3, <1>4, <1>5, <2>1
  <2>2. CASE i = Len(q) + 1
    BY <1>1, <1>3, <1>4, <1>5, <2>2
  <2>3. CASE i > Len(q) + 1
    <3>1. i - Len(a) \in 1..(Len(w) - 1)
      BY <1>1, <1>5, <2>3
    <3>2. (a \o t)[i] = w[i - Len(a) + 1]
      <4>1. i \in 1..(Len(a) + Len(t)) /\ ~(i <= Len(a))
        BY <1>1, <1>5, <2>3
      <4>2. (a \o t)[i] = t[i - Len(a)]
        BY <1>3, <4>1
      <4> QED
        BY <1>5, <3>1, <4>2
    <3>3. (q \o w)[i] = w[i - Len(q)]
      BY <1>1, <1>4, <2>3
    <3>4. i - Len(a) + 1 = i - Len(q)
      BY <1>1, <1>5
    <3> QED
      BY <3>2, <3>3, <3>4
  <2>4. i <= Len(q) \/ i = Len(q) + 1 \/ i > Len(q) + 1
    BY <1>1
  <2> QED
    BY <2>1, <2>2, <2>3, <2>4
<1>7. Len(a \o t) = Len(q) + Len(w)
  BY <1>1, <1>3, <1>5
<1>8. a \o t = q \o w
  BY <1>3, <1>4, <1>6, <1>7, SeqEqual
<1> QED
  BY <1>8 DEF a, t

(* A packet that waits behind all that wait. *)
LEMMA WaitLast ==
    ASSUME NEW q \in Seq(Nat), NEW w \in Seq(Nat), NEW k \in Nat
    PROVE  q \o Append(w, k) = Append(q \o w, k)
<1>1. <<k>> \in Seq(Nat) /\ q \o w \in Seq(Nat)
  BY ConcatProperties
<1>2. Append(w, k) = w \o <<k>> /\ Append(q \o w, k) = (q \o w) \o <<k>>
  BY <1>1, AppendIsConcat
<1> QED
  BY <1>1, <1>2, ConcatAssociative, SMTT(30)

-----------------------------------------------------------------------------
(* The invariant *)

Types ==
    /\ file \in Files /\ limits \in Limits
    /\ at \in 1..(Len(file) + 1) /\ from \in 1..at
    /\ waiting \in [Streams -> Seq(Nat)] /\ got \in [Streams -> Seq(Nat)]
    /\ \A s \in Streams : \A i \in DOMAIN waiting[s] : waiting[s][i] \in DOMAIN file
    /\ bytes \in [Streams -> Int]
    /\ pc \in [Streams -> {"idle", "reading", "handing", "clearing"}]
    /\ packet \in [Streams -> Nat]
    /\ answer \in [Streams -> {"none", "packet", "end", "busy"}]
    /\ ended \in BOOLEAN

OneCaller == \A s, t \in Streams : pc[s] # "idle" /\ pc[t] # "idle" => s = t

(* What a call has found, and what still holds of it: one that reads had    *)
(* nothing waiting, and one that hands a packet on found room for it.       *)
CallInv ==
    \A s \in Streams :
        /\ pc[s] \in {"reading", "handing"} => waiting[s] = <<>> /\ ~ended
        /\ pc[s] # "handing" => packet[s] = 0
        /\ pc[s] = "handing" =>
               /\ packet[s] = at - 1 /\ at > from
               /\ file[packet[s]].stream \in Streams \ {s}
               /\ ~SomeoneIsFull(s)
        /\ pc[s] = "clearing" => at = from /\ \A t \in Streams : got[t] = <<>>

EndedInv == ended /\ (\A s \in Streams : pc[s] # "clearing") => at = Len(file) + 1

Inv ==
    /\ Types /\ OneCaller /\ CallInv /\ EndedInv
    /\ EachGetsItsOwn /\ OneOverAtMost

(* The file and the caps. *)
LEMMA Facts ==
    ASSUME Types
    PROVE  /\ Len(file) \in Nat /\ DOMAIN file = 1..Len(file)
           /\ \A k \in DOMAIN file : file[k].bytes \in Nat
           /\ limits.soft \in Nat /\ limits.floor \in Nat /\ limits.hard \in Nat
           /\ at \in Nat /\ from \in Nat /\ from <= at /\ 1 <= from
           /\ at <= Len(file) + 1
           /\ \A s \in Streams :
                  /\ waiting[s] \in Seq(Nat) /\ got[s] \in Seq(Nat)
                  /\ bytes[s] \in Int /\ packet[s] \in Nat
                  /\ pc[s] \in {"idle", "reading", "handing", "clearing"}
<1>1. /\ Len(file) \in Nat /\ DOMAIN file = 1..Len(file)
      /\ \A k \in DOMAIN file : file[k].bytes \in Nat
  BY RouterAssumption DEF Types
<1>2. limits \in [soft : Nat, floor : Nat, hard : Nat]
  BY RouterAssumption DEF Types
<1>3. limits.soft \in Nat /\ limits.floor \in Nat /\ limits.hard \in Nat
  BY <1>2
<1> QED
  BY <1>1, <1>3 DEF Types

(* One thread makes one call at a time. *)
LEMMA Alone ==
    ASSUME Types, OneCaller, CallInv, NEW s \in Streams, pc[s] # "idle"
    PROVE  \A t \in Streams \ {s} : pc[t] = "idle" /\ packet[t] = 0
BY DEF OneCaller, CallInv

LEMMA AllIdle ==
    ASSUME Types, CallInv, OneThread, NEW s \in Streams, Calls(s)
    PROVE  \A t \in Streams : pc[t] = "idle" /\ packet[t] = 0
BY DEF CallInv, Calls

LEMMA HandEmpty ==
    ASSUME \A t \in Streams : packet[t] = 0
    PROVE  \A s \in Streams : InHand(s) = {}
BY DEF InHand

(* Nothing that says what each has got is touched. *)
LEMMA SameShares ==
    ASSUME EachGetsItsOwn, OneOverAtMost,
           UNCHANGED <<file, limits, at, from, got, waiting, bytes, packet>>,
           (\A s \in Streams : pc[s] # "clearing")
               \/ ~(\A s \in Streams : pc'[s] # "clearing")
    PROVE  EachGetsItsOwn' /\ OneOverAtMost'
<1>1. \A s \in Streams : GetsItsOwn(s)' <=> GetsItsOwn(s)
  BY DEF GetsItsOwn, IsJust, Of, InHand
<1>2. EachGetsItsOwn'
  BY <1>1 DEF EachGetsItsOwn
<1>3. OneOverAtMost'
  BY DEF OneOverAtMost, FullWithout, Last
<1> QED
  BY <1>2, <1>3

LEMMA InitInv == Init => Inv
<1> SUFFICES ASSUME Init PROVE Inv
  OBVIOUS
<1>1. <<>> \in Seq(Nat) /\ DOMAIN <<>> = {}
  BY EmptySeq, LenProperties
<1>2. Len(file) \in Nat
  BY RouterAssumption DEF Init
<1>3. Types
  <2>1. at \in 1..(Len(file) + 1) /\ from \in 1..at
    BY <1>2 DEF Init
  <2>2. waiting \in [Streams -> Seq(Nat)] /\ got \in [Streams -> Seq(Nat)]
    BY <1>1 DEF Init
  <2>3. \A s \in Streams : \A i \in DOMAIN waiting[s] : waiting[s][i] \in DOMAIN file
    BY <1>1 DEF Init
  <2>4. /\ bytes \in [Streams -> Int] /\ packet \in [Streams -> Nat]
        /\ pc \in [Streams -> {"idle", "reading", "handing", "clearing"}]
        /\ answer \in [Streams -> {"none", "packet", "end", "busy"}]
    BY DEF Init
  <2>5. file \in Files /\ limits \in Limits /\ ended \in BOOLEAN
    BY DEF Init
  <2> QED
    BY <2>1, <2>2, <2>3, <2>4, <2>5 DEF Types
<1>4. OneCaller /\ CallInv /\ EndedInv
  BY DEF Init, OneCaller, CallInv, EndedInv
<1>5. EachGetsItsOwn
  <2>1. ASSUME NEW s \in Streams PROVE GetsItsOwn(s)
    <3>1. got[s] \o waiting[s] = <<>>
      BY <1>1, ConcatEmptySeq DEF Init
    <3>2. Of(s, from, at) = {}
      BY DEF Init, Of
    <3>3. InHand(s) = {}
      BY DEF Init, InHand
    <3> QED
      BY <3>1, <3>2, <3>3, NothingIsJust DEF GetsItsOwn
  <2> QED
    BY <2>1 DEF EachGetsItsOwn
<1>6. OneOverAtMost
  BY DEF Init, OneOverAtMost
<1> QED
  BY <1>3, <1>4, <1>5, <1>6 DEF Inv

-----------------------------------------------------------------------------
(* The invariant is kept *)

(* next() *)

LEMMA NextWaitingKeeps ==
    ASSUME Inv, OneThread, NEW s \in Streams, NextWaiting(s) PROVE Inv'
<1> DEFINE k == Head(waiting[s])
<1>1. /\ Calls(s) /\ waiting[s] # <<>>
      /\ waiting' = [waiting EXCEPT ![s] = Tail(@)]
      /\ bytes' = [bytes EXCEPT ![s] = @ - file[k].bytes]
      /\ got' = [got EXCEPT ![s] = Append(@, k)]
      /\ answer' = [answer EXCEPT ![s] = "packet"]
      /\ file' = file /\ limits' = limits /\ at' = at /\ ended' = ended
      /\ pc' = pc /\ packet' = packet /\ from' = from
  BY DEF NextWaiting, Deliver, chosen
<1>2. \A t \in Streams : pc[t] = "idle" /\ packet[t] = 0
  BY <1>1, AllIdle DEF Inv
<1>3. /\ waiting[s] \in Seq(Nat) /\ got[s] \in Seq(Nat)
      /\ \A t \in Streams : waiting[t] \in Seq(Nat) /\ bytes[t] \in Int
      /\ \A j \in DOMAIN file : file[j].bytes \in Nat
  BY Facts DEF Inv
<1>4. /\ Len(waiting[s]) \in Nat \ {0} /\ k \in Nat /\ k = waiting[s][1]
      /\ Tail(waiting[s]) \in Seq(Nat) /\ Len(Tail(waiting[s])) = Len(waiting[s]) - 1
      /\ \A i \in 1..(Len(waiting[s]) - 1) : Tail(waiting[s])[i] = waiting[s][i + 1]
      /\ DOMAIN waiting[s] = 1..Len(waiting[s])
      /\ DOMAIN Tail(waiting[s]) = 1..(Len(waiting[s]) - 1)
  <2>1. Len(waiting[s]) \in Nat \ {0} /\ DOMAIN waiting[s] = 1..Len(waiting[s])
    BY <1>1, <1>3, EmptySeq, LenProperties
  <2>2. /\ Head(waiting[s]) \in Nat /\ Head(waiting[s]) = waiting[s][1]
        /\ Tail(waiting[s]) \in Seq(Nat) /\ Len(Tail(waiting[s])) = Len(waiting[s]) - 1
        /\ \A i \in 1..(Len(waiting[s]) - 1) : Tail(waiting[s])[i] = waiting[s][i + 1]
    BY <1>1, <1>3, <2>1, HeadTailProperties
  <2>3. DOMAIN Tail(waiting[s]) = 1..(Len(waiting[s]) - 1)
    BY <2>2, LenProperties
  <2> QED
    BY <2>1, <2>2, <2>3
<1>5. k \in DOMAIN file /\ file[k].bytes \in Nat
  BY <1>3, <1>4 DEF Inv, Types
<1> HIDE DEF k
<1>6. Types'
  <2>1. waiting' \in [Streams -> Seq(Nat)] /\ bytes' \in [Streams -> Int]
    BY <1>1, <1>3, <1>4, <1>5, SMTT(30) DEF Inv, Types
  <2>2. got' \in [Streams -> Seq(Nat)]
    <3>1. Append(got[s], k) \in Seq(Nat)
      BY <1>3, <1>4, AppendProperties
    <3> QED
      BY <1>1, <3>1 DEF Inv, Types
  <2>3. \A t \in Streams : \A i \in DOMAIN waiting'[t] : waiting'[t][i] \in DOMAIN file
    <3>1. ASSUME NEW t \in Streams, NEW i \in DOMAIN waiting'[t]
          PROVE  waiting'[t][i] \in DOMAIN file
      <4>1. CASE t = s
        <5>1. waiting'[s] = Tail(waiting[s])
          BY <1>1 DEF Inv, Types
        <5>2. i \in 1..(Len(waiting[s]) - 1) /\ i + 1 \in DOMAIN waiting[s]
          BY <1>4, <3>1, <4>1, <5>1, SMTT(30)
        <5> QED
          BY <1>4, <4>1, <5>1, <5>2 DEF Inv, Types
      <4>2. CASE t # s
        <5>1. waiting'[t] = waiting[t]
          BY <1>1, <4>2 DEF Inv, Types
        <5> QED
          BY <3>1, <5>1 DEF Inv, Types
      <4> QED
        BY <4>1, <4>2
    <3> QED
      BY <3>1
  <2>4. answer' \in [Streams -> {"none", "packet", "end", "busy"}]
    BY <1>1 DEF Inv, Types
  <2> QED
    BY <1>1, <2>1, <2>2, <2>3, <2>4 DEF Inv, Types
<1>7. OneCaller' /\ EndedInv'
  BY <1>1 DEF Inv, OneCaller, EndedInv
<1>8. CallInv'
  BY <1>1, <1>2 DEF CallInv
<1>9. EachGetsItsOwn'
  <2>1. \A t \in Streams : GetsItsOwn(t)
    BY <1>2 DEF Inv, EachGetsItsOwn
  <2>2. ASSUME NEW t \in Streams PROVE got'[t] \o waiting'[t] = got[t] \o waiting[t]
    <3>1. CASE t = s
      <4>1. got'[s] = Append(got[s], k) /\ waiting'[s] = Tail(waiting[s])
        BY <1>1 DEF Inv, Types
      <4>2. Append(got[s], Head(waiting[s])) \o Tail(waiting[s])
              = got[s] \o waiting[s]
        BY <1>1, <1>3, ServeFirst
      <4> QED
        BY <3>1, <4>1, <4>2 DEF k
    <3>2. CASE t # s
      <4>1. got'[t] = got[t] /\ waiting'[t] = waiting[t]
        BY <1>1, <3>2 DEF Inv, Types
      <4> QED
        BY <4>1
    <3> QED
      BY <3>1, <3>2
  <2>3. ASSUME NEW t \in Streams PROVE GetsItsOwn(t)'
    <3>1. Of(t, from, at)' = Of(t, from, at) /\ InHand(t)' = InHand(t)
      BY <1>1 DEF Of, InHand
    <3> QED
      BY <2>1, <2>2, <3>1 DEF GetsItsOwn, IsJust
  <2> QED
    BY <2>3 DEF EachGetsItsOwn
<1>10. OneOverAtMost'
  <2>1. ASSUME NEW q \in Streams, waiting'[q] # <<>>
        PROVE  ~FullWithout(q, file[Last(waiting[q])].bytes)'
    <3>1. CASE q # s
      <4>1. waiting'[q] = waiting[q] /\ bytes'[q] = bytes[q]
        BY <1>1, <3>1 DEF Inv, Types
      <4>2. ~FullWithout(q, file[Last(waiting[q])].bytes)
        BY <2>1, <4>1 DEF Inv, OneOverAtMost
      <4> QED
        BY <1>1, <4>1, <4>2 DEF FullWithout
    <3>2. CASE q = s
      <4>1. /\ waiting'[s] = Tail(waiting[s])
            /\ bytes'[s] = bytes[s] - file[k].bytes
        BY <1>1 DEF Inv, Types
      <4>2. Len(waiting[s]) - 1 # 0
        BY <1>4, <2>1, <3>2, <4>1, EmptySeq
      <4>3. Last(waiting'[s]) = Last(waiting[s])
        <5>1. Len(waiting[s]) \in Nat \ {0} /\ Len(waiting[s]) # 1
          BY <1>4, <4>2
        <5>2. \A n \in Nat \ {0} : n # 1 => n - 1 \in 1..(n - 1)
          OBVIOUS
        <5>3. Len(waiting[s]) - 1 \in 1..(Len(waiting[s]) - 1)
          BY <5>1, <5>2, Zenon
        <5>4. Tail(waiting[s])[Len(waiting[s]) - 1] = waiting[s][Len(waiting[s]) - 1 + 1]
          BY <1>4, <5>3
        <5>5. Len(waiting[s]) - 1 + 1 = Len(waiting[s])
          BY <1>4
        <5> QED
          BY <1>4, <4>1, <5>4, <5>5 DEF Last
      <4> DEFINE b == file[Last(waiting[s])].bytes
      <4>4. ~FullWithout(s, b)
        BY <1>1 DEF Inv, OneOverAtMost
      <4>5. b \in Nat
        <5>1. waiting[s][Len(waiting[s])] \in DOMAIN file
          BY <1>4, SMTT(30) DEF Inv, Types
        <5> QED
          BY <1>3, <5>1 DEF Last
      <4> HIDE DEF b
      <4>6. /\ bytes[s] \in Int
            /\ limits.soft \in Nat /\ limits.floor \in Nat /\ limits.hard \in Nat
        BY Facts DEF Inv
      <4>7. /\ ~(limits.hard # 0 /\ bytes[s] - b >= limits.hard)
            /\ ~(bytes[s] - b >= limits.soft /\ Len(waiting[s]) - 1 >= limits.floor)
        BY <4>4 DEF FullWithout
      <4>8. /\ ~(limits.hard # 0 /\ bytes'[s] - b >= limits.hard)
            /\ ~(bytes'[s] - b >= limits.soft /\ Len(waiting'[s]) - 1 >= limits.floor)
        <5> DEFINE n == Len(waiting[s])
                   c == bytes[s]
                   d == file[k].bytes
        <5>1. n \in Nat /\ d \in Nat /\ b \in Nat /\ c \in Int
          BY <1>4, <1>5, <4>5, <4>6
        <5>2. Len(waiting'[s]) = n - 1 /\ bytes'[s] = c - d
          BY <1>4, <4>1
        <5>3. /\ ~(limits.hard # 0 /\ c - b >= limits.hard)
              /\ ~(c - b >= limits.soft /\ n - 1 >= limits.floor)
          BY <4>7
        <5> HIDE DEF n, c, d
        <5>4. ~(limits.hard # 0 /\ c - d - b >= limits.hard)
          BY <4>6, <5>1, <5>3
        <5>5. ~(c - d - b >= limits.soft /\ n - 1 - 1 >= limits.floor)
          BY <4>6, <5>1, <5>3
        <5> QED
          BY <5>2, <5>4, <5>5
      <4>9. b' = b
        BY <1>1, <4>3 DEF b
      <4> QED
        BY <1>1, <3>2, <4>8, <4>9 DEF FullWithout, b
    <3> QED
      BY <3>1, <3>2
  <2> QED
    BY <2>1 DEF OneOverAtMost
<1> QED
  BY <1>6, <1>7, <1>8, <1>9, <1>10 DEF Inv

(* A call that answers, or begins, and serves nothing. *)
LEMMA NextServesNothingKeeps ==
    ASSUME Inv, OneThread, NEW s \in Streams,
           NextEnded(s) \/ NextBegins(s) \/ NextBusy(s) \/ NextEnds(s)
    PROVE  Inv'
<1>1. /\ UNCHANGED <<file, limits, at, from, got, waiting, bytes, packet>>
      /\ pc'= pc \/ pc' = [pc EXCEPT ![s] = "reading"]
           \/ pc' = [pc EXCEPT ![s] = "idle"]
      /\ answer' = answer \/ answer' = [answer EXCEPT ![s] = "end"]
           \/ answer' = [answer EXCEPT ![s] = "busy"]
      /\ ended' = ended \/ (ended' = TRUE /\ at > Len(file))
  BY DEF NextEnded, NextBegins, NextBusy, NextEnds, Answer, chosen, queues
<1>2. Types'
  BY <1>1 DEF Inv, Types
<1>3. /\ \A t \in Streams \ {s} : pc[t] = "idle" /\ packet[t] = 0 /\ pc'[t] = "idle"
      /\ packet[s] = 0 /\ pc[s] \in {"idle", "reading"}
      /\ pc'[s] \in {"idle", "reading"}
      /\ pc'[s] = "reading" => waiting[s] = <<>> /\ ~ended'
  <2>1. CASE NextEnded(s) \/ NextBegins(s)
    <3>1. Calls(s)
      BY <2>1 DEF NextEnded, NextBegins
    <3>2. \A t \in Streams : pc[t] = "idle" /\ packet[t] = 0
      BY <3>1, AllIdle DEF Inv
    <3> QED
      BY <2>1, <3>2 DEF NextEnded, NextBegins, Inv, Types
  <2>2. CASE NextBusy(s) \/ NextEnds(s)
    <3>1. pc[s] = "reading" /\ pc' = [pc EXCEPT ![s] = "idle"]
      BY <2>2 DEF NextBusy, NextEnds
    <3>2. \A t \in Streams \ {s} : pc[t] = "idle" /\ packet[t] = 0
      BY <3>1, Alone DEF Inv
    <3>3. packet[s] = 0
      BY <3>1 DEF Inv, CallInv
    <3> QED
      BY <3>1, <3>2, <3>3 DEF Inv, Types
  <2> QED
    BY <2>1, <2>2
<1>4. OneCaller' /\ CallInv'
  BY <1>1, <1>3 DEF OneCaller, CallInv
<1>5. EndedInv'
  <2>1. \A t \in Streams : pc[t] # "clearing"
    BY <1>3
  <2>2. at \in Nat /\ Len(file) \in Nat /\ at <= Len(file) + 1
    BY Facts DEF Inv
  <2>3. ended => at = Len(file) + 1
    BY <2>1 DEF Inv, EndedInv
  <2>4. at > Len(file) => at = Len(file) + 1
    BY <2>2
  <2>5. ended' => at = Len(file) + 1
    BY <1>1, <2>3, <2>4
  <2> QED
    BY <1>1, <2>5 DEF EndedInv
<1>6. EachGetsItsOwn' /\ OneOverAtMost'
  <2>1. \A t \in Streams : pc[t] # "clearing"
    BY <1>3
  <2> QED
    BY <1>1, <2>1, SameShares DEF Inv
<1> QED
  BY <1>2, <1>4, <1>5, <1>6 DEF Inv

LEMMA NextReadsKeeps ==
    ASSUME Inv, NEW s \in Streams, NextReads(s) PROVE Inv'
<1> DEFINE of == file[at].stream
<1>1. /\ pc[s] = "reading" /\ ~SomeoneIsFull(s) /\ at <= Len(file)
      /\ at' = at + 1
      /\ file' = file /\ limits' = limits /\ waiting' = waiting
      /\ bytes' = bytes /\ ended' = ended /\ from' = from
      /\ \/ /\ of = s /\ packet' = packet
            /\ got' = [got EXCEPT ![s] = Append(@, at)]
            /\ answer' = [answer EXCEPT ![s] = "packet"]
            /\ pc' = [pc EXCEPT ![s] = "idle"]
         \/ /\ of \in Streams \ {s} /\ got' = got /\ answer' = answer
            /\ packet' = [packet EXCEPT ![s] = at]
            /\ pc' = [pc EXCEPT ![s] = "handing"]
         \/ /\ of \notin Streams
            /\ got' = got /\ answer' = answer /\ pc' = pc /\ packet' = packet
  BY DEF NextReads, Deliver, chosen, queues
<1>2. /\ Len(file) \in Nat /\ DOMAIN file = 1..Len(file) /\ at \in Nat
      /\ from \in Nat /\ from <= at /\ 1 <= from
      /\ got[s] \in Seq(Nat) /\ waiting[s] \in Seq(Nat)
  BY Facts DEF Inv
<1>3. \A t \in Streams \ {s} : pc[t] = "idle" /\ packet[t] = 0
  BY <1>1, Alone DEF Inv
<1>4. packet[s] = 0 /\ waiting[s] = <<>> /\ ~ended
  BY <1>1 DEF Inv, CallInv
<1>5. \A t \in Streams :
          Of(t, from, at + 1) = IF of = t THEN Of(t, from, at) \cup {at}
                                          ELSE Of(t, from, at)
  <2>1. from..(at + 1 - 1) = (from..(at - 1)) \cup {at}
    BY <1>2
  <2> QED
    BY <1>2, <2>1 DEF Of
<1>6. \A t \in Streams : GetsItsOwn(t) /\ InHand(t) = {}
  <2>1. \A t \in Streams : packet[t] = 0 /\ pc[t] # "clearing"
    BY <1>1, <1>3, <1>4
  <2> QED
    BY <2>1, HandEmpty DEF Inv, EachGetsItsOwn
<1>7. \A t \in Streams :
          /\ IsJust(got[t] \o waiting[t], Of(t, from, at))
          /\ \A i \in DOMAIN (got[t] \o waiting[t]) : (got[t] \o waiting[t])[i] < at
  <2>1. ASSUME NEW t \in Streams
        PROVE  /\ IsJust(got[t] \o waiting[t], Of(t, from, at))
               /\ \A i \in DOMAIN (got[t] \o waiting[t]) : (got[t] \o waiting[t])[i] < at
    <3> DEFINE h == got[t] \o waiting[t]
    <3>1. IsJust(h, Of(t, from, at))
      BY <1>6 DEF GetsItsOwn
    <3> HIDE DEF h
    <3>2. \A i \in DOMAIN h : h[i] \in Of(t, from, at)
      BY <3>1 DEF IsJust, Range
    <3>3. \A k \in Of(t, from, at) : k < at
      BY <1>2 DEF Of
    <3> QED
      BY <3>1, <3>2, <3>3 DEF h
  <2> QED
    BY <2>1
<1>8. OneOverAtMost' /\ EndedInv'
  BY <1>1, <1>4 DEF Inv, OneOverAtMost, FullWithout, Last, EndedInv
<1>9. SomeoneIsFull(s)' <=> SomeoneIsFull(s)
  BY <1>1 DEF SomeoneIsFull, Full
<1>10. at' \in 1..(Len(file') + 1) /\ from' \in 1..at'
  BY <1>1, <1>2
<1>11. CASE of = s
  <2>1. /\ packet' = packet /\ pc' = [pc EXCEPT ![s] = "idle"]
        /\ got' = [got EXCEPT ![s] = Append(@, at)]
        /\ answer' = [answer EXCEPT ![s] = "packet"]
    BY <1>1, <1>11
  <2>2. Types'
    <3>1. got' \in [Streams -> Seq(Nat)]
      <4>1. Append(got[s], at) \in Seq(Nat)
        BY <1>2, AppendProperties
      <4> QED
        BY <2>1, <4>1 DEF Inv, Types
    <3> QED
      BY <1>1, <1>10, <2>1, <3>1 DEF Inv, Types
  <2>3. OneCaller' /\ CallInv'
    BY <1>1, <1>3, <1>4, <2>1, SMTT(30) DEF Inv, Types, OneCaller, CallInv
  <2>4. ASSUME NEW t \in Streams PROVE GetsItsOwn(t)'
    <3>1. InHand(t)' = {} /\ Of(t, from, at)' = Of(t, from, at + 1)
      BY <1>1, <1>3, <1>4, <2>1 DEF InHand, Of
    <3>2. IsJust(got'[t] \o waiting'[t], Of(t, from, at + 1))
      <4>1. CASE t = s
        <5>1. got'[s] = Append(got[s], at) /\ waiting'[s] = <<>>
          BY <1>1, <1>4, <2>1 DEF Inv, Types
        <5>2. got[s] \o waiting[s] = got[s]
          BY <1>2, <1>4, ConcatEmptySeq
        <5>3. Append(got[s], at) \in Seq(Nat)
                /\ IsJust(Append(got[s], at), Of(s, from, at) \cup {at})
          BY <1>2, <1>7, <5>2, JustAppend
        <5>4. Append(got[s], at) \o <<>> = Append(got[s], at)
          BY <5>3, ConcatEmptySeq
        <5> QED
          BY <1>5, <1>11, <4>1, <5>1, <5>3, <5>4
      <4>2. CASE t # s
        BY <1>1, <1>5, <1>7, <1>11, <2>1, <4>2 DEF Inv, Types
      <4> QED
        BY <4>1, <4>2
    <3> QED
      BY <3>1, <3>2 DEF GetsItsOwn, IsJust, InOrder, Range
  <2> QED
    BY <1>8, <2>2, <2>3, <2>4 DEF Inv, EachGetsItsOwn
<1>12. CASE of \in Streams \ {s}
  <2>1. /\ got' = got /\ answer' = answer
        /\ packet' = [packet EXCEPT ![s] = at]
        /\ pc' = [pc EXCEPT ![s] = "handing"]
    BY <1>1, <1>12
  <2>2. Types'
    BY <1>1, <1>2, <1>10, <2>1 DEF Inv, Types
  <2>3. OneCaller'
    BY <1>3, <2>1 DEF Inv, Types, OneCaller
  <2>4. packet'[s] = at /\ \A t \in Streams \ {s} : packet'[t] = 0
    BY <1>3, <2>1 DEF Inv, Types
  <2>5. CallInv'
    <3>1. pc'[s] = "handing" /\ \A t \in Streams \ {s} : pc'[t] = "idle"
      BY <1>3, <2>1 DEF Inv, Types
    <3>2. packet'[s] = at' - 1 /\ at' > from'
      BY <1>1, <1>2, <2>4
    <3>3. file'[packet'[s]].stream \in Streams \ {s}
      BY <1>1, <1>12, <2>4
    <3> QED
      BY <1>1, <1>4, <1>9, <2>4, <3>1, <3>2, <3>3 DEF CallInv
  <2>6. ASSUME NEW t \in Streams PROVE GetsItsOwn(t)'
    <3>1. InHand(t)' = IF of = t THEN {at} ELSE {}
      <4>1. at # 0
        BY <1>2
      <4> QED
        BY <1>1, <2>4, <4>1 DEF InHand
    <3>2. Of(t, from, at)' = IF of = t THEN Of(t, from, at) \cup {at}
                                       ELSE Of(t, from, at)
      BY <1>1, <1>5 DEF Of
    <3>3. at \notin Of(t, from, at)
      BY <1>2 DEF Of
    <3>4. Of(t, from, at)' \ InHand(t)' = Of(t, from, at)
      BY <3>1, <3>2, <3>3
    <3>5. got'[t] \o waiting'[t] = got[t] \o waiting[t]
      BY <1>1, <2>1
    <3> QED
      BY <1>7, <3>1, <3>2, <3>4, <3>5 DEF GetsItsOwn
  <2> QED
    BY <1>8, <2>2, <2>3, <2>5, <2>6 DEF Inv, EachGetsItsOwn
<1>13. CASE of \notin Streams
  <2>1. got' = got /\ answer' = answer /\ pc' = pc /\ packet' = packet
    BY <1>1, <1>13
  <2>2. Types'
    BY <1>1, <1>10, <2>1 DEF Inv, Types
  <2>3. OneCaller' /\ CallInv'
    BY <1>1, <1>3, <1>4, <2>1 DEF Inv, OneCaller, CallInv
  <2>4. ASSUME NEW t \in Streams PROVE GetsItsOwn(t)'
    <3>1. InHand(t)' = {} /\ Of(t, from, at)' = Of(t, from, at)
      BY <1>1, <1>3, <1>4, <1>5, <1>13, <2>1 DEF InHand, Of
    <3> QED
      <4>1. got'[t] \o waiting'[t] = got[t] \o waiting[t]
        BY <1>1, <2>1
      <4> QED
        BY <1>7, <3>1, <4>1 DEF GetsItsOwn
  <2> QED
    BY <1>8, <2>2, <2>3, <2>4 DEF Inv, EachGetsItsOwn
<1> QED
  BY <1>1, <1>11, <1>12, <1>13

LEMMA NextHandsKeeps ==
    ASSUME Inv, NEW s \in Streams, NextHands(s) PROVE Inv'
<1> DEFINE k == packet[s]
           q == file[k].stream
<1>1. /\ pc[s] = "handing"
      /\ waiting' = [waiting EXCEPT ![q] = Append(@, k)]
      /\ bytes' = [bytes EXCEPT ![q] = @ + file[k].bytes]
      /\ packet' = [packet EXCEPT ![s] = 0]
      /\ pc' = [pc EXCEPT ![s] = "reading"]
      /\ file' = file /\ limits' = limits /\ at' = at /\ ended' = ended
      /\ answer' = answer /\ from' = from /\ got' = got
  BY DEF NextHands, chosen
<1>2. /\ k = at - 1 /\ at > from /\ q \in Streams \ {s} /\ ~SomeoneIsFull(s)
      /\ waiting[s] = <<>> /\ ~ended
  BY <1>1 DEF Inv, CallInv
<1>3. \A t \in Streams \ {s} : pc[t] = "idle" /\ packet[t] = 0
  BY <1>1, Alone DEF Inv
<1>4. /\ Len(file) \in Nat /\ DOMAIN file = 1..Len(file) /\ at \in Nat
      /\ from \in Nat /\ 1 <= from /\ at <= Len(file) + 1
      /\ \A t \in Streams : got[t] \in Seq(Nat) /\ waiting[t] \in Seq(Nat)
                              /\ bytes[t] \in Int
      /\ \A j \in DOMAIN file : file[j].bytes \in Nat
  BY Facts DEF Inv
<1>5. k \in Nat /\ k \in DOMAIN file /\ k # 0 /\ file[k].bytes \in Nat
  BY <1>2, <1>4
<1>6. k \in Of(q, from, at)
  BY <1>2, <1>4, <1>5 DEF Of
<1> HIDE DEF q
<1>7. /\ waiting'[q] = Append(waiting[q], k)
      /\ bytes'[q] = bytes[q] + file[k].bytes
      /\ \A t \in Streams \ {q} : waiting'[t] = waiting[t] /\ bytes'[t] = bytes[t]
      /\ pc'[s] = "reading" /\ packet'[s] = 0
      /\ \A t \in Streams \ {s} : pc'[t] = "idle" /\ packet'[t] = 0
  BY <1>1, <1>2, <1>3 DEF Inv, Types
<1>8. \A t \in Streams : InHand(t) = IF t = q THEN {k} ELSE {}
  BY <1>3, <1>5 DEF InHand, q
<1> HIDE DEF k
<1>9. /\ Append(waiting[q], k) \in Seq(Nat)
      /\ Len(Append(waiting[q], k)) = Len(waiting[q]) + 1
      /\ \A i \in 1..Len(waiting[q]) : Append(waiting[q], k)[i] = waiting[q][i]
      /\ Append(waiting[q], k)[Len(waiting[q]) + 1] = k
      /\ Len(waiting[q]) \in Nat
      /\ DOMAIN waiting[q] = 1..Len(waiting[q])
      /\ DOMAIN Append(waiting[q], k) = 1..(Len(waiting[q]) + 1)
  <2>1. waiting[q] \in Seq(Nat)
    BY <1>2, <1>4
  <2> QED
    BY <1>5, <2>1, AppendProperties, LenProperties
<1>10. Types'
  <2>1. waiting' \in [Streams -> Seq(Nat)] /\ bytes' \in [Streams -> Int]
    <3>1. bytes[q] + file[k].bytes \in Int
      BY <1>2, <1>4, <1>5
    <3> QED
      BY <1>1, <1>9, <3>1 DEF Inv, Types
  <2>2. ASSUME NEW t \in Streams, NEW i \in DOMAIN waiting'[t]
        PROVE  waiting'[t][i] \in DOMAIN file
    <3>1. CASE t = q
      <4>1. i \in 1..Len(waiting[q]) \/ i = Len(waiting[q]) + 1
        BY <1>7, <1>9, <2>2, <3>1
      <4>2. \A j \in 1..Len(waiting[q]) : waiting[q][j] \in DOMAIN file
        BY <1>2, <1>9 DEF Inv, Types
      <4> QED
        BY <1>5, <1>7, <1>9, <3>1, <4>1, <4>2
    <3>2. CASE t # q
      BY <1>7, <2>2, <3>2 DEF Inv, Types
    <3> QED
      BY <3>1, <3>2
  <2>3. pc' \in [Streams -> {"idle", "reading", "handing", "clearing"}]
        /\ packet' \in [Streams -> Nat]
    BY <1>1 DEF Inv, Types
  <2> QED
    BY <1>1, <2>1, <2>2, <2>3 DEF Inv, Types
<1>11. OneCaller' /\ EndedInv'
  BY <1>1, <1>2, <1>7 DEF OneCaller, EndedInv
<1>12. CallInv'
  BY <1>1, <1>2, <1>7 DEF CallInv
<1>13. EachGetsItsOwn'
  <2>1. \A t \in Streams : GetsItsOwn(t)
    BY <1>1, <1>3 DEF Inv, EachGetsItsOwn
  <2>2. ASSUME NEW t \in Streams PROVE GetsItsOwn(t)'
    <3>1. Of(t, from, at)' = Of(t, from, at) /\ InHand(t)' = {}
      BY <1>1, <1>7 DEF Of, InHand
    <3>2. IsJust(got'[t] \o waiting'[t], Of(t, from, at))
      <4>1. CASE t = q
        <5> DEFINE h == got[q] \o waiting[q]
        <5>1. h \in Seq(Nat)
          BY <1>2, <1>4, ConcatProperties
        <5>2. IsJust(h, Of(q, from, at) \ {k}) /\ \A i \in DOMAIN h : h[i] < k
          BY <1>2, <1>8, <2>1 DEF GetsItsOwn
        <5> HIDE DEF h
        <5>3. IsJust(Append(h, k), (Of(q, from, at) \ {k}) \cup {k})
          BY <1>5, <5>1, <5>2, JustAppend
        <5>4. (Of(q, from, at) \ {k}) \cup {k} = Of(q, from, at)
          BY <1>6
        <5>5. got'[q] \o waiting'[q] = Append(h, k)
          <6>1. got[q] \in Seq(Nat) /\ waiting[q] \in Seq(Nat)
            BY <1>2, <1>4
          <6>2. got[q] \o Append(waiting[q], k) = Append(got[q] \o waiting[q], k)
            BY <1>5, <6>1, WaitLast
          <6> QED
            BY <1>1, <1>7, <6>2 DEF h
        <5> QED
          BY <4>1, <5>3, <5>4, <5>5
      <4>2. CASE t # q
        <5>1. got'[t] \o waiting'[t] = got[t] \o waiting[t]
          BY <1>1, <1>7, <4>2
        <5> QED
          BY <1>8, <2>1, <4>2, <5>1 DEF GetsItsOwn
      <4> QED
        BY <4>1, <4>2
    <3> QED
      BY <3>1, <3>2 DEF GetsItsOwn, IsJust, InOrder, Range
  <2> QED
    BY <2>2 DEF EachGetsItsOwn
<1>14. OneOverAtMost'
  <2>1. ASSUME NEW t \in Streams, waiting'[t] # <<>>
        PROVE  ~FullWithout(t, file[Last(waiting[t])].bytes)'
    <3>1. CASE t # q
      <4>1. ~FullWithout(t, file[Last(waiting[t])].bytes)
        BY <1>7, <2>1, <3>1 DEF Inv, OneOverAtMost
      <4> QED
        BY <1>1, <1>7, <3>1, <4>1 DEF FullWithout
    <3>2. CASE t = q
      <4>1. Last(waiting'[q]) = k /\ Len(waiting'[q]) = Len(waiting[q]) + 1
        BY <1>7, <1>9 DEF Last
      <4>2. ~Full(q)
        BY <1>2 DEF SomeoneIsFull
      <4>3. /\ bytes'[q] - file[k].bytes = bytes[q]
            /\ Len(waiting'[q]) - 1 = Len(waiting[q])
        BY <1>2, <1>4, <1>5, <1>7, <1>9, <4>1
      <4> QED
        BY <1>1, <3>2, <4>1, <4>2, <4>3 DEF FullWithout, Full
    <3> QED
      BY <3>1, <3>2
  <2> QED
    BY <2>1 DEF OneOverAtMost
<1> QED
  BY <1>10, <1>11, <1>12, <1>13, <1>14 DEF Inv

(* seek() and clear() *)

LEMMA SeekMovesKeeps ==
    ASSUME Inv, OneThread, NEW s \in Streams, NEW to \in 1..Len(file),
           SeekMoves(s, to)
    PROVE  Inv'
<1>1. /\ Calls(s)
      /\ file' = file /\ limits' = limits /\ waiting' = waiting
      /\ bytes' = bytes /\ ended' = ended /\ packet' = packet
      /\ answer' = answer
  BY DEF SeekMoves, chosen, queues
<1>2. \A t \in Streams : pc[t] = "idle" /\ packet[t] = 0
  BY <1>1, AllIdle DEF Inv
<1>3. CASE UNCHANGED <<at, from, got, pc>>
  <2>1. Types' /\ OneCaller' /\ CallInv' /\ EndedInv'
    BY <1>1, <1>2, <1>3 DEF Inv, Types, OneCaller, CallInv, EndedInv
  <2>2. EachGetsItsOwn' /\ OneOverAtMost'
    BY <1>1, <1>2, <1>3, SameShares DEF Inv
  <2> QED
    BY <2>1, <2>2 DEF Inv
<1>4. CASE /\ at' = to /\ from' = to
           /\ got' = [t \in Streams |-> <<>>]
           /\ pc' = [pc EXCEPT ![s] = "clearing"]
  <2>1. Types'
    <3>1. at' \in 1..(Len(file) + 1) /\ from' \in 1..at' /\ Len(file) \in Nat
      BY <1>4, Facts DEF Inv
    <3>2. got' \in [Streams -> Seq(Nat)]
      BY <1>4, EmptySeq
    <3>3. pc' \in [Streams -> {"idle", "reading", "handing", "clearing"}]
      BY <1>4 DEF Inv, Types
    <3> QED
      BY <1>1, <3>1, <3>2, <3>3 DEF Inv, Types
  <2>2. pc'[s] = "clearing" /\ \A t \in Streams \ {s} : pc'[t] = "idle"
    BY <1>2, <1>4 DEF Inv, Types
  <2>3. OneCaller' /\ CallInv'
    BY <1>1, <1>2, <1>4, <2>2 DEF OneCaller, CallInv
  <2>4. EndedInv' /\ EachGetsItsOwn'
    BY <2>2 DEF EndedInv, EachGetsItsOwn
  <2>5. OneOverAtMost'
    BY <1>1 DEF Inv, OneOverAtMost, FullWithout, Last
  <2> QED
    BY <2>1, <2>3, <2>4, <2>5 DEF Inv
<1> QED
  BY <1>3, <1>4 DEF SeekMoves

LEMMA SeekClearsKeeps ==
    ASSUME Inv, NEW s \in Streams, SeekClears(s) PROVE Inv'
<1>1. /\ pc[s] = "clearing"
      /\ waiting' = [q \in Streams |-> <<>>] /\ bytes' = [q \in Streams |-> 0]
      /\ ended' = FALSE /\ pc' = [pc EXCEPT ![s] = "idle"]
      /\ file' = file /\ limits' = limits /\ at' = at /\ packet' = packet
      /\ answer' = answer /\ from' = from /\ got' = got
  BY DEF SeekClears, chosen
<1>2. at = from /\ \A t \in Streams : packet[t] = 0 /\ pc'[t] = "idle"
  <2>1. at = from /\ packet[s] = 0
    BY <1>1 DEF Inv, CallInv
  <2>2. \A t \in Streams \ {s} : pc[t] = "idle" /\ packet[t] = 0
    BY <1>1, Alone DEF Inv
  <2> QED
    BY <1>1, <2>1, <2>2 DEF Inv, Types
<1>3. <<>> \in Seq(Nat) /\ DOMAIN <<>> = {}
  BY EmptySeq, LenProperties
<1>4. Types'
  <2>1. waiting' \in [Streams -> Seq(Nat)] /\ bytes' \in [Streams -> Int]
    BY <1>1, <1>3
  <2>2. \A t \in Streams : \A i \in DOMAIN waiting'[t] : waiting'[t][i] \in DOMAIN file
    BY <1>1, <1>3
  <2>3. pc' \in [Streams -> {"idle", "reading", "handing", "clearing"}]
    BY <1>1 DEF Inv, Types
  <2> QED
    BY <1>1, <2>1, <2>2, <2>3 DEF Inv, Types
<1>5. OneCaller' /\ CallInv' /\ EndedInv'
  BY <1>1, <1>2 DEF OneCaller, CallInv, EndedInv
<1>6. EachGetsItsOwn'
  <2>1. ASSUME NEW t \in Streams PROVE GetsItsOwn(t)'
    <3>1. got[t] = <<>>
      BY <1>1 DEF Inv, CallInv
    <3>2. got'[t] \o waiting'[t] = <<>>
      BY <1>1, <1>3, <3>1, ConcatEmptySeq
    <3>3. Of(t, from, at)' = {} /\ InHand(t)' = {}
      <4>1. from..(from - 1) = {}
        BY Facts DEF Inv
      <4> QED
        BY <1>1, <1>2, <4>1 DEF Of, InHand
    <3> QED
      BY <1>3, <3>2, <3>3 DEF GetsItsOwn, IsJust, InOrder, Range
  <2> QED
    BY <2>1 DEF EachGetsItsOwn
<1>7. OneOverAtMost'
  BY <1>1 DEF OneOverAtMost
<1> QED
  BY <1>4, <1>5, <1>6, <1>7 DEF Inv

LEMMA InvStep == OneThread /\ Inv /\ [Next]_vars => Inv'
<1> SUFFICES ASSUME OneThread, Inv, [Next]_vars PROVE Inv'
  OBVIOUS
<1>1. CASE UNCHANGED vars
  <2>1. /\ UNCHANGED <<file, limits, at, from, got, waiting, bytes, packet>>
        /\ pc' = pc /\ answer' = answer /\ ended' = ended
    BY <1>1 DEF vars, chosen, queues
  <2>2. Types' /\ OneCaller' /\ CallInv' /\ EndedInv'
    BY <2>1
    DEF Inv, Types, OneCaller, CallInv, EndedInv, SomeoneIsFull, Full
  <2>3. EachGetsItsOwn' /\ OneOverAtMost'
    BY <2>1, SameShares DEF Inv
  <2> QED
    BY <2>2, <2>3 DEF Inv
<1>2. CASE \E s \in Streams : Asks(s)
  BY <1>2, NextWaitingKeeps, NextServesNothingKeeps, NextReadsKeeps,
     NextHandsKeeps, SeekClearsKeeps
  DEF Asks
<1>3. CASE \E s \in Streams : \E to \in 1..Len(file) : SeekMoves(s, to)
  BY <1>3, SeekMovesKeeps
<1> QED
  BY <1>1, <1>2, <1>3 DEF Next

LEMMA SpecInv == ASSUME OneThread PROVE Spec => []Inv
<1>1. Inv /\ [Next]_vars => Inv'
  BY InvStep
<1> QED
  BY InitInv, <1>1, PTL DEF Spec

-----------------------------------------------------------------------------
(* The counts *)

Finite ==
    /\ IsFiniteSet(Waiting) /\ IsFiniteSet(BytesIn(Waiting))
    /\ \A s \in Streams : IsFiniteSet(BytesIn(Range(waiting[s])))

(* A packet more among those that wait is its bytes more. *)
LEMMA Heavier ==
    ASSUME NEW P, NEW k, k \notin P, file[k].bytes \in Nat, IsFiniteSet(BytesIn(P))
    PROVE  /\ IsFiniteSet(BytesIn(P \cup {k}))
           /\ Cardinality(BytesIn(P \cup {k})) = Cardinality(BytesIn(P)) + file[k].bytes
<1> DEFINE n == file[k].bytes
           K == {k} \X (1..n)
<1>1. BytesIn(P \cup {k}) = BytesIn(P) \cup K
  BY DEF BytesIn
<1>2. BytesIn(P) \cap K = {}
  BY DEF BytesIn
<1>3. IsFiniteSet(1..n) /\ Cardinality(1..n) = n
  <2>1. n \in Nat /\ 1 \in Int /\ n \in Int
    OBVIOUS
  <2> HIDE DEF n
  <2>2. IsFiniteSet(1..n) /\ Cardinality(1..n) = IF 1 > n THEN 0 ELSE n - 1 + 1
    BY <2>1, FS_Interval
  <2> QED
    BY <2>1, <2>2
<1>4. IsFiniteSet({k}) /\ Cardinality({k}) = 1
  BY FS_Singleton
<1>5. IsFiniteSet(K) /\ Cardinality(K) = n
  <2>1. IsFiniteSet(K) /\ Cardinality(K) = Cardinality({k}) * Cardinality(1..n)
    BY <1>3, <1>4, FS_Product
  <2>2. n \in Nat
    OBVIOUS
  <2> HIDE DEF n
  <2> QED
    BY <1>3, <1>4, <2>1, <2>2
<1> HIDE DEF K, n
<1>6. /\ IsFiniteSet(BytesIn(P) \cup K)
      /\ Cardinality(BytesIn(P) \cup K) =
           Cardinality(BytesIn(P)) + Cardinality(K) - Cardinality(BytesIn(P) \cap K)
  BY <1>5, FS_Union
<1>7. Cardinality({}) = 0 /\ Cardinality(BytesIn(P)) \in Nat
  BY FS_EmptySet, FS_CardinalityType
<1>8. n \in Nat
  BY DEF n
<1>9. Cardinality(BytesIn(P \cup {k})) = Cardinality(BytesIn(P)) + n
  <2>1. Cardinality(BytesIn(P) \cap K) = 0
    BY <1>2, <1>7
  <2>2. Cardinality(BytesIn(P) \cup K) = Cardinality(BytesIn(P)) + n
    <3> DEFINE a == Cardinality(BytesIn(P))
               b == Cardinality(BytesIn(P) \cup K)
    <3>1. b = a + n - 0
      BY <1>5, <1>6, <2>1
    <3>2. a \in Nat
      BY <1>7
    <3> HIDE DEF a, b
    <3>3. b = a + n
      BY <1>8, <3>1, <3>2
    <3> QED
      BY <3>3 DEF a, b
  <2> QED
    BY <1>1, <2>2
<1> QED
  BY <1>1, <1>6, <1>9 DEF n

LEMMA Lighter ==
    ASSUME NEW P, NEW k \in P, file[k].bytes \in Nat, IsFiniteSet(BytesIn(P))
    PROVE  /\ IsFiniteSet(BytesIn(P \ {k}))
           /\ Cardinality(BytesIn(P \ {k})) = Cardinality(BytesIn(P)) - file[k].bytes
<1>1. BytesIn(P \ {k}) \in SUBSET BytesIn(P)
  BY DEF BytesIn
<1>2. IsFiniteSet(BytesIn(P \ {k}))
  BY <1>1, FS_Subset
<1>3. k \notin P \ {k} /\ (P \ {k}) \cup {k} = P
  OBVIOUS
<1>4. Cardinality(BytesIn(P)) = Cardinality(BytesIn(P \ {k})) + file[k].bytes
  BY <1>2, <1>3, Heavier
<1>5. Cardinality(BytesIn(P \ {k})) \in Nat
  BY <1>2, FS_CardinalityType
<1> QED
  BY <1>2, <1>4, <1>5

LEMMA RangeOfMore ==
    ASSUME NEW w \in Seq(Nat), NEW k \in Nat
    PROVE  Range(Append(w, k)) = Range(w) \cup {k}
<1>1. /\ DOMAIN w = 1..Len(w) /\ DOMAIN Append(w, k) = 1..(Len(w) + 1) /\ Len(w) \in Nat
      /\ \A i \in 1..Len(w) : Append(w, k)[i] = w[i]
      /\ Append(w, k)[Len(w) + 1] = k
  BY AppendProperties, LenProperties
<1>2. \A i \in 1..(Len(w) + 1) : i \in 1..Len(w) \/ i = Len(w) + 1
  BY <1>1
<1>3. 1..Len(w) \subseteq 1..(Len(w) + 1) /\ Len(w) + 1 \in 1..(Len(w) + 1)
  BY <1>1
<1> QED
  BY <1>1, <1>2, <1>3 DEF Range

LEMMA RangeOfTheRest ==
    ASSUME NEW w \in Seq(Nat), w # <<>>, InOrder(w)
    PROVE  Head(w) \in Range(w) /\ Range(Tail(w)) = Range(w) \ {Head(w)}
<1>1. /\ Len(w) \in Nat \ {0} /\ DOMAIN w = 1..Len(w)
      /\ Head(w) = w[1] /\ DOMAIN Tail(w) = 1..(Len(w) - 1)
      /\ \A i \in 1..(Len(w) - 1) : Tail(w)[i] = w[i + 1]
  <2>1. Len(w) \in Nat \ {0} /\ DOMAIN w = 1..Len(w)
    BY EmptySeq, LenProperties
  <2>2. /\ Tail(w) \in Seq(Nat) /\ Len(Tail(w)) = Len(w) - 1 /\ Head(w) = w[1]
        /\ \A i \in 1..(Len(w) - 1) : Tail(w)[i] = w[i + 1]
    BY <2>1, HeadTailProperties
  <2>3. DOMAIN Tail(w) = 1..(Len(w) - 1)
    BY <2>2, LenProperties
  <2> QED
    BY <2>1, <2>2, <2>3
<1>2. 1 \in DOMAIN w
  BY <1>1
<1>3. ASSUME NEW x \in Range(Tail(w)) PROVE x \in Range(w) /\ x # Head(w)
  <2>1. PICK i \in 1..(Len(w) - 1) : x = w[i + 1]
    BY <1>1 DEF Range
  <2>2. i + 1 \in DOMAIN w /\ 1 < i + 1
    BY <1>1
  <2>3. w[1] < w[i + 1] /\ w[1] \in Nat
    BY <1>1, <1>2, <2>2 DEF InOrder
  <2>4. w[i + 1] \in Range(w)
    BY <2>2 DEF Range
  <2>5. w[i + 1] \in Nat
    BY <1>1, <2>2
  <2> QED
    BY <1>1, <2>1, <2>3, <2>4, <2>5
<1>4. ASSUME NEW x \in Range(w), x # Head(w) PROVE x \in Range(Tail(w))
  <2>1. PICK i \in 1..Len(w) : x = w[i]
    BY <1>1 DEF Range
  <2>2. i - 1 \in 1..(Len(w) - 1) /\ (i - 1) + 1 = i
    BY <1>1, <1>4, <2>1
  <2>3. Tail(w)[i - 1] = x
    BY <1>1, <2>1, <2>2
  <2> QED
    BY <1>1, <2>2, <2>3 DEF Range
<1>5. Head(w) \in Range(w)
  BY <1>1, <1>2 DEF Range
<1> QED
  BY <1>3, <1>4, <1>5

(* What waits for a stream is its own, each packet once. *)
LEMMA WaitsItsOwn ==
    ASSUME Inv, \A s \in Streams : pc[s] # "clearing", NEW s \in Streams
    PROVE  /\ InOrder(waiting[s])
           /\ \A k \in Range(waiting[s]) : k \in DOMAIN file /\ file[k].stream = s
           /\ \A k \in InHand(s) : k \notin Range(waiting[s])
<1> DEFINE g == got[s]
           w == waiting[s]
           had == g \o w
<1>1. /\ IsJust(had, Of(s, from, at) \ InHand(s))
      /\ \A k \in InHand(s) : \A i \in DOMAIN had : had[i] < k
      /\ InHand(s) \subseteq Of(s, from, at)
  BY DEF Inv, EachGetsItsOwn, GetsItsOwn
<1>2. g \in Seq(Nat) /\ w \in Seq(Nat)
  BY Facts DEF Inv
<1> HIDE DEF g, w
<1>3. /\ Len(g) \in Nat /\ Len(w) \in Nat /\ DOMAIN w = 1..Len(w)
      /\ DOMAIN had = 1..(Len(g) + Len(w))
      /\ \A i \in 1..Len(w) : i + Len(g) \in DOMAIN had /\ had[i + Len(g)] = w[i]
  <2>1. Len(g) \in Nat /\ Len(w) \in Nat /\ DOMAIN w = 1..Len(w)
    BY <1>2, LenProperties
  <2>2. /\ had \in Seq(Nat) /\ Len(had) = Len(g) + Len(w)
        /\ \A i \in 1..(Len(g) + Len(w)) :
             had[i] = IF i <= Len(g) THEN g[i] ELSE w[i - Len(g)]
    BY <1>2, ConcatProperties
  <2>3. DOMAIN had = 1..(Len(g) + Len(w))
    BY <2>2, LenProperties
  <2> HIDE DEF had
  <2>4. ASSUME NEW i \in 1..Len(w)
        PROVE  i + Len(g) \in DOMAIN had /\ had[i + Len(g)] = w[i]
    <3>1. i + Len(g) \in 1..(Len(g) + Len(w)) /\ ~(i + Len(g) <= Len(g))
          /\ i + Len(g) - Len(g) = i
      BY <2>1
    <3> QED
      BY <2>2, <2>3, <3>1
  <2> QED
    BY <2>1, <2>3, <2>4
<1> HIDE DEF had
<1>4. InOrder(w)
  <2>1. ASSUME NEW i \in DOMAIN w, NEW j \in DOMAIN w, i < j PROVE w[i] < w[j]
    <3>1. i + Len(g) \in DOMAIN had /\ j + Len(g) \in DOMAIN had /\ i + Len(g) < j + Len(g)
      BY <1>3, <2>1
    <3> QED
      BY <1>1, <1>3, <3>1 DEF IsJust, InOrder
  <2> QED
    BY <2>1 DEF InOrder
<1>5. Range(w) \subseteq Range(had)
  BY <1>3 DEF Range
<1>6. \A k \in Range(w) : k \in Of(s, from, at)
  BY <1>1, <1>5 DEF IsJust
<1>7. \A k \in Of(s, from, at) : k \in DOMAIN file /\ file[k].stream = s
  <2>1. /\ at \in Nat /\ from \in Nat /\ 1 <= from /\ at <= Len(file) + 1
        /\ Len(file) \in Nat /\ DOMAIN file = 1..Len(file)
    BY Facts DEF Inv
  <2> QED
    BY <2>1 DEF Of
<1>8. \A k \in InHand(s) : k \notin Range(w)
  <2> SUFFICES ASSUME NEW k \in InHand(s), k \in Range(w) PROVE FALSE
    OBVIOUS
  <2>1. PICK i \in DOMAIN had : had[i] = k
    BY <1>5 DEF Range
  <2>2. k < k /\ k \in Int
    <3>1. k \in Of(s, from, at) /\ at \in Nat /\ from \in Nat
      BY <1>1, Facts DEF Inv
    <3> QED
      BY <1>1, <2>1, <3>1 DEF Of
  <2> QED
    BY <2>2
<1> QED
  BY <1>4, <1>6, <1>7, <1>8 DEF w

LEMMA CountsInit == Init => Finite /\ CountsWhatWaits
<1> SUFFICES ASSUME Init PROVE Finite /\ CountsWhatWaits
  OBVIOUS
<1>1. Range(<<>>) = {}
  BY EmptySeq, LenProperties DEF Range
<1>2. Waiting = {} /\ \A s \in Streams : Range(waiting[s]) = {}
  BY <1>1 DEF Init, Waiting
<1>3. BytesIn({}) = {}
  BY DEF BytesIn
<1>4. IsFiniteSet({}) /\ Cardinality({}) = 0
  BY FS_EmptySet
<1>5. queuedBytes = 0 /\ queuedPackets = 0 /\ \A s \in Streams : bytes[s] = 0
  BY DEF Init
<1> QED
  BY <1>2, <1>3, <1>4, <1>5 DEF Finite, CountsWhatWaits

(* Nothing that is counted is touched, or all of it is thrown away. *)
LEMMA CountsStay ==
    ASSUME Finite, CountsWhatWaits,
           UNCHANGED <<file, waiting, bytes, queuedBytes, queuedPackets>>
    PROVE  (Finite /\ CountsWhatWaits)'
BY DEF Finite, CountsWhatWaits, Waiting, BytesIn, Range

LEMMA CountsClear ==
    ASSUME NEW s \in Streams, SeekClears(s)
    PROVE  (Finite /\ CountsWhatWaits)'
<1>1. Range(<<>>) = {}
  BY EmptySeq, LenProperties DEF Range
<1>2. \A t \in Streams : waiting'[t] = <<>> /\ bytes'[t] = 0
  BY DEF SeekClears
<1>3. Waiting' = {} /\ \A t \in Streams : Range(waiting[t])' = {}
  BY <1>1, <1>2 DEF Waiting, Range
<1>4. BytesIn({}) = {}
  BY DEF BytesIn
<1>5. BytesIn(Waiting)' = {} /\ \A t \in Streams : BytesIn(Range(waiting[t]))' = {}
  BY <1>3 DEF BytesIn
<1>6. IsFiniteSet({}) /\ Cardinality({}) = 0
  BY FS_EmptySet
<1>7. queuedBytes' = 0 /\ queuedPackets' = 0
  BY DEF SeekClears
<1> QED
  BY <1>2, <1>3, <1>5, <1>6, <1>7 DEF Finite, CountsWhatWaits

LEMMA CountsServed ==
    ASSUME Inv, OneThread, Finite, CountsWhatWaits, NEW s \in Streams, NextWaiting(s)
    PROVE  (Finite /\ CountsWhatWaits)'
<1> DEFINE k == Head(waiting[s])
<1>1. /\ Calls(s) /\ waiting[s] # <<>> /\ file' = file
      /\ waiting' = [waiting EXCEPT ![s] = Tail(waiting[s])]
      /\ bytes' = [bytes EXCEPT ![s] = bytes[s] - file[k].bytes]
      /\ queuedBytes' = queuedBytes - file[k].bytes
      /\ queuedPackets' = queuedPackets - 1
  BY DEF NextWaiting, chosen
<1>2. \A t \in Streams : pc[t] # "clearing"
  BY <1>1, AllIdle DEF Inv
<1>3. waiting[s] \in Seq(Nat) /\ InOrder(waiting[s])
  BY <1>2, WaitsItsOwn, Facts DEF Inv
<1>4. k \in Range(waiting[s]) /\ Range(Tail(waiting[s])) = Range(waiting[s]) \ {k}
  BY <1>1, <1>3, RangeOfTheRest
<1>5. file[k].bytes \in Nat
  BY <1>2, <1>4, WaitsItsOwn, Facts DEF Inv
<1>6. /\ waiting'[s] = Tail(waiting[s]) /\ bytes'[s] = bytes[s] - file[k].bytes
      /\ \A t \in Streams \ {s} : waiting'[t] = waiting[t] /\ bytes'[t] = bytes[t]
  BY <1>1 DEF Inv, Types
<1> HIDE DEF k
<1>7. \A t \in Streams \ {s} : k \notin Range(waiting[t])
  BY <1>2, <1>4, WaitsItsOwn
<1>8. /\ Range(waiting[s])' = Range(waiting[s]) \ {k}
      /\ \A t \in Streams \ {s} : Range(waiting[t])' = Range(waiting[t])
  BY <1>4, <1>6 DEF Range
<1>9. k \in Waiting /\ Waiting' = Waiting \ {k}
  BY <1>4, <1>7, <1>8 DEF Waiting
<1>10. /\ BytesIn(Waiting)' = BytesIn(Waiting \ {k})
       /\ BytesIn(Range(waiting[s]))' = BytesIn(Range(waiting[s]) \ {k})
       /\ \A t \in Streams \ {s} : BytesIn(Range(waiting[t]))' = BytesIn(Range(waiting[t]))
  BY <1>1, <1>8, <1>9 DEF BytesIn
<1>11. /\ IsFiniteSet(BytesIn(Waiting \ {k}))
       /\ Cardinality(BytesIn(Waiting \ {k})) = Cardinality(BytesIn(Waiting)) - file[k].bytes
  BY <1>5, <1>9, Lighter DEF Finite
<1>12. /\ IsFiniteSet(BytesIn(Range(waiting[s]) \ {k}))
       /\ Cardinality(BytesIn(Range(waiting[s]) \ {k})) =
            Cardinality(BytesIn(Range(waiting[s]))) - file[k].bytes
  BY <1>4, <1>5, Lighter DEF Finite
<1>13. IsFiniteSet(Waiting \ {k}) /\ Cardinality(Waiting \ {k}) = Cardinality(Waiting) - 1
  BY <1>9, FS_RemoveElement DEF Finite
<1>14. Finite'
  BY <1>9, <1>10, <1>11, <1>12, <1>13 DEF Finite
<1>15. \A t \in Streams : bytes'[t] = Cardinality(BytesIn(Range(waiting[t])))'
  BY <1>6, <1>10, <1>12 DEF CountsWhatWaits
<1>16. queuedBytes' = Cardinality(BytesIn(Waiting))' /\ queuedPackets' = Cardinality(Waiting)'
  BY <1>1, <1>9, <1>10, <1>11, <1>13 DEF CountsWhatWaits, k
<1> QED
  BY <1>14, <1>15, <1>16 DEF CountsWhatWaits

LEMMA CountsHanded ==
    ASSUME Inv, Finite, CountsWhatWaits, NEW s \in Streams, NextHands(s)
    PROVE  (Finite /\ CountsWhatWaits)'
<1>0. PICK k, q : k = packet[s] /\ q = file[k].stream
  OBVIOUS
<1>1. /\ pc[s] = "handing" /\ file' = file
      /\ waiting' = [waiting EXCEPT ![q] = Append(waiting[q], k)]
      /\ bytes' = [bytes EXCEPT ![q] = bytes[q] + file[k].bytes]
      /\ queuedBytes' = queuedBytes + file[k].bytes
      /\ queuedPackets' = queuedPackets + 1
  BY <1>0 DEF NextHands, chosen
<1>2. q \in Streams /\ k = at - 1 /\ at > from
  BY <1>0, <1>1 DEF Inv, CallInv
<1>3. k \in DOMAIN file /\ k \in Nat /\ k # 0 /\ file[k].bytes \in Nat
  BY <1>2, Facts DEF Inv
<1>4. \A t \in Streams : pc[t] # "clearing"
  BY <1>1, Alone DEF Inv
<1>5. k \in InHand(q)
  BY <1>0, <1>3 DEF InHand
<1>6. waiting[q] \in Seq(Nat)
  BY <1>2, Facts DEF Inv
<1>7. \A t \in Streams : k \notin Range(waiting[t])
  BY <1>0, <1>2, <1>4, <1>5, WaitsItsOwn
<1>8. /\ waiting'[q] = Append(waiting[q], k) /\ bytes'[q] = bytes[q] + file[k].bytes
      /\ \A t \in Streams \ {q} : waiting'[t] = waiting[t] /\ bytes'[t] = bytes[t]
  BY <1>1, <1>2 DEF Inv, Types
<1>9. /\ Range(waiting[q])' = Range(waiting[q]) \cup {k}
       /\ \A t \in Streams \ {q} : Range(waiting[t])' = Range(waiting[t])
  <2>1. Range(Append(waiting[q], k)) = Range(waiting[q]) \cup {k}
    BY <1>3, <1>6, RangeOfMore
  <2>2. \A t \in Streams : Range(waiting[t])' = Range(waiting'[t])
    BY <1>2 DEF Range
  <2> QED
    BY <1>2, <1>8, <2>1, <2>2
<1>10. k \notin Waiting /\ Waiting' = Waiting \cup {k}
  BY <1>2, <1>7, <1>9 DEF Waiting
<1>11. /\ BytesIn(Waiting)' = BytesIn(Waiting \cup {k})
       /\ BytesIn(Range(waiting[q]))' = BytesIn(Range(waiting[q]) \cup {k})
       /\ \A t \in Streams \ {q} : BytesIn(Range(waiting[t]))' = BytesIn(Range(waiting[t]))
  BY <1>1, <1>9, <1>10 DEF BytesIn
<1>12. /\ IsFiniteSet(BytesIn(Waiting \cup {k}))
       /\ Cardinality(BytesIn(Waiting \cup {k})) = Cardinality(BytesIn(Waiting)) + file[k].bytes
  BY <1>3, <1>10, Heavier DEF Finite
<1>13. /\ IsFiniteSet(BytesIn(Range(waiting[q]) \cup {k}))
       /\ Cardinality(BytesIn(Range(waiting[q]) \cup {k})) =
            Cardinality(BytesIn(Range(waiting[q]))) + file[k].bytes
  BY <1>2, <1>3, <1>7, Heavier DEF Finite
<1>14. IsFiniteSet(Waiting \cup {k}) /\ Cardinality(Waiting \cup {k}) = Cardinality(Waiting) + 1
  BY <1>10, FS_AddElement DEF Finite
<1>15. Finite'
  BY <1>10, <1>11, <1>12, <1>13, <1>14 DEF Finite
<1>16. \A t \in Streams : bytes'[t] = Cardinality(BytesIn(Range(waiting[t])))'
  BY <1>2, <1>8, <1>11, <1>13 DEF CountsWhatWaits
<1>17. queuedBytes' = Cardinality(BytesIn(Waiting))' /\ queuedPackets' = Cardinality(Waiting)'
  BY <1>1, <1>10, <1>11, <1>12, <1>14 DEF CountsWhatWaits
<1> QED
  BY <1>15, <1>16, <1>17 DEF CountsWhatWaits

LEMMA CountsStep ==
    ASSUME Inv, OneThread, Finite, CountsWhatWaits, [Next]_vars
    PROVE  (Finite /\ CountsWhatWaits)'
<1>1. CASE UNCHANGED <<file, waiting, bytes, queuedBytes, queuedPackets>>
  BY <1>1, CountsStay
<1>2. ASSUME NEW s \in Streams, Asks(s) \/ \E to \in 1..Len(file) : SeekMoves(s, to)
      PROVE  \/ UNCHANGED <<file, waiting, bytes, queuedBytes, queuedPackets>>
             \/ NextWaiting(s) \/ NextHands(s) \/ SeekClears(s)
  BY <1>2 DEF Asks, NextEnded, NextBegins, NextBusy, NextEnds, NextReads, SeekMoves,
              chosen, queues
<1>3. CASE UNCHANGED vars
  BY <1>1, <1>3 DEF vars, chosen, queues
<1> QED
  BY <1>1, <1>2, <1>3, CountsServed, CountsHanded, CountsClear DEF Next

-----------------------------------------------------------------------------
(* The theorems *)

(* Consumers that call from one thread: what each got, what waits for it    *)
(* and what is being handed to it is, in the file's order, every packet of  *)
(* its own that was read since the file last moved, for every file, every   *)
(* cap and every order of calls and seeks (packet.cpp, next() and seek()).  *)
THEOREM RouterGivesEachItsOwn ==
    ASSUME OneThread PROVE Spec => []EachGetsItsOwn
<1>1. Inv => EachGetsItsOwn
  BY DEF Inv
<1> QED
  BY SpecInv, <1>1, PTL

(* Called from one thread, a queue is over its cap by no more than the      *)
(* packet that took it there (packet.cpp:373-375, someone_is_full).         *)
THEOREM RouterIsOneOverAtMost ==
    ASSUME OneThread PROVE Spec => []OneOverAtMost
<1>1. Inv => OneOverAtMost
  BY DEF Inv
<1> QED
  BY SpecInv, <1>1, PTL

(* Back pressure goes by counts that are right (packet.hpp:195-197,          *)
(* 289-292): the bytes and packets counted are those that wait, whatever was *)
(* served, queued and thrown away, and no queue passes its cap by more than  *)
(* one packet.                                                               *)
THEOREM RouterCapsHold ==
    ASSUME OneThread PROVE Spec => []CapsHold
<1>1. Init => Inv /\ Finite /\ CountsWhatWaits
  BY InitInv, CountsInit
<1>2. Inv /\ Finite /\ CountsWhatWaits /\ [Next]_vars => (Inv /\ Finite /\ CountsWhatWaits)'
  BY InvStep, CountsStep
<1>3. Inv /\ Finite /\ CountsWhatWaits => CapsHold
  BY DEF Inv, CapsHold
<1> QED
  BY <1>1, <1>2, <1>3, PTL DEF Spec

LEMMA ToldOfTheEnd ==
    ASSUME OneThread, Inv, [Next]_vars, NEW s \in Streams,
           answer'[s] = "end", answer[s] # "end"
    PROVE  IsJust(got[s], Of(s, from, Len(file) + 1))
<1>1. NextEnded(s) \/ NextEnds(s)
  <2>1. ASSUME NEW t \in Streams, Asks(t) PROVE NextEnded(s) \/ NextEnds(s)
    <3>1. answer' = answer \/ answer' = [answer EXCEPT ![t] = "packet"]
            \/ answer' = [answer EXCEPT ![t] = "busy"]
            \/ ((NextEnded(t) \/ NextEnds(t)) /\ answer' = [answer EXCEPT ![t] = "end"])
      BY <2>1 DEF Asks, NextWaiting, NextEnded, NextBegins, NextBusy, NextEnds,
                  NextReads, NextHands, SeekClears, Deliver, Answer
    <3> QED
      BY <3>1 DEF Inv, Types
  <2>2. ASSUME NEW t \in Streams, NEW to \in 1..Len(file), SeekMoves(t, to)
        PROVE  FALSE
    BY <2>2 DEF SeekMoves
  <2> QED
    BY <2>1, <2>2 DEF Next, vars
<1>2. /\ \A t \in Streams : pc[t] # "clearing" /\ packet[t] = 0
      /\ waiting[s] = <<>> /\ at = Len(file) + 1
  <2>1. CASE NextEnded(s)
    <3>1. Calls(s) /\ waiting[s] = <<>> /\ ended
      BY <2>1 DEF NextEnded
    <3>2. \A t \in Streams : pc[t] = "idle" /\ packet[t] = 0
      BY <3>1, AllIdle DEF Inv
    <3> QED
      BY <3>1, <3>2 DEF Inv, EndedInv
  <2>2. CASE NextEnds(s)
    <3>1. pc[s] = "reading" /\ at > Len(file)
      BY <2>2 DEF NextEnds
    <3>2. \A t \in Streams \ {s} : pc[t] = "idle" /\ packet[t] = 0
      BY <3>1, Alone DEF Inv
    <3>3. packet[s] = 0 /\ waiting[s] = <<>>
      BY <3>1 DEF Inv, CallInv
    <3>4. at = Len(file) + 1
      BY <3>1, Facts DEF Inv
    <3> QED
      BY <3>1, <3>2, <3>3, <3>4
  <2> QED
    BY <1>1, <2>1, <2>2
<1>3. GetsItsOwn(s) /\ InHand(s) = {}
  BY <1>2, HandEmpty DEF Inv, EachGetsItsOwn
<1>4. got[s] \o waiting[s] = got[s]
  BY <1>2, Facts, ConcatEmptySeq DEF Inv
<1> QED
  BY <1>2, <1>3, <1>4 DEF GetsItsOwn

(* Called from one thread, a consumer is told of the end when it has had    *)
(* every packet of its own since the file last moved, and not before, also  *)
(* when the file ended in another's call (packet.cpp:368-370, 379-381).     *)
THEOREM RouterEndIsTheEnd ==
    ASSUME OneThread PROVE Spec => EndIsTheEnd
<1>1. Inv /\ [Next]_vars
        => [\A s \in Streams : answer'[s] = "end" /\ answer[s] # "end" =>
               IsJust(got[s], Of(s, from, Len(file) + 1))]_vars
  BY ToldOfTheEnd
<1> QED
  BY SpecInv, <1>1, PTL DEF Spec, EndIsTheEnd
=============================================================================
