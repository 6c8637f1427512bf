------------------------- MODULE PacketSourceProofs -------------------------
(***************************************************************************)
(* Proofs about PacketSource, for every way of cutting a stream into       *)
(* packets, every edit a file may state and every size of a read: the      *)
(* types are kept, what is handed over is the audio from the frame asked   *)
(* for and nothing else, and a read that returns nothing means all of it   *)
(* was handed over.                                                        *)
(*                                                                         *)
(* What read() holds, in pcm or held back in carry, is always the frames   *)
(* just before pos, and the first of them, past what is still to be        *)
(* skipped, is the one after the last that was handed over.                *)
(***************************************************************************)
EXTENDS PacketSource, SequenceTheorems, WellFoundedInduction, TLAPS

-----------------------------------------------------------------------------
(* The cuts. *)

(* A set of naturals with a member has a least one. *)
LEMMA LeastMember ==
    ASSUME NEW T \in SUBSET Nat, T # {}
    PROVE  \E m \in T : \A n \in T : m <= n
<1>1. \A m, n \in Nat : n < m => <<n, m>> \in OpToRel(<, Nat)
  BY SMT DEF OpToRel
<1>2. \E m \in T : \A n \in T : <<n, m>> \notin OpToRel(<, Nat)
  BY NatLessThanWellFounded, WFMin
<1>3. PICK R : /\ \A m, n \in Nat : n < m => <<n, m>> \in R
               /\ \E m \in T : \A n \in T : <<n, m>> \notin R
  BY <1>1, <1>2, Zenon
<1>4. PICK m \in T : \A n \in T : <<n, m>> \notin R
  BY <1>3, Zenon
<1>5. \A n \in T : ~(n < m)
  BY <1>3, <1>4, Zenon
<1> QED
  BY <1>5

(* The packets end at Total. *)
LEMMA CutsEnd ==
    Total \in Nat /\ Total \in Cuts /\ \A c \in Cuts : c \in Nat /\ c <= Total
<1>1. PICK last \in Cuts : \A c \in Cuts : c <= last
  BY SourceAssumption
<1>2. Cuts \subseteq Nat
  BY SourceAssumption
<1>3. \A c \in Cuts : last >= c
  BY <1>1, <1>2
<1>4. Total \in Cuts /\ \A c \in Cuts : Total >= c
  BY <1>1, <1>3 DEF Total, Max
<1> QED
  BY <1>2, <1>4

(* A packet holds at least a frame, and none reaches past the end. *)
LEMMA NextCutIs ==
    ASSUME NEW p \in Nat, p < Total
    PROVE  NextCut(p) \in Nat /\ p < NextCut(p) /\ NextCut(p) <= Total
<1> DEFINE Later == {c \in Cuts : c > p}
<1>1. Total \in Later /\ Later \subseteq Nat
  BY CutsEnd
<1>2. PICK m \in Later : \A n \in Later : m <= n
  <2> HIDE DEF Later
  <2> QED
    BY <1>1, LeastMember
<1>3. NextCut(p) \in Later
  BY <1>2 DEF NextCut, Min
<1> QED
  BY <1>3, CutsEnd

-----------------------------------------------------------------------------
(* Frames in a row. *)

LEMMA SpanIs ==
    ASSUME NEW F, NEW a \in Nat, NEW b \in Nat, a <= b,
           \A x \in Nat : a <= x /\ x < b => x \in F
    PROVE  /\ Span(a, b) \in Seq(F)
           /\ Len(Span(a, b)) = b - a
           /\ \A i \in 1..(b - a) : Span(a, b)[i] = a + i - 1
<1>1. \A i \in 1..(b - a) : a + i - 1 \in F
  BY SMT
<1>2. b - a \in Nat
  OBVIOUS
<1>3. [i \in 1..(b - a) |-> a + i - 1] \in Seq(F)
  BY <1>1, <1>2, IsASeq
<1> QED
  BY <1>2, <1>3 DEF Span

LEMMA DropIs ==
    ASSUME NEW F, NEW s \in Seq(F), NEW n \in 0..Len(s)
    PROVE  /\ Drop(s, n) \in Seq(F)
           /\ Len(Drop(s, n)) = Len(s) - n
           /\ \A i \in 1..(Len(s) - n) : Drop(s, n)[i] = s[n + i]
<1>1. Len(s) \in Nat /\ \A i \in 1..Len(s) : s[i] \in F
  OBVIOUS
<1>2. \A i \in (n + 1)..Len(s) : s[i] \in F
  BY <1>1
<1>3. n + 1 \in Int /\ Len(s) \in Int
  BY <1>1
<1> DEFINE d == SubSeq(s, n + 1, Len(s))
<1>4. /\ d \in Seq(F)
      /\ Len(d) = IF n + 1 <= Len(s) THEN Len(s) - (n + 1) + 1 ELSE 0
      /\ \A i \in 1..(Len(s) - (n + 1) + 1) : d[i] = s[(n + 1) + i - 1]
  BY <1>2, <1>3, SubSeqProperties
<1> HIDE DEF d
<1>5. Len(d) = Len(s) - n /\ \A i \in 1..(Len(s) - n) : d[i] = s[n + i]
  BY <1>1, <1>4
<1> QED
  BY <1>4, <1>5 DEF d, Drop

LEMMA FrontIs ==
    ASSUME NEW F, NEW s \in Seq(F), NEW n \in 0..Len(s)
    PROVE  /\ SubSeq(s, 1, n) \in Seq(F)
           /\ Len(SubSeq(s, 1, n)) = n
           /\ \A i \in 1..n : SubSeq(s, 1, n)[i] = s[i]
<1>1. Len(s) \in Nat /\ \A i \in 1..n : s[i] \in F
  OBVIOUS
<1> DEFINE d == SubSeq(s, 1, n)
<1>2. /\ d \in Seq(F)
      /\ Len(d) = IF 1 <= n THEN n - 1 + 1 ELSE 0
      /\ \A i \in 1..(n - 1 + 1) : d[i] = s[1 + i - 1]
  BY <1>1, SubSeqProperties
<1> HIDE DEF d
<1>3. Len(d) = n /\ \A i \in 1..n : d[i] = s[i]
  BY <1>1, <1>2
<1> QED
  BY <1>2, <1>3 DEF d

(* The frames just before `to`, in a row, and those that follow them. *)
RowTo(s, to) == \A i \in 1..Len(s) : s[i] = to - Len(s) + i - 1

LEMMA JoinIs ==
    ASSUME NEW n \in Nat, NEW s \in Seq(0..n),
           NEW a \in Nat, NEW b \in Nat, a <= b, b <= n, RowTo(s, a)
    PROVE  /\ s \o Span(a, b) \in Seq(0..n)
           /\ Len(s \o Span(a, b)) = Len(s) + (b - a)
           /\ RowTo(s \o Span(a, b), b)
<1> DEFINE F == 0..n
<1>0. s \in Seq(F) /\ \A x \in Nat : a <= x /\ x < b => x \in F
  OBVIOUS
<1> HIDE DEF F
<1> DEFINE t == Span(a, b)
<1>1. /\ t \in Seq(F) /\ Len(t) = b - a
      /\ \A i \in 1..(b - a) : t[i] = a + i - 1
  BY <1>0, SpanIs, ZenonT(40)
<1> HIDE DEF t
<1>2. /\ s \o t \in Seq(F)
      /\ Len(s \o t) = Len(s) + Len(t)
      /\ \A i \in 1..(Len(s) + Len(t)) :
             (s \o t)[i] = IF i <= Len(s) THEN s[i] ELSE t[i - Len(s)]
  BY <1>0, <1>1, ConcatProperties
<1>3. Len(s) \in Nat
  OBVIOUS
<1>4. ASSUME NEW i \in 1..(Len(s) + (b - a))
      PROVE  (s \o t)[i] = a - Len(s) + i - 1
  <2>1. CASE i <= Len(s)
    <3>1. i \in 1..Len(s)
      BY <2>1, <1>3
    <3> QED
      BY <1>1, <1>2, <2>1, <3>1 DEF RowTo
  <2>2. CASE ~(i <= Len(s))
    <3>1. i - Len(s) \in 1..(b - a)
      BY <2>2, <1>3
    <3>2. (s \o t)[i] = t[i - Len(s)]
      BY <1>1, <1>2, <2>2
    <3>3. t[i - Len(s)] = a + (i - Len(s)) - 1
      BY <1>1, <3>1
    <3> QED
      BY <1>3, <3>2, <3>3
  <2> QED
    BY <2>1, <2>2
<1>5. Len(s \o t) = Len(s) + (b - a)
  BY <1>1, <1>2
<1>6. RowTo(s \o t, b)
  <2>1. \A i \in 1..Len(s \o t) : (s \o t)[i] = b - Len(s \o t) + i - 1
    BY <1>3, <1>4, <1>5
  <2> QED
    BY <2>1 DEF RowTo
<1> QED
  BY <1>2, <1>5, <1>6 DEF t, F

LEMMA SpanOf ==
    ASSUME NEW F, NEW s \in Seq(F), NEW a \in Nat,
           \A i \in 1..Len(s) : s[i] = a + i - 1
    PROVE  s = Span(a, a + Len(s))
<1>1. Len(s) \in Nat /\ s = [i \in 1..Len(s) |-> s[i]]
  OBVIOUS
<1>2. (a + Len(s)) - a = Len(s)
  BY <1>1
<1> QED
  BY <1>1, <1>2 DEF Span

-----------------------------------------------------------------------------
(* The invariant *)

(* The whole audio can be accounted for: see HandsOverTheAudio. *)
Good == ~failed /\ (starved => Trim = 0)

(* What read() has decoded and not handed over. *)
Held == IF carry = <<>> THEN pcm ELSE carry

WantInv == pc # "idle" => want \in ReadSizes

(* What is held back is no more than the padding, and goes in front of what *)
(* is decoded next.                                                         *)
CarryInv ==
    /\ carry # <<>> => pcm = <<>>
    /\ Len(carry) <= Trim
    /\ pc = "pumping" => carry = <<>> /\ ~drained /\ Len(pcm) <= Trim

PosInv == ~drained => pos <= Total
ColdInv == cold > 0 => afterSeek /\ ~SelfDecodes

(* What a stated length leaves. *)
LeftInv ==
    Bounded =>
        Len(out) + remaining = IF edit.play > start THEN edit.play - start ELSE 0

OutInv == \A i \in 1..Len(out) : out[i] = First + i - 1

(* Between a seek and the packet that says how much precedes its target. *)
SeekInv ==
    afterSeek =>
        /\ out = <<>> /\ pcm = <<>> /\ carry = <<>>
        /\ skip = 0 /\ ~drained
        /\ seekTarget = First /\ pos <= First
        /\ SelfDecodes => pos = First
        /\ ~SelfDecodes => pos < Total
        /\ cold > 0 => NextCut(pos) <= First /\ NextCut(pos) < Total

(* What is held is the frames just before pos, and what is next to be       *)
(* handed over is the first of them past what is skipped.                   *)
HeldInv ==
    ~afterSeek /\ ~(drained /\ pcm = <<>>) =>
        /\ Len(Held) <= pos
        /\ RowTo(Held, pos)
        /\ pos - Len(Held) + skip = First + Len(out)

BoundInv == out # <<>> => First + Len(out) <= Last

EndInv ==
    drained => pos = AllFrames /\ (pcm = <<>> => First + Len(out) >= Last)

FlowInv == OutInv /\ SeekInv /\ HeldInv /\ BoundInv /\ EndInv

Inv ==
    /\ TypeOK /\ WantInv /\ CarryInv /\ PosInv /\ ColdInv /\ LeftInv
    /\ Good => FlowInv

(* The quantities the edit and the cuts fix. *)
LEMMA Quantities ==
    ASSUME TypeOK
    PROVE  /\ edit.skip \in Nat /\ edit.play \in Nat /\ edit.trim \in Nat
           /\ SelfDecodes \in BOOLEAN
           /\ Trim \in Nat /\ First \in Nat /\ Last \in Int
           /\ AllFrames \in Nat /\ Total <= AllFrames
           /\ SelfDecodes => AllFrames = Total
           /\ Flushed \in Nat
           /\ ~SelfDecodes => AllFrames = Total + Flushed
           /\ Last <= AllFrames - Trim
           /\ Bounded => Last <= edit.skip + edit.play
           /\ ~Bounded => Last = AllFrames - Trim
           /\ Last = AllFrames - Trim \/ Last = edit.skip + edit.play
<1>1. edit \in [skip : Nat, play : Nat, trim : Nat, self : BOOLEAN]
  BY SourceAssumption DEF TypeOK
<1>2. /\ edit.skip \in Nat /\ edit.play \in Nat /\ edit.trim \in Nat
      /\ edit.self \in BOOLEAN
  BY <1>1
<1>3. Rate \in Nat /\ Flushed \in Nat /\ Total \in Nat
  BY SourceAssumption, CutsEnd
<1>4. Trim \in Nat
  BY <1>2, <1>3 DEF Trim
<1>5. start \in Nat
  BY DEF TypeOK
<1>6. /\ AllFrames \in Nat /\ Total <= AllFrames
      /\ SelfDecodes => AllFrames = Total
      /\ ~SelfDecodes => AllFrames = Total + Flushed
  BY <1>2, <1>3 DEF AllFrames, SelfDecodes
<1> QED
  BY <1>2, <1>3, <1>4, <1>5, <1>6 DEF First, Last, Least, Bounded, SelfDecodes

(* No step changes the edit but the quantities may be read after it. *)
LEMMA SameEdit ==
    ASSUME edit' = edit
    PROVE  /\ Trim' = Trim /\ AllFrames' = AllFrames
           /\ SelfDecodes' = SelfDecodes /\ Bounded' = Bounded
           /\ start' = start => First' = First
           /\ Last' = Last
BY DEF Trim, AllFrames, SelfDecodes, Bounded, First, Last

-----------------------------------------------------------------------------
(* The types *)

LEMMA InitType == Init => TypeOK
<1> SUFFICES ASSUME Init PROVE TypeOK
  OBVIOUS
<1>1. edit \in [skip : Nat, play : Nat, trim : Nat, self : BOOLEAN]
  BY SourceAssumption DEF Init
<1>2. AllFrames \in Nat
  BY <1>1, SourceAssumption, CutsEnd DEF AllFrames
<1>3. MaxSeeks \in Nat
  BY SourceAssumption
<1>4. <<>> \in Seq(0..AllFrames)
  BY EmptySeq
<1>5. edit.skip \in Nat /\ edit.play \in Nat
  BY <1>1
<1>6. /\ pcm \in Seq(0..AllFrames) /\ carry \in Seq(0..AllFrames)
      /\ out \in Seq(0..AllFrames)
  BY <1>4, Zenon DEF Init
<1>7. /\ edit \in Edits /\ pos \in 0..AllFrames /\ cold \in 0..1
      /\ skip \in Nat /\ remaining \in Nat /\ position \in Nat
      /\ seekTarget \in Nat /\ start \in Nat /\ seeks \in 0..MaxSeeks
      /\ want = 0 /\ filled \in 0..want
  BY <1>2, <1>3, <1>5 DEF Init
<1> QED
  BY <1>6, <1>7 DEF Init, TypeOK

LEMMA TypeStep ==
    ASSUME TypeOK, WantInv, PosInv, [Next]_vars
    PROVE  TypeOK'
<1> USE DEF WantInv
<1> DEFINE F == 0..AllFrames
<1>1. /\ Trim \in Nat /\ AllFrames \in Nat /\ Total <= AllFrames
      /\ edit.skip \in Nat /\ edit.play \in Nat
      /\ Total \in Nat /\ SelfDecodes \in BOOLEAN
      /\ SelfDecodes => AllFrames = Total
  BY Quantities, CutsEnd
<1>2. /\ pcm \in Seq(F) /\ carry \in Seq(F) /\ out \in Seq(F)
      /\ <<>> \in Seq(F)
      /\ Len(pcm) \in Nat
  BY DEF TypeOK
<1>3. /\ edit \in Edits /\ pos \in Nat /\ pos <= AllFrames /\ cold \in 0..1
      /\ drained \in BOOLEAN /\ afterSeek \in BOOLEAN
      /\ failed \in BOOLEAN /\ starved \in BOOLEAN
      /\ skip \in Nat /\ remaining \in Nat /\ position \in Nat
      /\ seekTarget \in Nat /\ start \in Nat
      /\ pc \in {"idle", "reading", "pumping"}
      /\ want \in ReadSizes \cup {0} /\ filled \in 0..want
      /\ seeks \in 0..MaxSeeks
  BY <1>1 DEF TypeOK
<1>4. want \in Nat /\ ReadSizes \subseteq Nat \ {0} /\ MaxSeeks \in Nat
  BY <1>3, SourceAssumption
<1>5. ASSUME edit' = edit,
             pos' \in Nat, pos' <= AllFrames, cold' \in 0..1,
             pcm' \in Seq(F), carry' \in Seq(F), out' \in Seq(F),
             drained' \in BOOLEAN, afterSeek' \in BOOLEAN,
             failed' \in BOOLEAN, starved' \in BOOLEAN,
             skip' \in Nat, remaining' \in Nat, position' \in Nat,
             seekTarget' \in Nat, start' \in Nat,
             pc' \in {"idle", "reading", "pumping"},
             want' \in ReadSizes \cup {0}, filled' \in 0..want',
             seeks' \in 0..MaxSeeks
      PROVE  TypeOK'
  <2>1. AllFrames' = AllFrames
    BY <1>5, SameEdit
  <2> HIDE DEF F
  <2>2. /\ edit' \in Edits /\ pos' \in 0..AllFrames' /\ cold' \in 0..1
        /\ pcm' \in Seq(0..AllFrames') /\ carry' \in Seq(0..AllFrames')
        /\ out' \in Seq(0..AllFrames')
    BY <1>1, <1>3, <1>5, <2>1 DEF F
  <2> QED
    BY <1>5, <2>2 DEF TypeOK
<1>6. \A n \in 0..Len(pcm) : /\ Drop(pcm, n) \in Seq(F)
                             /\ SubSeq(pcm, 1, n) \in Seq(F)
  BY <1>2, DropIs, FrontIs
<1>7. ASSUME NEW b \in Nat, pos <= b, b <= AllFrames
      PROVE  pcm \o Span(pos, b) \in Seq(F)
  <2>1. \A x \in Nat : pos <= x /\ x < b => x \in F
    BY <1>1, <1>3, <1>7
  <2>2. Span(pos, b) \in Seq(F)
    BY <1>3, <1>7, <2>1, SpanIs
  <2> QED
    BY <1>2, <2>2, ConcatProperties
<1>8. pos < Total =>
          NextCut(pos) \in Nat /\ pos < NextCut(pos) /\ NextCut(pos) <= Total
  BY <1>3, NextCutIs
<1> HIDE DEF F
<1>10. ASSUME NEW n \in ReadSizes, Read(n) PROVE TypeOK'
  BY <1>1, <1>2, <1>3, <1>4, <1>5, <1>10 DEF Read, edits, heard
<1>11. ASSUME ReadIsFull PROVE TypeOK'
  BY <1>1, <1>2, <1>3, <1>4, <1>5, <1>11 DEF ReadIsFull, Returns, edits
<1>12. ASSUME ReadSkips PROVE TypeOK'
  <2> DEFINE drop == Least(skip, Len(pcm))
  <2>1. drop \in 0..Len(pcm) /\ skip - drop \in Nat
    BY <1>2, <1>3 DEF Least
  <2>2. pcm' = Drop(pcm, drop) /\ skip' = skip - drop
    BY <1>12 DEF ReadSkips
  <2> HIDE DEF drop
  <2>3. pcm' \in Seq(F) /\ skip' \in Nat
    BY <1>6, <2>1, <2>2
  <2> QED
    BY <1>1, <1>2, <1>3, <1>4, <1>5, <1>12, <2>3 DEF ReadSkips, heard
<1>13. ASSUME ReadIsOver PROVE TypeOK'
  BY <1>1, <1>2, <1>3, <1>4, <1>5, <1>13 DEF ReadIsOver, Returns, Reading, edits
<1>14. ASSUME ReadCarries PROVE TypeOK'
  BY <1>1, <1>2, <1>3, <1>4, <1>5, <1>14 DEF ReadCarries, Reading, edits, heard
<1>15. ASSUME ReadTakes PROVE TypeOK'
  <2> DEFINE there == Least(want - filled, Len(pcm) - Trim)
             take  == IF Bounded THEN Least(there, remaining) ELSE there
  <2>1. /\ take \in 0..Len(pcm) /\ filled + take \in 0..want
        /\ Bounded => remaining - take \in Nat
    <3>1. /\ there \in 0..Len(pcm) /\ filled + there \in 0..want
      BY <1>1, <1>2, <1>3, <1>4, <1>15, SMTT(30) DEF ReadTakes, Reading, Least
    <3>2. remaining \in Nat
      BY <1>1, <1>2, <1>3, <1>4
    <3> HIDE DEF there
    <3>3. filled \in Nat /\ Len(pcm) \in Nat /\ want \in Nat
      BY <1>1, <1>2, <1>3, <1>4
    <3>4. CASE Bounded
      <4>1. take = Least(there, remaining)
        BY <3>4
      <4> QED
        BY <3>1, <3>2, <3>3, <4>1 DEF Least
    <3>5. CASE ~Bounded
      BY <3>1, <3>5
    <3> QED
      BY <3>4, <3>5
  <2>2. /\ pcm' = Drop(pcm, take) /\ out' = out \o SubSeq(pcm, 1, take)
        /\ filled' = filled + take /\ position' = position + take
        /\ remaining' = IF Bounded THEN remaining - take ELSE remaining
    BY <1>15 DEF ReadTakes
  <2> HIDE DEF take
  <2>3. pcm' \in Seq(F) /\ SubSeq(pcm, 1, take) \in Seq(F)
    BY <1>6, <2>1, <2>2
  <2>4. out' \in Seq(F)
    BY <1>2, <2>2, <2>3, ConcatProperties
  <2>5. /\ filled' \in 0..want /\ position' \in Nat /\ remaining' \in Nat
    BY <1>2, <1>3, <2>1, <2>2
  <2>6. /\ edit' = edit /\ pos' = pos /\ cold' = cold /\ carry' = carry
        /\ drained' = drained /\ afterSeek' = afterSeek /\ failed' = failed
        /\ starved' = starved /\ skip' = skip /\ seekTarget' = seekTarget
        /\ start' = start /\ pc' = pc /\ want' = want /\ seeks' = seeks
    BY <1>15 DEF ReadTakes
  <2> QED
    BY <1>1, <1>2, <1>3, <1>4, <1>5, <2>3, <2>4, <2>5, <2>6
<1>16. ASSUME PumpIsDrained PROVE TypeOK'
  BY <1>1, <1>2, <1>3, <1>4, <1>5, <1>16 DEF PumpIsDrained, Returns, Reading, edits
<1>17. ASSUME PumpBegins PROVE TypeOK'
  BY <1>1, <1>2, <1>3, <1>4, <1>5, <1>17 DEF PumpBegins, Reading, edits, heard
<1>18. ASSUME PumpDecodes PROVE TypeOK'
  <2>1. pcm \o Span(pos, NextCut(pos)) \in Seq(F)
    BY <1>1, <1>3, <1>7, <1>8, <1>18 DEF PumpDecodes
  <2>2. skip' \in Nat
    BY <1>3, <1>18 DEF PumpDecodes, SkipToTarget
  <2>3. pos' \in Nat /\ pos' <= AllFrames
    BY <1>1, <1>8, <1>18 DEF PumpDecodes
  <2> QED
    BY <1>1, <1>2, <1>3, <1>4, <1>5, <1>18, <2>1, <2>2, <2>3
    DEF PumpDecodes, SkipToTarget, heard
<1>19. ASSUME PumpPrimes PROVE TypeOK'
  <2>1. pos' \in Nat /\ pos' <= AllFrames /\ cold' \in 0..1
    BY <1>1, <1>3, <1>8, <1>19 DEF PumpPrimes
  <2> QED
    BY <1>1, <1>2, <1>3, <1>4, <1>5, <1>19, <2>1 DEF PumpPrimes, edits, heard
<1>20. ASSUME PumpIsBusy PROVE TypeOK'
  BY <1>1, <1>2, <1>3, <1>4, <1>5, <1>20 DEF PumpIsBusy, Returns, edits
<1>21. ASSUME PumpEnds PROVE TypeOK'
  <2>1. CASE Flushed = 0
    BY <1>1, <1>2, <1>3, <1>4, <1>5, <1>21, <2>1 DEF PumpEnds, edits, heard
  <2>2. CASE Flushed # 0
    <3>1. Total = pos \/ drained
      BY <1>1, <1>3, <1>21 DEF PumpEnds, PosInv
    <3>2. Span(Total, AllFrames) \in Seq(F)
      <4>1. \A x \in Nat : Total <= x /\ x < AllFrames => x \in F
        BY <1>1 DEF F
      <4> QED
        BY <1>1, <4>1, SpanIs
    <3>3. pcm' \in Seq(F)
      BY <1>2, <1>21, <2>2, <3>2, ConcatProperties, ZenonT(40) DEF PumpEnds
    <3> QED
      BY <1>1, <1>2, <1>3, <1>4, <1>5, <1>21, <2>2, <3>3 DEF PumpEnds, edits, heard
  <2> QED
    BY <2>1, <2>2
<1>22. ASSUME PumpFails PROVE TypeOK'
  BY <1>1, <1>2, <1>3, <1>4, <1>5, <1>8, <1>22 DEF PumpFails, edits
<1>23. ASSUME NEW got \in 0..2, PumpDecodesItself(got) PROVE TypeOK'
  <2>1. pos + got \in Nat /\ pos <= pos + got /\ pos + got <= AllFrames
    BY <1>1, <1>3, <1>23 DEF PumpDecodesItself
  <2>2. pcm \o Span(pos, pos + got) \in Seq(F)
    BY <1>7, <2>1
  <2>3. pcm' \in Seq(F) /\ pc' \in {"idle", "reading", "pumping"}
    BY <1>2, <1>23, <2>2 DEF PumpDecodesItself
  <2>4. failed' \in BOOLEAN
    <3>1. failed' = (failed \/ (drained' /\ pos + got < Total))
      BY <1>23 DEF PumpDecodesItself
    <3> QED
      BY <3>1, Zenon
  <2>5. drained' \in BOOLEAN /\ afterSeek' \in BOOLEAN
    BY <1>23 DEF PumpDecodesItself
  <2>6. /\ pos' = pos + got /\ edit' = edit /\ skip' = skip
        /\ remaining' = remaining /\ seekTarget' = seekTarget
        /\ position' = position /\ cold' = cold /\ carry' = carry
        /\ want' = want /\ filled' = filled /\ start' = start /\ out' = out
        /\ seeks' = seeks /\ starved' = starved
    BY <1>23 DEF PumpDecodesItself
  <2> QED
    BY <1>1, <1>2, <1>3, <1>4, <1>5, <2>1, <2>3, <2>4, <2>5, <2>6
<1>24. ASSUME NEW frame \in Targets, Seek(frame) PROVE TypeOK'
  <2>1. frame \in Nat
    BY SourceAssumption
  <2>2. frame + edit.skip \in Nat /\ frame + edit.skip <= Total
    BY <1>1, <2>1, <1>24 DEF Seek
  <2>3. pos' \in Nat /\ pos' <= AllFrames /\ cold' \in 0..1
    <3>1. Lands(frame + edit.skip)
      BY <1>24 DEF Seek
    <3>2. CASE SelfDecodes
      BY <1>1, <2>2, <3>1, <3>2 DEF Lands
    <3>3. CASE ~SelfDecodes
      <4>1. pos' \in Cuts
        BY <3>1, <3>3 DEF Lands
      <4>2. cold' \in {0} \cup {1}
        BY <3>1, <3>3 DEF Lands
      <4> QED
        BY <1>1, <4>1, <4>2, CutsEnd
    <3> QED
      BY <3>2, <3>3
  <2>4. /\ remaining' \in Nat /\ seekTarget' \in Nat /\ seeks' \in 0..MaxSeeks
        /\ position' \in Nat /\ start' \in Nat
    BY <1>1, <1>3, <1>4, <2>1, <2>2, <1>24 DEF Seek
  <2>5. /\ pcm' = <<>> /\ carry' = <<>> /\ drained' = FALSE /\ skip' = 0
        /\ afterSeek' = TRUE /\ out' = <<>> /\ failed' = FALSE
        /\ starved' = FALSE /\ edit' = edit /\ pc' = pc /\ want' = want
        /\ filled' = filled
    BY <1>24 DEF Seek
  <2> QED
    BY <1>2, <1>3, <1>4, <1>5, <2>3, <2>4, <2>5
<1>25. ASSUME UNCHANGED vars PROVE TypeOK'
  BY <1>1, <1>2, <1>3, <1>4, <1>5, <1>25 DEF vars, edits, heard
<1> QED
  BY <1>10, <1>11, <1>12, <1>13, <1>14, <1>15, <1>16, <1>17, <1>18, <1>19, <1>20, <1>21, <1>22, <1>23, <1>24, <1>25 DEF Next, Pump

-----------------------------------------------------------------------------
(* The invariant is kept *)

LEMMA Lengths ==
    ASSUME TypeOK
    PROVE  /\ Len(pcm) \in Nat /\ Len(carry) \in Nat /\ Len(out) \in Nat
           /\ pcm = <<>> <=> Len(pcm) = 0
           /\ carry = <<>> <=> Len(carry) = 0
           /\ out = <<>> <=> Len(out) = 0
           /\ pos \in Nat /\ pos <= AllFrames /\ cold \in 0..1
           /\ skip \in Nat /\ remaining \in Nat /\ start \in Nat
           /\ want \in Nat /\ filled \in 0..want /\ seekTarget \in Nat
           /\ drained \in BOOLEAN /\ afterSeek \in BOOLEAN
<1>1. AllFrames \in Nat /\ ReadSizes \subseteq Nat
  BY Quantities, SourceAssumption
<1>2. ASSUME NEW s \in Seq(0..AllFrames)
      PROVE  Len(s) \in Nat /\ (s = <<>> <=> Len(s) = 0)
  BY EmptySeq, LenProperties
<1>3. /\ pcm \in Seq(0..AllFrames) /\ carry \in Seq(0..AllFrames)
      /\ out \in Seq(0..AllFrames)
  BY DEF TypeOK
<1>4. /\ pos \in Nat /\ pos <= AllFrames /\ cold \in 0..1
      /\ skip \in Nat /\ remaining \in Nat /\ start \in Nat
      /\ want \in Nat /\ filled \in 0..want /\ seekTarget \in Nat
      /\ drained \in BOOLEAN /\ afterSeek \in BOOLEAN
  BY <1>1 DEF TypeOK
<1> QED
  BY <1>2, <1>3, <1>4

(* A step that touches neither what is held nor what was handed over. *)
LEMMA QuietStep ==
    ASSUME Inv, TypeOK',
           UNCHANGED <<edit, pos, cold, pcm, carry, drained, skip, remaining,
                       afterSeek, seekTarget, start, out, failed, starved>>,
           pc' # "idle" => want' \in ReadSizes,
           pc' = "pumping" => pc = "pumping"
    PROVE  Inv'
<1>1. /\ Trim' = Trim /\ AllFrames' = AllFrames /\ SelfDecodes' = SelfDecodes
      /\ Bounded' = Bounded /\ First' = First /\ Last' = Last
  BY SameEdit
<1>2. NextCut(pos)' = NextCut(pos)
  BY DEF NextCut
<1>3. WantInv' /\ CarryInv' /\ PosInv' /\ ColdInv' /\ LeftInv'
  BY <1>1 DEF Inv, WantInv, CarryInv, PosInv, ColdInv, LeftInv
<1>4. Good' => Good
  BY <1>1 DEF Good
<1>5. FlowInv => FlowInv'
  <2>1. OutInv => OutInv'
    BY <1>1 DEF OutInv
  <2>2. SeekInv => SeekInv'
    BY <1>1, <1>2 DEF SeekInv
  <2>3. HeldInv => HeldInv'
    BY <1>1 DEF HeldInv, Held
  <2>4. (BoundInv => BoundInv') /\ (EndInv => EndInv')
    BY <1>1 DEF BoundInv, EndInv
  <2> QED
    BY <2>1, <2>2, <2>3, <2>4 DEF FlowInv
<1> QED
  BY <1>3, <1>4, <1>5 DEF Inv

LEMMA InitInv == Init => Inv
<1> SUFFICES ASSUME Init PROVE Inv
  OBVIOUS
<1>1. TypeOK
  BY InitType
<1>2. /\ Trim \in Nat /\ First \in Nat /\ edit.play \in Nat /\ edit.skip \in Nat
      /\ Total \in Nat
  BY <1>1, Quantities, CutsEnd
<1>3. Len(pcm) = 0 /\ Len(carry) = 0 /\ Len(out) = 0 /\ Held = <<>> /\ Len(Held) = 0
  BY EmptySeq DEF Init, Held
<1>4. WantInv /\ CarryInv /\ PosInv /\ ColdInv
  BY <1>2, <1>3 DEF Init, WantInv, CarryInv, PosInv, ColdInv
<1>5. LeftInv
  BY <1>2, <1>3 DEF Init, LeftInv, Bounded
<1>6. OutInv /\ SeekInv /\ BoundInv /\ EndInv
  BY <1>3 DEF Init, OutInv, SeekInv, BoundInv, EndInv
<1>7. HeldInv
  BY <1>2, <1>3 DEF Init, HeldInv, First, RowTo
<1> QED
  BY <1>1, <1>4, <1>5, <1>6, <1>7 DEF Inv, FlowInv

(* read() *)

LEMMA ReadKeeps == ASSUME Inv, TypeOK', NEW n \in ReadSizes, Read(n) PROVE Inv'
<1>1. /\ UNCHANGED <<edit, pos, cold, pcm, carry, drained, skip, remaining,
                     afterSeek, seekTarget, start, out, failed, starved>>
      /\ want' \in ReadSizes /\ pc' = "reading"
  BY DEF Read, edits, heard
<1> QED
  BY <1>1, QuietStep

LEMMA StopsKeeps ==
    ASSUME Inv, TypeOK', ReadIsFull \/ ReadIsOver \/ PumpIsDrained PROVE Inv'
<1>1. /\ UNCHANGED <<edit, pos, cold, pcm, carry, drained, skip, remaining,
                     afterSeek, seekTarget, start, out, failed, starved>>
      /\ pc' = "idle"
  BY DEF ReadIsFull, ReadIsOver, PumpIsDrained, Returns, edits
<1> QED
  BY <1>1, QuietStep

LEMMA ReadSkipsKeeps == ASSUME Inv, TypeOK', ReadSkips PROVE Inv'
<1> DEFINE drop == Least(skip, Len(pcm))
<1>1. /\ Reading /\ pcm # <<>> /\ skip # 0
      /\ pcm' = Drop(pcm, drop) /\ skip' = skip - drop
      /\ edit' = edit /\ remaining' = remaining /\ afterSeek' = afterSeek
      /\ pos' = pos /\ cold' = cold /\ carry' = carry /\ drained' = drained
      /\ pc' = pc /\ want' = want /\ start' = start /\ out' = out
      /\ failed' = failed /\ starved' = starved
  BY DEF ReadSkips, heard
<1>2. /\ Trim' = Trim /\ AllFrames' = AllFrames /\ SelfDecodes' = SelfDecodes
      /\ Bounded' = Bounded /\ First' = First /\ Last' = Last
  BY <1>1, SameEdit
<1>3. /\ Len(pcm) \in Nat /\ Len(pcm) # 0 /\ pos \in Nat /\ skip \in Nat
      /\ Len(out) \in Nat /\ Trim \in Nat /\ Last \in Int /\ AllFrames \in Nat
      /\ First \in Nat /\ Last <= AllFrames - Trim
  BY <1>1, Lengths, Quantities DEF Inv
<1>4. drop \in 0..Len(pcm) /\ drop \in 0..skip
  BY <1>3 DEF Least
<1>5. skip' \in Nat /\ (skip - drop = 0 \/ drop = Len(pcm))
  BY <1>1, <1>3 DEF Least
<1> HIDE DEF drop
<1>6. /\ Len(pcm') = Len(pcm) - drop
      /\ \A i \in 1..(Len(pcm) - drop) : pcm'[i] = pcm[drop + i]
  BY <1>1, <1>4, DropIs DEF Inv, TypeOK
<1>7. carry = <<>> /\ pc = "reading"
  BY <1>1 DEF Inv, CarryInv, Reading
<1>8. WantInv' /\ CarryInv' /\ PosInv' /\ ColdInv' /\ LeftInv'
  BY <1>1, <1>2, <1>7
  DEF Inv, WantInv, CarryInv, PosInv, ColdInv, LeftInv
<1>9. ASSUME Good' PROVE FlowInv'
  <2>1. FlowInv /\ ~afterSeek
    BY <1>1, <1>2, <1>9 DEF Inv, Good, FlowInv, SeekInv
  <2>2. /\ Len(pcm) <= pos
        /\ \A i \in 1..Len(pcm) : pcm[i] = pos - Len(pcm) + i - 1
        /\ pos - Len(pcm) + skip = First + Len(out)
    BY <1>1, <1>7, <2>1 DEF FlowInv, HeldInv, Held, RowTo
  <2>3. \A i \in 1..Len(pcm') : pcm'[i] = pos - Len(pcm') + i - 1
    <3>1. \A i \in 1..(Len(pcm) - drop) : drop + i \in 1..Len(pcm)
      BY <1>3, <1>4
    <3>2. \A i \in 1..(Len(pcm) - drop) :
              pcm[drop + i] = pos - Len(pcm) + (drop + i) - 1
      BY <2>2, <3>1
    <3> QED
      BY <1>3, <1>4, <1>6, <3>2
  <2>4. Held' = pcm'
    BY <1>1, <1>7 DEF Held
  <2>5. HeldInv'
    <3>1. Len(pcm') <= pos /\ pos - Len(pcm') + skip' = First + Len(out)
      <4>1. Len(pcm') = Len(pcm) - drop /\ skip' = skip - drop
        BY <1>1, <1>6
      <4>2. Len(pcm) <= pos /\ pos - Len(pcm) + skip = First + Len(out)
        BY <2>2
      <4>3. drop \in Nat /\ drop <= Len(pcm)
        BY <1>3, <1>4
      <4> QED
        BY <1>3, <4>1, <4>2, <4>3
    <3> QED
      BY <1>1, <1>2, <2>3, <2>4, <3>1 DEF HeldInv, RowTo
  <2>6. OutInv' /\ SeekInv' /\ BoundInv'
    BY <1>1, <1>2, <2>1 DEF FlowInv, OutInv, SeekInv, BoundInv
  <2>7. EndInv'
    <3>1. ASSUME drained, pcm' = <<>> PROVE First + Len(out) >= Last
      <4>1. Len(pcm') = 0 /\ pos = AllFrames
        BY <2>1, <3>1, EmptySeq DEF FlowInv, EndInv
      <4> QED
        BY <1>3, <1>4, <1>6, <2>2, <4>1
    <3> QED
      BY <1>1, <1>2, <2>1, <3>1 DEF FlowInv, EndInv
  <2> QED
    BY <2>5, <2>6, <2>7 DEF FlowInv
<1> QED
  BY <1>8, <1>9 DEF Inv

LEMMA ReadCarriesKeeps == ASSUME Inv, TypeOK', ReadCarries PROVE Inv'
<1>1. /\ Reading /\ pcm # <<>> /\ skip = 0 /\ Len(pcm) <= Trim
      /\ carry' = pcm /\ pcm' = <<>>
      /\ edit' = edit /\ remaining' = remaining /\ afterSeek' = afterSeek
      /\ pos' = pos /\ cold' = cold /\ drained' = drained /\ skip' = skip
      /\ pc' = pc /\ want' = want /\ start' = start /\ out' = out
      /\ failed' = failed /\ starved' = starved
  BY DEF ReadCarries, heard, edits
<1>2. /\ Trim' = Trim /\ AllFrames' = AllFrames /\ SelfDecodes' = SelfDecodes
      /\ Bounded' = Bounded /\ First' = First /\ Last' = Last
  BY <1>1, SameEdit
<1>3. /\ Len(pcm) \in Nat /\ pos \in Nat /\ skip \in Nat
      /\ Len(out) \in Nat /\ Trim \in Nat /\ Last \in Int /\ AllFrames \in Nat
      /\ First \in Nat /\ Last <= AllFrames - Trim
  BY <1>1, Lengths, Quantities DEF Inv
<1>4. carry = <<>> /\ pc = "reading"
  BY <1>1 DEF Inv, CarryInv, Reading
<1>5. WantInv' /\ CarryInv' /\ PosInv' /\ ColdInv' /\ LeftInv'
  BY <1>1, <1>2, <1>4
  DEF Inv, WantInv, CarryInv, PosInv, ColdInv, LeftInv
<1>6. ASSUME Good' PROVE FlowInv'
  <2>1. FlowInv /\ ~afterSeek
    BY <1>1, <1>2, <1>6 DEF Inv, Good, FlowInv, SeekInv
  <2>2. Held' = pcm /\ Held = pcm
    BY <1>1, <1>4 DEF Held
  <2>3. /\ Len(pcm) <= pos
        /\ RowTo(pcm, pos)
        /\ pos - Len(pcm) + skip = First + Len(out)
    BY <1>1, <2>1, <2>2 DEF FlowInv, HeldInv
  <2>4. HeldInv'
    BY <1>1, <1>2, <2>2, <2>3 DEF HeldInv
  <2>5. OutInv' /\ SeekInv' /\ BoundInv'
    BY <1>1, <1>2, <2>1 DEF FlowInv, OutInv, SeekInv, BoundInv
  <2>6. EndInv'
    <3>1. drained => pos = AllFrames
      BY <2>1 DEF FlowInv, EndInv
    <3>2. drained => First + Len(out) >= Last
      BY <1>1, <1>3, <2>3, <3>1
    <3> QED
      BY <1>1, <1>2, <3>1, <3>2 DEF EndInv
  <2> QED
    BY <2>4, <2>5, <2>6 DEF FlowInv
<1> QED
  BY <1>5, <1>6 DEF Inv

LEMMA ReadTakesKeeps == ASSUME Inv, TypeOK', ReadTakes PROVE Inv'
<1> DEFINE there == Least(want - filled, Len(pcm) - Trim)
           take  == IF Bounded THEN Least(there, remaining) ELSE there
<1>1. /\ pc = "reading" /\ filled < want /\ pcm # <<>> /\ skip = 0
      /\ Trim = 0 \/ Len(pcm) > Trim
      /\ pcm' = Drop(pcm, take) /\ out' = out \o SubSeq(pcm, 1, take)
      /\ remaining' = IF Bounded THEN remaining - take ELSE remaining
      /\ edit' = edit /\ afterSeek' = afterSeek /\ skip' = skip
      /\ pos' = pos /\ cold' = cold /\ carry' = carry /\ drained' = drained
      /\ pc' = pc /\ want' = want /\ start' = start
      /\ failed' = failed /\ starved' = starved
  BY DEF ReadTakes, Reading
<1>2. /\ Trim' = Trim /\ AllFrames' = AllFrames /\ SelfDecodes' = SelfDecodes
      /\ Bounded' = Bounded /\ First' = First /\ Last' = Last
  BY <1>1, SameEdit
<1>3. /\ Len(pcm) \in Nat /\ pos \in Nat /\ remaining \in Nat
      /\ Len(out) \in Nat /\ Trim \in Nat /\ Last \in Int /\ AllFrames \in Nat
      /\ First \in Nat /\ Last <= AllFrames - Trim
      /\ want \in Nat /\ filled \in 0..want /\ pos <= AllFrames
      /\ edit.play \in Nat /\ start \in Nat /\ edit.skip \in Nat
  BY Lengths, Quantities DEF Inv
<1>4. take \in Nat /\ take <= Len(pcm) - Trim /\ (Bounded => take <= remaining)
  BY <1>1, <1>3 DEF Least
<1> HIDE DEF take
<1>5. take \in 0..Len(pcm)
  BY <1>3, <1>4
<1>6. /\ Len(pcm') = Len(pcm) - take
      /\ \A i \in 1..(Len(pcm) - take) : pcm'[i] = pcm[take + i]
  BY <1>1, <1>5, DropIs DEF Inv, TypeOK
<1> DEFINE front == SubSeq(pcm, 1, take)
<1>7. /\ front \in Seq(0..AllFrames) /\ Len(front) = take
      /\ \A i \in 1..take : front[i] = pcm[i]
  BY <1>5, FrontIs DEF Inv, TypeOK
<1> HIDE DEF front
<1>8. /\ Len(out') = Len(out) + take
      /\ \A i \in 1..(Len(out) + take) :
             out'[i] = IF i <= Len(out) THEN out[i] ELSE front[i - Len(out)]
  <2>1. out' = out \o front /\ out \in Seq(0..AllFrames)
    BY <1>1 DEF front, Inv, TypeOK
  <2> QED
    BY <1>7, <2>1, ConcatProperties, SMTT(30)
<1>9. carry = <<>>
  BY <1>1 DEF Inv, CarryInv
<1>10. WantInv' /\ CarryInv' /\ PosInv' /\ ColdInv'
  BY <1>1, <1>2, <1>9 DEF Inv, WantInv, CarryInv, PosInv, ColdInv
<1>11. LeftInv'
  <2>1. ASSUME Bounded
        PROVE  Len(out') + remaining'
                 = IF edit.play > start THEN edit.play - start ELSE 0
    <3>1. Len(out) + remaining
            = IF edit.play > start THEN edit.play - start ELSE 0
      BY <2>1 DEF Inv, LeftInv
    <3>2. remaining' = remaining - take
      BY <1>1, <2>1
    <3> QED
      BY <1>3, <1>4, <1>8, <3>1, <3>2
  <2> QED
    BY <1>1, <1>2, <2>1 DEF LeftInv
<1>12. ASSUME Good' PROVE FlowInv'
  <2>1. FlowInv /\ ~afterSeek
    BY <1>1, <1>2, <1>12 DEF Inv, Good, FlowInv, SeekInv
  <2>2. Held' = pcm' /\ Held = pcm
    BY <1>1, <1>9 DEF Held
  <2>3. /\ Len(pcm) <= pos
        /\ \A i \in 1..Len(pcm) : pcm[i] = pos - Len(pcm) + i - 1
        /\ pos - Len(pcm) = First + Len(out)
    <3>1. /\ Len(pcm) <= pos
          /\ \A i \in 1..Len(pcm) : pcm[i] = pos - Len(pcm) + i - 1
          /\ pos - Len(pcm) + skip = First + Len(out)
      BY <1>1, <2>1, <2>2 DEF FlowInv, HeldInv, RowTo
    <3> QED
      BY <1>1, <1>3, <3>1
  <2>4. \A i \in 1..Len(pcm') : pcm'[i] = pos - Len(pcm') + i - 1
    <3>1. \A i \in 1..(Len(pcm) - take) : take + i \in 1..Len(pcm)
      BY <1>3, <1>5
    <3>2. \A i \in 1..(Len(pcm) - take) :
              pcm[take + i] = pos - Len(pcm) + (take + i) - 1
      BY <2>3, <3>1
    <3> QED
      BY <1>3, <1>5, <1>6, <3>2
  <2>5. Len(pcm') <= pos /\ pos - Len(pcm') = First + Len(out')
    BY <1>3, <1>5, <1>6, <1>8, <2>3
  <2>6. HeldInv'
    <3>1. pos - Len(pcm') + skip' = First + Len(out')
      BY <1>1, <1>3, <1>5, <1>6, <2>5
    <3> QED
      BY <1>1, <1>2, <2>2, <2>4, <2>5, <3>1 DEF HeldInv, RowTo
  <2>7. OutInv'
    <3>1. ASSUME NEW i \in 1..Len(out') PROVE out'[i] = First + i - 1
      <4>1. CASE i <= Len(out)
        BY <1>3, <1>8, <2>1, <4>1 DEF FlowInv, OutInv
      <4>2. CASE ~(i <= Len(out))
        <5>1. i - Len(out) \in 1..take /\ i - Len(out) \in 1..Len(pcm)
          BY <1>3, <1>5, <1>8, <4>2
        <5>2. out'[i] = pcm[i - Len(out)]
          BY <1>3, <1>7, <1>8, <4>2, <5>1
        <5>3. pcm[i - Len(out)] = pos - Len(pcm) + (i - Len(out)) - 1
          BY <2>3, <5>1
        <5> QED
          BY <1>3, <2>3, <5>2, <5>3
      <4> QED
        BY <4>1, <4>2
    <3> QED
      BY <1>2, <3>1 DEF OutInv
  <2>8. SeekInv'
    BY <1>1, <2>1 DEF SeekInv
  <2>9. BoundInv'
    <3>1. ASSUME out' # <<>> PROVE First + Len(out') <= Last
      <4>1. First + Len(out') <= AllFrames - Trim
        BY <1>3, <1>4, <1>6, <1>8, <2>3
      <4>2. ASSUME Bounded PROVE First + Len(out') <= edit.skip + edit.play
        <5>1. Len(out') # 0
          BY <3>1, EmptySeq DEF TypeOK
        <5>2. Len(out') + remaining'
                = IF edit.play > start THEN edit.play - start ELSE 0
          BY <1>1, <1>2, <1>11, <4>2 DEF LeftInv
        <5>3. remaining' \in Nat
          BY DEF TypeOK
        <5>4. Len(out') \in Nat
          BY <1>3, <1>4, <1>8
        <5> QED
          BY <1>3, <5>1, <5>2, <5>3, <5>4, SMTT(30) DEF First
      <4>3. /\ ~Bounded => Last = AllFrames - Trim
            /\ Last = AllFrames - Trim \/ Last = edit.skip + edit.play
        BY Quantities DEF Inv
      <4> QED
        BY <4>1, <4>2, <4>3, Zenon
    <3> QED
      BY <1>2, <3>1 DEF BoundInv
  <2>10. EndInv'
    <3>1. ASSUME drained, pcm' = <<>> PROVE First + Len(out') >= Last
      <4>1. Len(pcm') = 0 /\ pos = AllFrames
        BY <2>1, <3>1, EmptySeq DEF FlowInv, EndInv
      <4> QED
        BY <1>3, <1>4, <1>8, <2>5, <4>1
    <3> QED
      BY <1>1, <1>2, <2>1, <3>1 DEF FlowInv, EndInv
  <2> QED
    BY <2>6, <2>7, <2>8, <2>9, <2>10 DEF FlowInv
<1> QED
  BY <1>10, <1>11, <1>12 DEF Inv

(* pump() *)

LEMMA PumpBeginsKeeps == ASSUME Inv, TypeOK', PumpBegins PROVE Inv'
<1>1. /\ pc = "reading" /\ pcm = <<>> /\ ~drained
      /\ pcm' = carry /\ carry' = <<>> /\ pc' = "pumping"
      /\ edit' = edit /\ remaining' = remaining /\ afterSeek' = afterSeek
      /\ seekTarget' = seekTarget
      /\ pos' = pos /\ cold' = cold /\ drained' = drained /\ skip' = skip
      /\ want' = want /\ start' = start /\ out' = out
      /\ failed' = failed /\ starved' = starved
  BY DEF PumpBegins, Reading, heard, edits
<1>2. /\ Trim' = Trim /\ AllFrames' = AllFrames /\ SelfDecodes' = SelfDecodes
      /\ Bounded' = Bounded /\ First' = First /\ Last' = Last
      /\ NextCut(pos)' = NextCut(pos)
  BY <1>1, SameEdit DEF NextCut
<1>3. Trim \in Nat
  BY Quantities DEF Inv
<1>4. Len(<<>>) = 0
  BY EmptySeq
<1>5. WantInv' /\ CarryInv' /\ PosInv' /\ ColdInv' /\ LeftInv'
  BY <1>1, <1>2, <1>3, <1>4
  DEF Inv, WantInv, CarryInv, PosInv, ColdInv, LeftInv
<1>6. ASSUME Good' PROVE FlowInv'
  <2>1. FlowInv
    BY <1>1, <1>2, <1>6 DEF Inv, Good
  <2>2. Held' = carry /\ Held = carry
    BY <1>1 DEF Held
  <2>3. HeldInv'
    BY <1>1, <1>2, <2>1, <2>2 DEF FlowInv, HeldInv
  <2>4. OutInv' /\ BoundInv' /\ EndInv'
    BY <1>1, <1>2, <2>1 DEF FlowInv, OutInv, BoundInv, EndInv
  <2>5. SeekInv'
    BY <1>1, <1>2, <2>1 DEF FlowInv, SeekInv
  <2> QED
    BY <2>3, <2>4, <2>5 DEF FlowInv
<1> QED
  BY <1>5, <1>6 DEF Inv

(* What was decoded joins what was held. *)
LEMMA Joined ==
    ASSUME Inv, TypeOK', Good, pc = "pumping",
           NEW b \in Nat, pos < b, b <= AllFrames,
           pos' = b, pcm' = pcm \o Span(pos, b),
           carry' = carry, edit' = edit, start' = start, out' = out,
           afterSeek' = FALSE, drained' => b = AllFrames,
           skip' = IF afterSeek /\ pos < seekTarget THEN seekTarget - pos ELSE skip
    PROVE  FlowInv'
<1>1. /\ Trim' = Trim /\ AllFrames' = AllFrames /\ SelfDecodes' = SelfDecodes
      /\ Bounded' = Bounded /\ First' = First /\ Last' = Last
  BY SameEdit
<1>2. /\ Len(pcm) \in Nat /\ pos \in Nat /\ Len(out) \in Nat /\ First \in Nat
      /\ AllFrames \in Nat /\ skip \in Nat /\ seekTarget \in Nat
      /\ pcm \in Seq(0..AllFrames)
  BY Lengths, Quantities DEF Inv, TypeOK
<1>3. carry = <<>> /\ Held = pcm /\ Held' = pcm' /\ ~drained /\ FlowInv
  BY DEF Inv, CarryInv, Held
<1>4. /\ Len(pcm) <= pos
      /\ RowTo(pcm, pos)
      /\ pos - Len(pcm) + skip' = First + Len(out)
  <2>1. CASE afterSeek
    <3>1. /\ Len(pcm) = 0 /\ Len(out) = 0 /\ skip = 0 /\ seekTarget = First
          /\ pos <= First
      BY <1>3, <2>1, EmptySeq DEF FlowInv, SeekInv
    <3>2. RowTo(pcm, pos)
      BY <3>1 DEF RowTo
    <3> QED
      BY <1>2, <2>1, <3>1, <3>2
  <2>2. CASE ~afterSeek
    <3>1. skip' = skip
      BY <2>2
    <3>2. /\ Len(pcm) <= pos
          /\ RowTo(pcm, pos)
          /\ pos - Len(pcm) + skip = First + Len(out)
      BY <1>3, <2>2 DEF FlowInv, HeldInv
    <3> QED
      BY <3>1, <3>2
  <2> QED
    BY <2>1, <2>2
<1>5. Len(pcm') = Len(pcm) + (b - pos) /\ RowTo(pcm', b)
  <2>1. pos <= b
    BY <1>2
  <2> QED
    BY <1>2, <1>4, <2>1, JoinIs
<1>6. Len(pcm') <= b /\ b - Len(pcm') = pos - Len(pcm) /\ Len(pcm') # 0
  BY <1>2, <1>4, <1>5
<1>7. HeldInv'
  <2>1. b - Len(pcm') + skip' = First + Len(out)
    BY <1>2, <1>4, <1>6
  <2> QED
    BY <1>1, <1>3, <1>5, <1>6, <2>1 DEF HeldInv
<1>8. EndInv'
  <2>1. pcm' # <<>>
    BY <1>6, EmptySeq
  <2> QED
    BY <1>1, <2>1 DEF EndInv
<1>9. OutInv' /\ BoundInv' /\ SeekInv'
  BY <1>1, <1>3 DEF FlowInv, OutInv, BoundInv, SeekInv
<1> QED
  BY <1>7, <1>8, <1>9 DEF FlowInv

LEMMA PumpDecodesKeeps == ASSUME Inv, TypeOK', PumpDecodes PROVE Inv'
<1>1. /\ pc = "pumping" /\ ~SelfDecodes /\ pos < Total /\ cold = 0
      /\ afterSeek' = FALSE
      /\ skip' = IF afterSeek /\ pos < seekTarget THEN seekTarget - pos ELSE skip
      /\ pos' = NextCut(pos) /\ pcm' = pcm \o Span(pos, NextCut(pos))
      /\ pc' = "reading" /\ edit' = edit /\ remaining' = remaining
      /\ cold' = cold /\ carry' = carry /\ drained' = drained
      /\ want' = want /\ start' = start /\ out' = out
      /\ failed' = failed /\ starved' = starved
  BY DEF PumpDecodes, SkipToTarget, heard
<1>2. /\ Trim' = Trim /\ SelfDecodes' = SelfDecodes /\ Bounded' = Bounded
  BY <1>1, SameEdit
<1>3. /\ NextCut(pos) \in Nat /\ pos < NextCut(pos) /\ NextCut(pos) <= Total
      /\ NextCut(pos) <= AllFrames /\ Total' = Total
  <2>1. pos \in Nat /\ Total \in Nat /\ AllFrames \in Nat /\ Total <= AllFrames
    BY Lengths, Quantities, CutsEnd DEF Inv
  <2>2. NextCut(pos) \in Nat /\ pos < NextCut(pos) /\ NextCut(pos) <= Total
    BY <1>1, <2>1, NextCutIs
  <2> QED
    BY <2>1, <2>2 DEF Total
<1>4. carry = <<>> /\ ~drained /\ Len(carry) <= Trim
  BY <1>1 DEF Inv, CarryInv
<1>5. WantInv' /\ CarryInv' /\ PosInv' /\ ColdInv' /\ LeftInv'
  BY <1>1, <1>2, <1>3, <1>4
  DEF Inv, WantInv, CarryInv, PosInv, ColdInv, LeftInv
<1>6. ASSUME Good' PROVE FlowInv'
  <2>1. Good /\ ~drained'
    BY <1>1, <1>2, <1>4, <1>6 DEF Good
  <2> QED
    BY <1>1, <1>3, <2>1, Joined
<1> QED
  BY <1>5, <1>6 DEF Inv

LEMMA PumpPrimesKeeps == ASSUME Inv, TypeOK', PumpPrimes PROVE Inv'
<1>1. /\ pc = "pumping" /\ ~SelfDecodes /\ pos < Total /\ cold > 0
      /\ pos' = NextCut(pos) /\ cold' = cold - 1
      /\ edit' = edit /\ remaining' = remaining /\ afterSeek' = afterSeek
      /\ seekTarget' = seekTarget /\ pcm' = pcm /\ carry' = carry
      /\ drained' = drained /\ skip' = skip /\ pc' = pc
      /\ want' = want /\ start' = start /\ out' = out
      /\ failed' = failed /\ starved' = starved
  BY DEF PumpPrimes, edits, heard
<1>2. /\ Trim' = Trim /\ AllFrames' = AllFrames /\ SelfDecodes' = SelfDecodes
      /\ Bounded' = Bounded /\ First' = First /\ Last' = Last /\ Total' = Total
  BY <1>1, SameEdit DEF Total
<1>3. NextCut(pos) \in Nat /\ NextCut(pos) <= Total /\ cold' = 0
  BY <1>1, Lengths, NextCutIs DEF Inv
<1>4. afterSeek
  BY <1>1 DEF Inv, ColdInv
<1>5. WantInv' /\ CarryInv' /\ PosInv' /\ ColdInv' /\ LeftInv'
  BY <1>1, <1>2, <1>3
  DEF Inv, WantInv, CarryInv, PosInv, ColdInv, LeftInv
<1>6. ASSUME Good' PROVE FlowInv'
  <2>1. FlowInv
    BY <1>1, <1>2, <1>6 DEF Inv, Good
  <2>2. SeekInv'
    BY <1>1, <1>2, <1>3, <1>4, <2>1 DEF FlowInv, SeekInv
  <2>3. OutInv' /\ BoundInv' /\ EndInv' /\ HeldInv'
    BY <1>1, <1>2, <1>4, <2>1
    DEF FlowInv, SeekInv, OutInv, BoundInv, EndInv, HeldInv
  <2> QED
    BY <2>2, <2>3 DEF FlowInv
<1> QED
  BY <1>5, <1>6 DEF Inv

LEMMA PumpIsBusyKeeps == ASSUME Inv, TypeOK', PumpIsBusy PROVE Inv'
<1>1. /\ pc = "pumping" /\ pcm' = <<>> /\ starved' = TRUE /\ pc' = "idle"
      /\ edit' = edit /\ pos' = pos /\ cold' = cold /\ carry' = carry
      /\ drained' = drained /\ skip' = skip /\ remaining' = remaining
      /\ afterSeek' = afterSeek /\ seekTarget' = seekTarget
      /\ start' = start /\ out' = out /\ failed' = failed
  BY DEF PumpIsBusy, Returns, edits
<1>2. /\ Trim' = Trim /\ AllFrames' = AllFrames /\ SelfDecodes' = SelfDecodes
      /\ Bounded' = Bounded /\ First' = First /\ Last' = Last
      /\ NextCut(pos)' = NextCut(pos) /\ Total' = Total
  BY <1>1, SameEdit DEF NextCut, Total
<1>3. carry = <<>> /\ ~drained /\ Len(pcm) <= Trim /\ Len(carry) <= Trim
  BY <1>1 DEF Inv, CarryInv
<1>4. WantInv' /\ CarryInv' /\ PosInv' /\ ColdInv' /\ LeftInv'
  BY <1>1, <1>2, <1>3 DEF Inv, WantInv, CarryInv, PosInv, ColdInv, LeftInv
<1>5. ASSUME Good' PROVE FlowInv'
  <2>1. pcm = <<>>
    <3>1. Trim = 0
      BY <1>1, <1>2, <1>5 DEF Good
    <3> QED
      BY <1>3, <3>1, Lengths DEF Inv
  <2>2. FlowInv /\ pcm' = pcm
    BY <1>1, <1>2, <1>5, <2>1 DEF Inv, Good
  <2>3. SeekInv' /\ OutInv' /\ BoundInv' /\ EndInv'
    BY <1>1, <1>2, <2>2
    DEF FlowInv, SeekInv, OutInv, BoundInv, EndInv
  <2>4. HeldInv'
    <3>1. Held' = Held
      BY <1>1, <2>2 DEF Held
    <3> QED
      BY <1>1, <1>2, <2>2, <3>1 DEF FlowInv, HeldInv
  <2> QED
    BY <2>3, <2>4 DEF FlowInv
<1> QED
  BY <1>4, <1>5 DEF Inv

(* The end of the stream, with nothing more decoded: all of it was handed   *)
(* over but for what may be the padding.                                    *)
LEMMA DriedUp ==
    ASSUME Inv, Good, pc = "pumping", pos = AllFrames,
           afterSeek => SelfDecodes
    PROVE  First + Len(out) >= Last
<1>1. FlowInv /\ carry = <<>> /\ ~drained /\ Len(pcm) <= Trim
  BY DEF Inv, CarryInv
<1>2. /\ Len(pcm) \in Nat /\ skip \in Nat /\ Len(out) \in Nat /\ First \in Nat
      /\ Trim \in Nat /\ AllFrames \in Nat /\ Last \in Int
      /\ Last <= AllFrames - Trim
  BY Lengths, Quantities DEF Inv
<1>3. CASE afterSeek
  <2>1. Len(out) = 0 /\ pos = First
    BY <1>1, <1>3, EmptySeq DEF FlowInv, SeekInv
  <2> QED
    BY <1>2, <2>1
<1>4. CASE ~afterSeek
  <2>1. pos - Len(pcm) + skip = First + Len(out)
    BY <1>1, <1>4 DEF FlowInv, HeldInv, Held
  <2> QED
    BY <1>1, <1>2, <2>1
<1> QED
  BY <1>3, <1>4

(* Nothing is held any more. *)
LEMMA Dry ==
    ASSUME Inv, TypeOK', Good, pc = "pumping", pos = AllFrames,
           afterSeek => SelfDecodes /\ afterSeek' = FALSE,
           afterSeek' => afterSeek,
           pos' = pos, pcm' = <<>>, drained',
           edit' = edit, start' = start, out' = out
    PROVE  FlowInv'
<1>1. /\ AllFrames' = AllFrames /\ First' = First /\ Last' = Last
  BY SameEdit
<1>2. FlowInv /\ First + Len(out) >= Last
  BY DriedUp DEF Inv
<1>3. OutInv' /\ BoundInv' /\ EndInv'
  BY <1>1, <1>2 DEF FlowInv, OutInv, BoundInv, EndInv
<1>4. SeekInv' /\ HeldInv'
  BY DEF SeekInv, HeldInv
<1> QED
  BY <1>3, <1>4 DEF FlowInv

LEMMA PumpEndsKeeps == ASSUME Inv, TypeOK', PumpEnds PROVE Inv'
<1>1. /\ pc = "pumping" /\ ~SelfDecodes /\ pos >= Total /\ drained' = TRUE
      /\ edit' = edit /\ cold' = cold /\ carry' = carry /\ skip' = skip
      /\ remaining' = remaining /\ afterSeek' = afterSeek
      /\ seekTarget' = seekTarget /\ want' = want
      /\ start' = start /\ out' = out /\ failed' = failed /\ starved' = starved
  BY DEF PumpEnds, edits, heard
<1>2. /\ Trim' = Trim /\ AllFrames' = AllFrames /\ SelfDecodes' = SelfDecodes
      /\ Bounded' = Bounded
  BY <1>1, SameEdit
<1>3. /\ pos \in Nat /\ Total \in Nat /\ Flushed \in Nat
      /\ AllFrames = Total + Flushed
  BY <1>1, Lengths, Quantities, CutsEnd DEF Inv
<1>4. carry = <<>> /\ ~drained /\ pos = Total /\ Len(carry) <= Trim
  BY <1>1, <1>3 DEF Inv, CarryInv, PosInv
<1>5. pc' \in {"idle", "reading"}
  BY DEF PumpEnds
<1>6. WantInv' /\ CarryInv' /\ PosInv' /\ ColdInv' /\ LeftInv'
  BY <1>1, <1>2, <1>4, <1>5
  DEF Inv, WantInv, CarryInv, PosInv, ColdInv, LeftInv
<1>7. ASSUME Good' PROVE FlowInv'
  <2>1. Good /\ FlowInv
    BY <1>1, <1>2, <1>7 DEF Inv, Good
  <2>2. ~afterSeek
    BY <1>1, <1>3, <2>1 DEF FlowInv, SeekInv
  <2>3. CASE Flushed = 0
    <3>1. pcm' = <<>> /\ pos' = pos
      BY <2>3 DEF PumpEnds
    <3>2. pos = AllFrames
      BY <1>3, <1>4, <2>3
    <3> QED
      BY <1>1, <2>1, <2>2, <3>1, <3>2, Dry
  <2>4. CASE Flushed # 0
    <3>1. pcm' = pcm \o Span(pos, AllFrames) /\ pos' = AllFrames
      BY <1>4, <2>4 DEF PumpEnds
    <3>2. AllFrames \in Nat /\ pos < AllFrames /\ AllFrames <= AllFrames
      BY <1>3, <1>4, <2>4
    <3>3. afterSeek' = FALSE
      BY <1>1, <2>2 DEF Inv, TypeOK
    <3>4. skip' = IF afterSeek /\ pos < seekTarget THEN seekTarget - pos ELSE skip
      BY <1>1, <2>2
    <3> QED
      BY <1>1, <2>1, <3>1, <3>2, <3>3, <3>4, Joined
  <2> QED
    BY <2>3, <2>4
<1> QED
  BY <1>6, <1>7 DEF Inv

LEMMA PumpFailsKeeps == ASSUME Inv, TypeOK', PumpFails PROVE Inv'
<1>1. /\ pc = "pumping" /\ drained' = TRUE /\ pcm' = <<>> /\ pc' = "idle"
      /\ failed' = TRUE
      /\ edit' = edit /\ cold' = cold /\ carry' = carry
      /\ remaining' = remaining /\ afterSeek' = afterSeek
      /\ start' = start /\ out' = out
  BY DEF PumpFails, edits
<1>2. /\ Trim' = Trim /\ SelfDecodes' = SelfDecodes /\ Bounded' = Bounded
  BY <1>1, SameEdit
<1>3. ~Good'
  BY <1>1 DEF Good
<1>4. WantInv' /\ CarryInv' /\ PosInv' /\ ColdInv' /\ LeftInv'
  BY <1>1, <1>2 DEF Inv, WantInv, CarryInv, PosInv, ColdInv, LeftInv
<1> QED
  BY <1>3, <1>4 DEF Inv

LEMMA PumpDecodesItselfKeeps ==
    ASSUME Inv, TypeOK', NEW got \in 0..2, PumpDecodesItself(got)
    PROVE  Inv'
<1>1. /\ pc = "pumping" /\ SelfDecodes /\ pos + got <= Total
      /\ afterSeek' = FALSE /\ pos' = pos + got
      /\ drained' = TRUE \/ (drained' = FALSE /\ got > 0)
      /\ edit' = edit /\ skip' = skip /\ remaining' = remaining
      /\ cold' = cold /\ carry' = carry /\ want' = want
      /\ start' = start /\ out' = out /\ starved' = starved
  BY DEF PumpDecodesItself
<1>2. failed' = (failed \/ (drained' /\ pos + got < Total))
  BY DEF PumpDecodesItself
<1>3. /\ Trim' = Trim /\ AllFrames' = AllFrames /\ SelfDecodes' = SelfDecodes
      /\ Bounded' = Bounded /\ Total' = Total
  BY <1>1, SameEdit DEF Total
<1>4. /\ pos \in Nat /\ Total \in Nat /\ AllFrames = Total /\ got \in Nat
  BY <1>1, Lengths, Quantities, CutsEnd DEF Inv
<1>5. carry = <<>> /\ ~drained /\ Len(carry) <= Trim
  BY <1>1 DEF Inv, CarryInv
<1>6. pc' \in {"idle", "reading"}
  BY DEF PumpDecodesItself
<1>7. WantInv' /\ CarryInv' /\ PosInv' /\ ColdInv' /\ LeftInv'
  BY <1>1, <1>3, <1>4, <1>5, <1>6
  DEF Inv, WantInv, CarryInv, PosInv, ColdInv, LeftInv
<1>8. ASSUME Good' PROVE FlowInv'
  <2>1. ~failed /\ ~(drained' /\ pos + got < Total)
    <3>1. ~failed'
      BY <1>8 DEF Good
    <3> QED
      BY <1>2, <3>1, Zenon
  <2>2. Good /\ FlowInv
    BY <1>1, <1>3, <1>8, <2>1 DEF Inv, Good
  <2>3. drained' => pos + got = AllFrames
    BY <1>1, <1>4, <2>1
  <2>4. CASE got = 0
    <3>1. pcm' = <<>> /\ drained' /\ pos' = pos /\ pos = AllFrames
      BY <1>1, <1>4, <2>3, <2>4 DEF PumpDecodesItself
    <3> QED
      BY <1>1, <2>2, <3>1, Dry
  <2>5. CASE got # 0
    <3>1. pcm' = pcm \o Span(pos, pos + got)
      BY <2>5 DEF PumpDecodesItself
    <3>2. pos + got \in Nat /\ pos < pos + got /\ pos + got <= AllFrames
      BY <1>1, <1>4, <2>5
    <3>3. skip' = IF afterSeek /\ pos < seekTarget THEN seekTarget - pos ELSE skip
      <4>1. ~(afterSeek /\ pos < seekTarget)
        BY <1>1, <1>4, <2>2 DEF FlowInv, SeekInv
      <4> QED
        BY <1>1, <4>1
    <3> QED
      BY <1>1, <2>2, <2>3, <3>1, <3>2, <3>3, Joined
  <2> QED
    BY <2>4, <2>5
<1> QED
  BY <1>7, <1>8 DEF Inv

(* seek() *)

LEMMA SeekKeeps ==
    ASSUME Inv, TypeOK', NEW frame \in Targets, Seek(frame) PROVE Inv'
<1> DEFINE absolute == frame + edit.skip
<1>1. /\ pc = "idle" /\ absolute <= Total /\ Lands(absolute)
      /\ pcm' = <<>> /\ carry' = <<>> /\ drained' = FALSE
      /\ skip' = 0 /\ seekTarget' = absolute /\ afterSeek' = TRUE
      /\ remaining' = IF edit.play > frame THEN edit.play - frame ELSE 0
      /\ start' = frame /\ out' = <<>> /\ edit' = edit /\ pc' = pc
  BY DEF Seek
<1>2. /\ Trim' = Trim /\ SelfDecodes' = SelfDecodes /\ Bounded' = Bounded
      /\ Total' = Total
  BY <1>1, SameEdit DEF Total
<1>3. /\ frame \in Nat /\ edit.skip \in Nat /\ edit.play \in Nat
      /\ Trim \in Nat /\ Total \in Nat /\ SelfDecodes \in BOOLEAN
  BY SourceAssumption, Quantities, CutsEnd DEF Inv
<1>4. First' = absolute
  BY <1>1, <1>3 DEF First
<1>5. absolute \in Nat
  BY <1>3
<1>6. /\ pos' <= absolute /\ pos' <= Total
      /\ SelfDecodes => pos' = absolute /\ cold' = 0
      /\ ~SelfDecodes => pos' < Total
      /\ cold' > 0 => NextCut(pos') <= absolute /\ NextCut(pos') < Total
  <2> HIDE DEF absolute
  <2>1. CASE SelfDecodes
    BY <1>1, <1>3, <1>5, <2>1 DEF Lands
  <2>2. CASE ~SelfDecodes
    <3>1. pos' \in Cuts /\ pos' < Total /\ pos' <= absolute
      BY <1>1, <2>2 DEF Lands
    <3>2. cold' \in {0} \cup {n \in {1} : NextCut(pos') <= absolute
                                            /\ NextCut(pos') < Total}
      BY <1>1, <2>2 DEF Lands
    <3>3. cold' = 0 \/ (NextCut(pos') <= absolute /\ NextCut(pos') < Total)
      BY <3>2
    <3> QED
      BY <2>2, <3>1, <3>3, <1>3, CutsEnd
  <2> QED
    BY <2>1, <2>2
<1> HIDE DEF absolute
<1>7. Len(<<>>) = 0
  BY EmptySeq
<1>8. WantInv' /\ CarryInv' /\ PosInv'
  BY <1>1, <1>2, <1>3, <1>6, <1>7 DEF WantInv, CarryInv, PosInv
<1>9. ColdInv'
  BY <1>1, <1>2, <1>3, <1>6 DEF ColdInv
<1>10. LeftInv'
  <2>1. edit'.play = edit.play /\ Len(out') = 0
    BY <1>1, <1>7
  <2> QED
    BY <1>1, <1>3, <2>1 DEF LeftInv
<1>11. SeekInv'
  <2>1. NextCut(pos)' = NextCut(pos')
    BY DEF NextCut
  <2> QED
    BY <1>1, <1>2, <1>4, <1>6, <2>1 DEF SeekInv
<1>12. OutInv' /\ HeldInv' /\ BoundInv' /\ EndInv'
  BY <1>1, <1>7 DEF OutInv, HeldInv, BoundInv, EndInv
<1> QED
  BY <1>8, <1>9, <1>10, <1>11, <1>12 DEF Inv, FlowInv

LEMMA InvStep == Inv /\ [Next]_vars => Inv'
<1> SUFFICES ASSUME Inv, [Next]_vars PROVE Inv'
  OBVIOUS
<1>1. TypeOK'
  BY TypeStep DEF Inv
<1>2. CASE UNCHANGED vars
  <2>1. /\ UNCHANGED <<edit, pos, cold, pcm, carry, drained, skip, remaining,
                       afterSeek, seekTarget, start, out, failed, starved>>
        /\ pc' = pc /\ want' = want
    BY <1>2 DEF vars, edits, heard
  <2> QED
    BY <1>1, <2>1, QuietStep DEF Inv, WantInv
<1>3. CASE Pump
  BY <1>1, <1>3, StopsKeeps, PumpBeginsKeeps, PumpDecodesKeeps,
     PumpPrimesKeeps, PumpIsBusyKeeps, PumpEndsKeeps, PumpFailsKeeps,
     PumpDecodesItselfKeeps
  DEF Pump
<1>4. CASE Next /\ ~Pump
  BY <1>1, <1>4, ReadKeeps, StopsKeeps, ReadSkipsKeeps, ReadCarriesKeeps,
     ReadTakesKeeps, SeekKeeps
  DEF Next
<1> QED
  BY <1>2, <1>3, <1>4

LEMMA SpecInv == Spec => []Inv
<1>1. Inv /\ [Next]_vars => Inv'
  BY InvStep
<1> QED
  BY InitInv, <1>1, PTL DEF Spec

-----------------------------------------------------------------------------
(* The theorems *)

(* Whatever is asked of it, and in whatever order its parts answer, the     *)
(* state of PacketSource is one it was written for: no count below zero, no *)
(* more frames than were asked for (packet.cpp, read(), pump(), seek()).    *)
THEOREM SourceTypeCorrect == Spec => []TypeOK
<1>1. Inv => TypeOK
  BY DEF Inv
<1> QED
  BY SpecInv, <1>1, PTL

LEMMA OutIsDue ==
    ASSUME Inv, Good
    PROVE  out = Span(First, First + Len(out)) /\ Len(out) <= Due
<1>1. OutInv /\ BoundInv
  BY DEF Inv, FlowInv
<1>2. /\ First \in Nat /\ Last \in Int /\ Len(out) \in Nat
      /\ out \in Seq(0..AllFrames) /\ (out = <<>> <=> Len(out) = 0)
  BY Quantities, Lengths DEF Inv, TypeOK
<1>3. out = Span(First, First + Len(out))
  <2> DEFINE F == 0..AllFrames
  <2>1. out \in Seq(F)
    BY <1>2
  <2>2. \A i \in 1..Len(out) : out[i] = First + i - 1
    BY <1>1 DEF OutInv
  <2> HIDE DEF F
  <2> QED
    BY <1>2, <2>1, <2>2, SpanOf
<1>4. Len(out) <= Due
  BY <1>1, <1>2 DEF BoundInv, Due
<1> QED
  BY <1>3, <1>4

(* Whatever the cuts, the edit and the sizes of the reads, what read()      *)
(* hands over since the last seek is the audio from the frame asked for, in *)
(* order, none twice and none missing, and nothing of the delay, of what    *)
(* precedes the target or of the padding (packet.cpp, read() and pump()),   *)
(* as long as no packet failed, and either no other consumer had to read    *)
(* first or no padding is held back.                                        *)
THEOREM SourceHandsOverTheAudio == Spec => []HandsOverTheAudio
<1>1. Inv => HandsOverTheAudio
  BY OutIsDue DEF HandsOverTheAudio, Good
<1> QED
  BY SpecInv, <1>1, PTL

LEMMA ReturnsAtTheEnd ==
    ASSUME Inv, Inv', [Next]_vars, ReturnsNothing, ~failed', ~starved'
    PROVE  Len(out) = Due
<1>1. /\ pc # "idle" /\ pc' = "idle" /\ filled = 0
  BY DEF ReturnsNothing
<1>2. /\ First \in Nat /\ Last \in Int /\ Len(out) \in Nat
      /\ Last <= AllFrames - Trim /\ (Bounded => Last <= edit.skip + edit.play)
      /\ AllFrames \in Nat /\ Trim \in Nat /\ remaining \in Nat
      /\ start \in Nat /\ edit.skip \in Nat /\ edit.play \in Nat
      /\ First = edit.skip + start
  BY Quantities, Lengths DEF Inv, TypeOK, First
<1>3. ASSUME Good, First + Len(out) >= Last PROVE Len(out) = Due
  <2>1. Len(out) <= Due
    BY <1>3, OutIsDue
  <2>2. Due <= Len(out)
    BY <1>2, <1>3 DEF Due
  <2>3. Due \in Int
    BY <1>2 DEF Due
  <2> QED
    BY <1>2, <2>1, <2>2, <2>3
<1>4. CASE ReadIsFull
  <2>1. want = 0 /\ want \in ReadSizes
    BY <1>1, <1>4 DEF ReadIsFull, Inv, WantInv
  <2> QED
    BY <2>1, SourceAssumption
<1>5. CASE ReadIsOver
  <2>1. Good /\ Bounded /\ remaining = 0
    BY <1>5 DEF ReadIsOver, Returns, Good
  <2>2. Len(out) + remaining
          = IF edit.play > start THEN edit.play - start ELSE 0
    BY <2>1 DEF Inv, LeftInv
  <2>3. First + Len(out) >= Last
    BY <1>2, <2>1, <2>2, SMTT(30)
  <2> QED
    BY <1>3, <2>1, <2>3
<1>6. CASE PumpIsDrained
  <2>1. Good /\ drained /\ pcm = <<>>
    BY <1>6 DEF PumpIsDrained, Returns, Good
  <2>2. First + Len(out) >= Last
    BY <2>1 DEF Inv, FlowInv, EndInv
  <2> QED
    BY <1>3, <2>1, <2>2
<1>7. CASE PumpIsBusy
  BY <1>7 DEF PumpIsBusy
<1>8. CASE PumpEnds
  <2>1. /\ pc = "pumping" /\ ~SelfDecodes /\ pos >= Total /\ Flushed = 0 /\ Good
    BY <1>1, <1>8 DEF PumpEnds, heard, Good
  <2>2. pos = AllFrames /\ ~afterSeek
    <3>1. /\ pos \in Nat /\ Total \in Nat /\ AllFrames = Total + Flushed
      BY <2>1, Lengths, Quantities, CutsEnd DEF Inv
    <3>2. ~drained
      BY <2>1 DEF Inv, CarryInv
    <3> QED
      BY <2>1, <3>1, <3>2 DEF Inv, PosInv, FlowInv, SeekInv
  <2> QED
    BY <1>3, <2>1, <2>2, DriedUp
<1>9. CASE PumpFails
  BY <1>9 DEF PumpFails
<1>10. ASSUME NEW got \in 0..2, PumpDecodesItself(got) PROVE Len(out) = Due
  <2>1. /\ pc = "pumping" /\ SelfDecodes /\ got = 0 /\ pos + got <= Total
        /\ drained' = TRUE \/ (drained' = FALSE /\ got > 0)
        /\ starved' = starved
    BY <1>1, <1>10 DEF PumpDecodesItself
  <2>2. failed' = (failed \/ (drained' /\ pos + got < Total))
    BY <1>10 DEF PumpDecodesItself
  <2>3. ~failed /\ ~(drained' /\ pos + got < Total)
    BY <2>2, Zenon
  <2>4. Good
    BY <2>1, <2>3 DEF Good
  <2>5. pos = AllFrames
    <3>1. pos \in Nat /\ Total \in Nat /\ AllFrames = Total
      BY <2>1, Lengths, Quantities, CutsEnd DEF Inv
    <3> QED
      BY <2>1, <2>3, <3>1
  <2> QED
    BY <1>3, <2>1, <2>4, <2>5, DriedUp
<1>11. pc' = pc \/ pc' # "idle" \/ ReadIsFull \/ ReadIsOver \/ PumpIsDrained
       \/ PumpIsBusy \/ PumpEnds \/ PumpFails
       \/ \E got \in 0..2 : PumpDecodesItself(got)
  BY DEF Next, Pump, Read, ReadSkips, ReadCarries, ReadTakes, PumpBegins,
         PumpDecodes, PumpPrimes, Seek, vars
<1> QED
  BY <1>1, <1>4, <1>5, <1>6, <1>7, <1>8, <1>9, <1>10, <1>11

(* A read that returns nothing has nothing more to hand over: the end of    *)
(* the stream is never told while frames are still due, unless a packet     *)
(* failed or another consumer had to read first (packet.cpp, the returns of *)
(* read() and pump()).                                                      *)
THEOREM SourceNothingMeansTheEnd == Spec => NothingMeansTheEnd
<1>1. Inv /\ Inv' /\ [Next]_vars
        => [ReturnsNothing /\ ~failed' /\ ~starved' => Len(out) = Due]_vars
  BY ReturnsAtTheEnd
<1> QED
  BY SpecInv, <1>1, PTL DEF Spec, NothingMeansTheEnd
=============================================================================
