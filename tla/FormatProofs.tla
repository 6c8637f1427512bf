----------------------------- MODULE FormatProofs -----------------------------
(***************************************************************************)
(* Between a playlist and a device: for every playlist, what the queue says *)
(* of the run it joins is what it handed out; for every file, chain, device *)
(* and policy, what wire_up returns carries the signal it says it carries.  *)
(*                                                                         *)
(* Of the queue: its marks are the places where the run went from a track   *)
(* to the next, and the source being read stands where its mark says.  That *)
(* is kept by every step as long as no boundary was crossed into the middle *)
(* of a track.  Of the wiring: what the judgement of an answer guarantees,  *)
(* and that the list of candidates puts what is unaltered in front of what  *)
(* is converted.                                                            *)
(***************************************************************************)
EXTENDS GaplessQueue, Wiring, SequenceTheorems, WellFoundedInduction, TLAPS

-----------------------------------------------------------------------------
(* The queue's invariant. *)

(* A frame of the run: what was handed out at it, if anything was. *)
Piece == {Nothing} \cup [item : 1..Count, frame : Nat]
Mark == [from : Nat, index : 1..Count, base : {0}]
Ascending(list) == \A m, n \in 1..Len(list) : m < n => list[m].from < list[n].from

(* The mark of a list that covers a frame, and what is before a frame. *)
Covering(list, frame) ==
    Max({m \in 1..Len(list) : m = 1 \/ list[m].from <= frame})
LastBefore(list, frame) ==
    Max({0} \cup {m \in 1..Len(list) : list[m].from < frame})

Rejoined(list, frame, i) ==
    Append(SubSeq(list, 1, LastBefore(list, frame)),
           [from |-> frame, index |-> i, base |-> 0])

Typed ==
    /\ TypeOK
    /\ playlist \in Seq(Entry)
    /\ tape \in Seq(Piece)

(* Before it is opened, nothing has been read. *)
Fresh ==
    phase # "open" =>
        /\ marks = <<>> /\ cuts = {} /\ tape = <<>> /\ position = 0
        /\ ~done /\ ~running /\ ~nextWanted
        /\ \A i \in 1..Count : at[i] = 0

(* The marks begin with the run and ascend, and every entry they name can   *)
(* be joined with the one being read.                                       *)
Laid ==
    /\ phase = "open" => marks[1].from = 0
    /\ Ascending(marks)
    /\ \A m \in 1..Len(marks) :
           /\ HasAudio(marks[m].index)
           /\ playlist[marks[m].index].format = playlist[index].format
    /\ ~undone => \A c \in cuts : c <= position

(* A mark that no "next" and no skip put there is where the track before it *)
(* ended, and of the entry that follows it.                                 *)
Chained ==
    AsLaid =>
        \A m \in 1..(Len(marks) - 1) :
            /\ marks[m].index < marks[m + 1].index
            /\ marks[m + 1].from \notin cuts =>
                 /\ marks[m + 1].index = FirstFrom(marks[m].index + 1)
                 /\ marks[m + 1].from = marks[m].from + playlist[marks[m].index].frames

(* The source being read stands where the mark of its track says.           *)
StandsAt(m) ==
    /\ marks[m].index = index
    /\ marks[m].from <= position
    /\ at[index] = position - marks[m].from
    /\ m < Len(marks) => marks[m + 1].from \notin cuts
Current ==
    phase = "open" /\ AsLaid /\ ~done => \E m \in 1..Len(marks) : StandsAt(m)

(* What was handed out is the track and the frame its mark says.            *)
Told ==
    AsLaid =>
        \A f \in HandedOut :
            LET mark == marks[MarkFor(f)]
            IN  Handed(f) = [item |-> mark.index, frame |-> f - mark.from]

(* While a "next" waits for its seek, a call of the shell's is on, and the  *)
(* frame it asks for, or has asked for, is the one the device was at.       *)
Pressed ==
    nextWanted /\ running =>
        /\ shell \in {"next", "cancels"}
        /\ pressed \in Nat
        /\ goal \in {None, pressed}
        /\ goal = None => request = pressed

QueueInv ==
    /\ Typed /\ Fresh /\ Laid /\ Chained /\ Current /\ Told /\ StopSaysWhy
    /\ Pressed

-----------------------------------------------------------------------------
(* Numbers, entries and lists of marks. *)

(* A set of naturals with a member has a least one. *)
LEMMA LeastMember ==
    ASSUME NEW T \in SUBSET Nat, T # {}
    PROVE  \E m \in T : \A n \in T : m <= n
<1>1. \A m, n \in Nat : n < m => <<n, m>> \in OpToRel(<, Nat)
  BY SMT DEF OpToRel
<1>2. \E m \in T : \A n \in T : <<n, m>> \notin OpToRel(<, Nat)
  BY NatLessThanWellFounded, WFMin
<1>3. PICK R : /\ \A m, n \in Nat : n < m => <<n, m>> \in R
               /\ \E m \in T : \A n \in T : <<n, m>> \notin R
  BY <1>1, <1>2, Zenon
<1>4. PICK m \in T : \A n \in T : <<n, m>> \notin R
  BY <1>3, Zenon
<1>5. \A n \in T : ~(n < m)
  BY <1>3, <1>4, Zenon
<1> QED BY <1>5

LEMMA LeastIsMin ==
    ASSUME NEW T \in SUBSET Nat, T # {}
    PROVE  Min(T) \in T /\ \A n \in T : Min(T) <= n
<1>1. PICK m \in T : \A n \in T : m <= n
  BY LeastMember
<1> QED BY <1>1 DEF Min

(* A set with a bound has a greatest member. *)
LEMMA GreatestIsMax ==
    ASSUME NEW b \in Nat, NEW T \in SUBSET (0..b), T # {}
    PROVE  Max(T) \in T /\ \A n \in T : n <= Max(T)
<1> DEFINE Left == {b - n : n \in T}
<1>1. Left \in SUBSET Nat
  BY SMT
<1>2. Left # {}
  BY Zenon
<1>3. PICK l \in Left : \A k \in Left : l <= k
  <2> HIDE DEF Left
  <2> QED BY <1>1, <1>2, LeastMember
<1>4. PICK m \in T : l = b - m
  BY <1>3
<1>5. \A n \in T : b - m <= b - n
  BY <1>3, <1>4
<1>6. \A n \in T : m >= n
  BY <1>5, SMT
<1> QED BY <1>6 DEF Max

(* queue.cpp:136-160: the walk stops at an entry, or one past the last.     *)
LEMMA TheWalkStops ==
    ASSUME playlist \in Seq(Entry), NEW i \in 1..(Count + 1)
    PROVE  /\ FirstFrom(i) \in i..(Count + 1)
           /\ FirstFrom(i) # Count + 1 => playlist[FirstFrom(i)].format # "closed"
<1>1. Count \in Nat
  BY DEF Count
<1> DEFINE T == {j \in i..(Count + 1) : j = Count + 1 \/ playlist[j].format # "closed"}
<1>2. T \in SUBSET Nat /\ Count + 1 \in T
  BY <1>1
<1>3. Min(T) \in T
  <2> HIDE DEF T
  <2> QED BY <1>2, LeastIsMin
<1>4. FirstFrom(i) = Min(T)
  BY DEF FirstFrom
<1> QED BY <1>3, <1>4

(* queue.cpp:101, 136: what the queue stops for is told from the entry.     *)
LEMMA WhyIsTrue ==
    ASSUME playlist \in Seq(Entry), NEW i \in 1..(Count + 1), NEW j, j = FirstFrom(i)
    PROVE  /\ Why(j) \in {"end", "format_change", "silent"}
           /\ Why(j) = "end" => j = Count + 1
           /\ Why(j) = "silent" => playlist[j].format = "silent"
           /\ Why(j) = "format_change" => HasAudio(j)
<1>1. j \in i..(Count + 1) /\ (j # Count + 1 => playlist[j].format # "closed")
  BY TheWalkStops
<1>2. Count \in Nat
  BY DEF Count
<1>3. CASE HasAudio(j)
  BY <1>3 DEF Why
<1>4. CASE ~HasAudio(j) /\ j <= Count /\ playlist[j].format = "silent"
  BY <1>4 DEF Why
<1>5. CASE ~HasAudio(j) /\ ~(j <= Count /\ playlist[j].format = "silent")
  <2>1. Why(j) = "end"
    BY <1>5 DEF Why
  <2>2. ASSUME j # Count + 1 PROVE FALSE
    <3>1. j \in 1..Count
      BY <1>1, <1>2, <2>2
    <3>2. playlist[j] \in Entry
      BY <3>1, ElementOfSeq DEF Count
    <3>3. playlist[j].format \in AudioFormats \cup {"silent", "closed"}
      BY <3>2 DEF Entry
    <3> QED BY <1>1, <1>5, <2>2, <3>1, <3>3 DEF HasAudio
  <2> QED BY <2>1, <2>2
<1> QED BY <1>3, <1>4, <1>5

(* queue.cpp:207-214: the mark found covers the frame. *)
LEMMA CoveringCovers ==
    ASSUME NEW list \in Seq(Mark), list # <<>>, Ascending(list), NEW frame \in Nat
    PROVE  /\ Covering(list, frame) \in 1..Len(list)
           /\ Covering(list, frame) = 1 \/ list[Covering(list, frame)].from <= frame
           /\ \A n \in 1..Len(list) : n > Covering(list, frame) => list[n].from > frame
<1> DEFINE T == {m \in 1..Len(list) : m = 1 \/ list[m].from <= frame}
<1>1. Len(list) \in Nat /\ Len(list) >= 1
  BY EmptySeq, LenProperties
<1>2. T \in SUBSET (0..Len(list)) /\ 1 \in T
  BY <1>1
<1>3. Max(T) \in T /\ \A n \in T : n <= Max(T)
  <2> HIDE DEF T
  <2> QED BY <1>1, <1>2, GreatestIsMax
<1>4. Covering(list, frame) = Max(T)
  BY DEF Covering
<1>5. ASSUME NEW n \in 1..Len(list), n > Max(T) PROVE list[n].from > frame
  <2>1. n \notin T
    <3>1. Max(T) \in 1..Len(list)
      BY <1>3
    <3> HIDE DEF T
    <3>2. Max(T) \in Nat /\ n \in Nat
      BY <1>1, <3>1
    <3> QED BY <1>3, <1>5, <3>2
  <2>2. list[n] \in Mark
    BY ElementOfSeq
  <2>3. list[n].from \in Nat
    BY <2>2 DEF Mark
  <2> QED BY <2>1, <2>3
<1> QED BY <1>3, <1>4, <1>5

(* And it is the only one that does. *)
LEMMA OneCovers ==
    ASSUME NEW list \in Seq(Mark), list # <<>>, Ascending(list), NEW frame \in Nat,
           NEW m \in 1..Len(list),
           m = 1 \/ list[m].from <= frame,
           m < Len(list) => list[m + 1].from > frame
    PROVE  Covering(list, frame) = m
<1> DEFINE c == Covering(list, frame)
<1>1. /\ c \in 1..Len(list) /\ (c = 1 \/ list[c].from <= frame)
      /\ \A n \in 1..Len(list) : n > c => list[n].from > frame
  BY CoveringCovers
<1> HIDE DEF c
<1>2. \A n \in 1..Len(list) : list[n].from \in Nat
  <2> SUFFICES ASSUME NEW n \in 1..Len(list) PROVE list[n].from \in Nat
    OBVIOUS
  <2>1. list[n] \in Mark
    BY ElementOfSeq
  <2> QED BY <2>1 DEF Mark
<1>3. Len(list) \in Nat
  BY LenProperties
<1>4. ~(c < m)
  <2> SUFFICES ASSUME c < m PROVE FALSE
    OBVIOUS
  <2>1. list[m].from > frame /\ m # 1
    BY <1>1, <1>3
  <2> QED BY <1>2, <2>1
<1>5. ~(m < c)
  <2> SUFFICES ASSUME m < c PROVE FALSE
    OBVIOUS
  <2>1. m + 1 \in 1..Len(list) /\ m < Len(list) /\ m + 1 <= c
    BY <1>1, <1>3
  <2>2. list[m + 1].from > frame
    BY <2>1
  <2>3. list[m + 1].from <= list[c].from
    <3>1. CASE m + 1 = c
      BY <1>1, <1>2, <3>1
    <3>2. CASE m + 1 < c
      <4>1. list[m + 1].from < list[c].from
        BY <1>1, <2>1, <3>2 DEF Ascending
      <4> QED BY <1>1, <1>2, <2>1, <4>1
    <3> QED BY <1>1, <2>1, <3>1, <3>2
  <2>4. list[c].from <= frame
    BY <1>1, <1>3
  <2> QED BY <1>1, <1>2, <2>1, <2>2, <2>3, <2>4
<1> QED BY <1>1, <1>3, <1>4, <1>5 DEF c

(* queue.cpp:87-90, 127-130: what a boundary leaves of the marks. *)
LEMMA BoundaryAtTheEnd ==
    ASSUME NEW list \in Seq(Mark), Ascending(list), NEW frame \in Nat,
           NEW i \in 1..Count
    PROVE  \E k \in 0..Len(list) :
             LET new == Rejoined(list, frame, i)
             IN  /\ new \in Seq(Mark) /\ Len(new) = k + 1
                 /\ \A m \in 1..k : new[m] = list[m] /\ list[m].from < frame
                 /\ new[k + 1] = [from |-> frame, index |-> i, base |-> 0]
                 /\ \A m \in 1..Len(list) : m > k => list[m].from >= frame
                 /\ Ascending(new)
<1> DEFINE k == LastBefore(list, frame)
           new == Rejoined(list, frame, i)
           T == {0} \cup {m \in 1..Len(list) : list[m].from < frame}
           last == [from |-> frame, index |-> i, base |-> 0]
<1>1. Len(list) \in Nat
  BY LenProperties
<1>2. T \in SUBSET (0..Len(list)) /\ 0 \in T
  BY <1>1
<1>3. Max(T) \in T /\ \A n \in T : n <= Max(T)
  <2> HIDE DEF T
  <2> QED BY <1>1, <1>2, GreatestIsMax
<1>4. k = Max(T)
  BY DEF LastBefore
<1>5. k \in 0..Len(list) /\ k \in T
  BY <1>2, <1>3, <1>4
<1> HIDE DEF k, new
<1>6. \A n \in 1..Len(list) : list[n].from \in Nat
  <2> SUFFICES ASSUME NEW n \in 1..Len(list) PROVE list[n].from \in Nat
    OBVIOUS
  <2>1. list[n] \in Mark
    BY ElementOfSeq
  <2> QED BY <2>1 DEF Mark
<1>7. \A m \in 1..k : list[m].from < frame
  <2> SUFFICES ASSUME NEW m \in 1..k PROVE list[m].from < frame
    OBVIOUS
  <2>1. k \in 1..Len(list) /\ m \in 1..Len(list)
    BY <1>1, <1>5
  <2>2. list[k].from < frame
    BY <1>5, <2>1
  <2>3. CASE m = k
    BY <2>2, <2>3
  <2>4. CASE m < k
    <3>1. list[m].from < list[k].from
      BY <2>1, <2>4 DEF Ascending
    <3> QED BY <1>6, <2>1, <2>2, <3>1
  <2> QED BY <1>5, <2>3, <2>4
<1>8. \A m \in 1..Len(list) : m > k => list[m].from >= frame
  <2> SUFFICES ASSUME NEW m \in 1..Len(list), m > k PROVE list[m].from >= frame
    OBVIOUS
  <2>1. m \notin T
    <3> HIDE DEF T
    <3> QED BY <1>3, <1>4, <1>5
  <2>2. list[m].from \in Nat
    BY <1>6
  <2> QED BY <2>1, <2>2
<1>9. /\ SubSeq(list, 1, k) \in Seq(Mark) /\ Len(SubSeq(list, 1, k)) = k
      /\ \A m \in 1..k : SubSeq(list, 1, k)[m] = list[m]
  <2> HIDE DEF T
  <2> DEFINE q == SubSeq(list, 1, k)
  <2>1. \A m \in 1..k : list[m] \in Mark
    BY <1>1, <1>5, ElementOfSeq
  <2>2. /\ q \in Seq(Mark)
        /\ Len(q) = IF 1 <= k THEN k - 1 + 1 ELSE 0
        /\ \A m \in 1..(k - 1 + 1) : q[m] = list[1 + m - 1]
    <3>1. 1 \in 1..(Len(list) + 1) /\ k \in 0..Len(list)
      BY <1>1, <1>5
    <3> QED BY <3>1, SubSeqProperties
  <2> HIDE DEF q
  <2>3. Len(q) = k
    BY <1>1, <1>5, <2>2
  <2>4. \A m \in 1..k : q[m] = list[m]
    <3> SUFFICES ASSUME NEW m \in 1..k PROVE q[m] = list[m]
      OBVIOUS
    <3>1. m \in 1..(k - 1 + 1) /\ 1 + m - 1 = m
      BY <1>1, <1>5
    <3> QED BY <2>2, <3>1
  <2> QED BY <2>2, <2>3, <2>4 DEF q
<1>10. last \in Mark
  BY DEF Mark
<1>11. new = Append(SubSeq(list, 1, k), last)
  BY DEF Rejoined, k, new
<1>12. /\ new \in Seq(Mark) /\ Len(new) = k + 1 /\ new[k + 1] = last
       /\ \A m \in 1..k : new[m] = list[m]
  <2> HIDE DEF last, T
  <2> QED BY <1>5, <1>9, <1>10, <1>11, AppendProperties
<1>13. Ascending(new)
  <2> SUFFICES ASSUME NEW m \in 1..(k + 1), NEW n \in 1..(k + 1), m < n
               PROVE  new[m].from < new[n].from
    BY <1>12 DEF Ascending
  <2>1. m \in 1..k /\ m \in 1..Len(list)
    BY <1>1, <1>5
  <2>2. CASE n = k + 1
    BY <1>7, <1>12, <2>1, <2>2
  <2>3. CASE n # k + 1
    <3>1. n \in 1..k /\ n \in 1..Len(list)
      BY <1>1, <1>5, <2>3
    <3> QED BY <1>12, <2>1, <3>1 DEF Ascending
  <2> QED BY <2>2, <2>3
<1> HIDE DEF T
<1> QED BY <1>5, <1>7, <1>8, <1>12, <1>13 DEF new

(* The entries stay what they are. *)
LEMMA SameList ==
    ASSUME playlist' = playlist
    PROVE  /\ Count' = Count /\ Piece' = Piece /\ Mark' = Mark
           /\ \A i : FirstFrom(i)' = FirstFrom(i)
           /\ \A i : HasAudio(i)' <=> HasAudio(i)
<1>1. Count' = Count
  BY DEF Count
<1>2. Piece' = Piece /\ Mark' = Mark
  BY <1>1 DEF Piece, Mark
<1>3. \A i : FirstFrom(i)' = FirstFrom(i)
  BY <1>1 DEF FirstFrom
<1>4. \A i : HasAudio(i)' <=> HasAudio(i)
  BY <1>1 DEF HasAudio
<1> QED BY <1>1, <1>2, <1>3, <1>4

LEMMA EntriesAreTyped ==
    ASSUME playlist \in Seq(Entry)
    PROVE  /\ Count \in Nat /\ DOMAIN playlist = 1..Count
           /\ \A i \in 1..Count : playlist[i].frames \in Nat /\ playlist[i].frames > 0
<1>1. Count \in Nat /\ DOMAIN playlist = 1..Count
  BY LenProperties DEF Count
<1>2. ASSUME NEW i \in 1..Count
      PROVE  playlist[i].frames \in Nat /\ playlist[i].frames > 0
  <2>1. playlist[i] \in Entry
    BY ElementOfSeq DEF Count
  <2>2. playlist[i].frames \in Nat \ {0}
    BY <2>1 DEF Entry
  <2> QED BY <2>2
<1> QED BY <1>1, <1>2

LEMMA MarksAreTyped ==
    ASSUME marks \in Seq(Mark)
    PROVE  /\ Len(marks) \in Nat
           /\ \A m \in 1..Len(marks) :
                  /\ marks[m].from \in Nat /\ marks[m].index \in 1..Count
                  /\ marks[m].base = 0
<1>1. Len(marks) \in Nat
  BY LenProperties
<1>2. ASSUME NEW m \in 1..Len(marks)
      PROVE  marks[m].from \in Nat /\ marks[m].index \in 1..Count /\ marks[m].base = 0
  <2>1. marks[m] \in Mark
    BY ElementOfSeq
  <2> QED BY <2>1 DEF Mark
<1> QED BY <1>1, <1>2

(* A seek leaves of the run what was before it. *)
LEMMA RunIsRewritten ==
    ASSUME tape \in Seq(Piece), NEW frame \in Nat
    PROVE  /\ Rewritten(frame) \in Seq(Piece) /\ Len(Rewritten(frame)) = frame
           /\ \A f \in 0..(frame - 1) :
                  Rewritten(frame)[f + 1] # Nothing =>
                      f < Len(tape) /\ Rewritten(frame)[f + 1] = tape[f + 1]
<1> DEFINE p(r) == IF r <= Len(tape) THEN tape[r] ELSE Nothing
           q == [r \in 1..frame |-> p(r)]
<1>1. Len(tape) \in Nat
  BY LenProperties
<1>2. \A r \in 1..frame : p(r) \in Piece
  <2> SUFFICES ASSUME NEW r \in 1..frame PROVE p(r) \in Piece
    OBVIOUS
  <2>1. CASE r <= Len(tape)
    <3>1. r \in 1..Len(tape)
      BY <1>1, <2>1
    <3>2. tape[r] \in Piece
      BY <3>1, ElementOfSeq
    <3> QED BY <2>1, <3>2
  <2>2. CASE ~(r <= Len(tape))
    BY <2>2 DEF Piece
  <2> QED BY <2>1, <2>2
<1>3. q = Rewritten(frame)
  BY DEF Rewritten
<1>4. q \in Seq(Piece) /\ Len(q) = frame
  <2> HIDE DEF p
  <2> QED BY <1>2, IsASeq, LenProperties
<1>5. ASSUME NEW f \in 0..(frame - 1), q[f + 1] # Nothing
      PROVE  f < Len(tape) /\ q[f + 1] = tape[f + 1]
  <2>1. f + 1 \in 1..frame
    OBVIOUS
  <2>2. q[f + 1] = p(f + 1)
    BY <2>1
  <2> QED BY <1>1, <1>5, <2>2
<1> HIDE DEF q
<1> QED BY <1>3, <1>4, <1>5

(* queue.cpp:101-108, 127-134: the marks when a track is joined at a frame.  *)
(* What was before the frame keeps its mark, and its track.                 *)
JoinedAfter(k, m, frame, j) ==
    /\ k \in {m - 1, m} /\ (marks[m].from < frame => k = m)
    /\ marks' \in Seq(Mark) /\ Len(marks') = k + 1
    /\ \A n \in 1..k : marks'[n] = marks[n] /\ marks[n].from < frame
    /\ marks'[k + 1] = [from |-> frame, index |-> j, base |-> 0]
    /\ marks' # <<>> /\ marks'[1].from = 0
    /\ Ascending(marks')
    /\ \A n \in 1..(k + 1) :
           HasAudio(marks'[n].index)
           /\ playlist[marks'[n].index].format = playlist[j].format
    /\ \A f \in 0..(frame - 1) :
           Covering(marks, f) \in 1..k /\ Covering(marks', f) = Covering(marks, f)

LEMMA MarksWhenJoined ==
    ASSUME QueueInv, phase = "open", playlist' = playlist,
           NEW frame \in Nat, NEW j \in 1..Count, Joins(j),
           marks' = Marked(frame, j),
           NEW m \in 1..Len(marks), marks[m].from <= frame,
           m < Len(marks) => marks[m + 1].from >= frame
    PROVE  \E k \in 0..Len(marks) : JoinedAfter(k, m, frame, j)
<1>1. /\ playlist \in Seq(Entry) /\ marks \in Seq(Mark) /\ marks # <<>>
      /\ marks[1].from = 0 /\ Ascending(marks)
      /\ \A n \in 1..Len(marks) :
           /\ HasAudio(marks[n].index)
           /\ playlist[marks[n].index].format = playlist[index].format
  BY DEF QueueInv, Typed, TypeOK, Laid, Mark
<1>2. /\ Len(marks) \in Nat
      /\ \A n \in 1..Len(marks) : marks[n].from \in Nat /\ marks[n].index \in 1..Count
  BY <1>1, MarksAreTyped
<1>3. PICK k \in 0..Len(marks) :
        /\ marks' \in Seq(Mark) /\ Len(marks') = k + 1
        /\ \A n \in 1..k : marks'[n] = marks[n] /\ marks[n].from < frame
        /\ marks'[k + 1] = [from |-> frame, index |-> j, base |-> 0]
        /\ \A n \in 1..Len(marks) : n > k => marks[n].from >= frame
        /\ Ascending(marks')
  <2>1. marks' = Rejoined(marks, frame, j)
    BY DEF Marked, Before, LastBefore, Rejoined
  <2> DEFINE new == Rejoined(marks, frame, j)
  <2>2. \E k \in 0..Len(marks) :
          /\ new \in Seq(Mark) /\ Len(new) = k + 1
          /\ \A n \in 1..k : new[n] = marks[n] /\ marks[n].from < frame
          /\ new[k + 1] = [from |-> frame, index |-> j, base |-> 0]
          /\ \A n \in 1..Len(marks) : n > k => marks[n].from >= frame
          /\ Ascending(new)
    <3>1. marks \in Seq(Mark) /\ Ascending(marks) /\ frame \in Nat /\ j \in 1..Count
      BY <1>1
    <3> QED BY <3>1, BoundaryAtTheEnd, Zenon
  <2>3. marks' = new
    BY <2>1
  <2> HIDE DEF new
  <2> QED BY <2>2, <2>3, Zenon
<1>4. marks[m].from < frame => k = m
  <2> SUFFICES ASSUME marks[m].from < frame PROVE k = m
    OBVIOUS
  <2>1. m <= k
    BY <1>2, <1>3, SMT
  <2>2. ~(m < k)
    <3> SUFFICES ASSUME m < k PROVE FALSE
      OBVIOUS
    <3>1. m + 1 \in 1..k /\ m < Len(marks) /\ m + 1 \in 1..Len(marks)
      BY <1>2, <1>3
    <3> QED BY <1>2, <1>3, <3>1
  <2> QED BY <1>3, <2>1, <2>2
<1>5. k \in {m - 1, m}
  <2>1. CASE marks[m].from < frame
    BY <1>4, <2>1
  <2>2. CASE marks[m].from = frame
    <3>1. ~(m <= k)
      BY <1>2, <1>3, <2>2
    <3>2. CASE m = 1
      BY <1>3, <3>1, <3>2
    <3>3. CASE m # 1
      <4>1. m - 1 \in 1..Len(marks)
        BY <1>2, <3>3
      <4>2. marks[m - 1].from < marks[m].from
        BY <1>1, <4>1 DEF Ascending
      <4>3. ~(m - 1 > k)
        <5> SUFFICES ASSUME m - 1 > k PROVE FALSE
          OBVIOUS
        <5>1. marks[m - 1].from >= frame
          BY <1>3, <4>1
        <5>2. marks[m - 1].from \in Nat
          BY <1>2, <4>1
        <5> QED BY <2>2, <4>2, <5>1, <5>2
      <4> QED BY <1>2, <1>3, <3>1, <4>3
    <3> QED BY <3>2, <3>3
  <2> QED BY <1>2, <2>1, <2>2
<1>6. 1 \in 1..Len(marks)
  BY <1>2
<1>7. marks' # <<>>
  <2> SUFFICES ASSUME marks' = <<>> PROVE FALSE
    OBVIOUS
  <2>1. Len(marks') = 0
    OBVIOUS
  <2> QED BY <1>3, <2>1
<1>8. marks'[1].from = 0
  <2>1. CASE k = 0
    <3>1. marks[1].from >= frame
      BY <1>3, <1>6, <2>1
    <3>2. frame = 0
      BY <1>1, <3>1
    <3> QED BY <1>3, <2>1, <3>2
  <2>2. CASE k # 0
    <3>1. 1 \in 1..k
      BY <1>3, <2>2
    <3> QED BY <1>1, <1>3, <3>1
  <2> QED BY <2>1, <2>2
<1>9. HasAudio(j) /\ playlist[j].format = playlist[index].format
  BY DEF Joins
<1>10. ASSUME NEW n \in 1..(k + 1)
       PROVE  HasAudio(marks'[n].index)
              /\ playlist[marks'[n].index].format = playlist[j].format
  <2>1. CASE n = k + 1
    BY <1>3, <1>9, <2>1
  <2>2. CASE n # k + 1
    <3>1. n \in 1..k /\ n \in 1..Len(marks)
      BY <1>2, <1>3, <2>2
    <3> QED BY <1>1, <1>3, <1>9, <3>1
  <2> QED BY <2>1, <2>2
<1>11. ASSUME NEW f \in 0..(frame - 1)
       PROVE  Covering(marks, f) \in 1..k /\ Covering(marks', f) = Covering(marks, f)
  <2> DEFINE c == Covering(marks, f)
  <2>1. /\ c \in 1..Len(marks) /\ (c = 1 \/ marks[c].from <= f)
        /\ \A n \in 1..Len(marks) : n > c => marks[n].from > f
    <3>1. f \in Nat
      OBVIOUS
    <3> QED BY <1>1, <3>1, CoveringCovers
  <2> HIDE DEF c
  <2>2. marks[c].from < frame
    BY <1>1, <1>2, <2>1
  <2>3. c \in 1..k
    BY <1>2, <1>3, <2>1, <2>2
  <2>4. c \in 1..Len(marks') /\ (c = 1 \/ marks'[c].from <= f)
    BY <1>3, <2>1, <2>3
  <2>5. c < Len(marks') => marks'[c + 1].from > f
    <3>1. CASE c = k
      BY <1>3, <3>1
    <3>2. CASE c # k
      <4>1. c + 1 \in 1..k /\ c + 1 \in 1..Len(marks)
        BY <1>2, <1>3, <2>3, <3>2, SMTT(30)
      <4> QED BY <1>3, <2>1, <4>1
    <3> QED BY <3>1, <3>2
  <2>6. Covering(marks', f) = c
    <3>1. f \in Nat
      OBVIOUS
    <3> QED BY <1>3, <1>7, <2>4, <2>5, <3>1, OneCovers
  <2> QED BY <2>3, <2>6 DEF c
<1> QED BY <1>3, <1>4, <1>5, <1>7, <1>8, <1>10, <1>11 DEF JoinedAfter

-----------------------------------------------------------------------------
(* What the steps of the decode thread do to the parts of the invariant. *)

(* Where the run goes on is where it was, as far as it was handed out.      *)
LEMMA RunIsKept ==
    ASSUME Typed, Told, AsLaid' => AsLaid, playlist' = playlist,
           \A f \in HandedOut' :
               /\ f < position /\ tape'[f + 1] = tape[f + 1]
               /\ marks'[Covering(marks', f)] = marks[Covering(marks, f)]
    PROVE  Told'
<1> SUFFICES ASSUME AsLaid', NEW f \in HandedOut'
             PROVE  Handed(f)' = [item  |-> marks'[Covering(marks', f)].index,
                                  frame |-> f - marks'[Covering(marks', f)].from]
  BY DEF Told, MarkFor, Covering
<1>1. /\ f < position /\ tape'[f + 1] = tape[f + 1]
      /\ marks'[Covering(marks', f)] = marks[Covering(marks, f)]
  OBVIOUS
<1>2. f \in HandedOut
  <2>1. f \in 0..(position' - 1) /\ tape'[f + 1] # Nothing
    BY DEF HandedOut, Handed
  <2>2. position \in Nat
    BY DEF Typed, TypeOK
  <2>3. f \in 0..(position - 1)
    BY <1>1, <2>1, <2>2
  <2> QED BY <1>1, <2>1, <2>3 DEF HandedOut, Handed
<1>3. Handed(f) = [item  |-> marks[Covering(marks, f)].index,
                   frame |-> f - marks[Covering(marks, f)].from]
  BY <1>2 DEF Told, MarkFor, Covering
<1> QED BY <1>1, <1>3 DEF Handed

(* A track is joined at a frame: by the decoder, or by a "next".            *)
LEMMA TrackIsJoined ==
    ASSUME QueueInv, phase = "open", playlist' = playlist,
           NEW frame \in Nat, NEW j \in 1..Count, Joins(j),
           marks' = Marked(frame, j), index' = j, position' = frame, ~done',
           NEW m \in 1..Len(marks), marks[m].from <= frame,
           m < Len(marks) => marks[m + 1].from >= frame,
           AsLaid => marks[m].index < j,
           AsLaid' => AsLaid /\ at'[j] = 0,
           frame \notin cuts' /\ AsLaid' =>
               /\ marks[m].from < frame
               /\ j = FirstFrom(marks[m].index + 1)
               /\ frame = marks[m].from + playlist[marks[m].index].frames,
           \A c \in cuts : c < frame => c \in cuts',
           ~undone' => \A c \in cuts' : c <= frame,
           \A f \in HandedOut' : f < position /\ tape'[f + 1] = tape[f + 1]
    PROVE  /\ marks' \in Seq(Mark) /\ marks' # <<>> /\ marks'[1].from = 0
           /\ Laid' /\ Chained' /\ Current' /\ Told' /\ StopSaysWhy'
<1>1. PICK k \in 0..Len(marks) :
        /\ k \in {m - 1, m} /\ (marks[m].from < frame => k = m)
        /\ marks' \in Seq(Mark) /\ Len(marks') = k + 1
        /\ \A n \in 1..k : marks'[n] = marks[n] /\ marks[n].from < frame
        /\ marks'[k + 1] = [from |-> frame, index |-> j, base |-> 0]
        /\ marks' # <<>> /\ marks'[1].from = 0
        /\ Ascending(marks')
        /\ \A n \in 1..(k + 1) :
               HasAudio(marks'[n].index)
               /\ playlist[marks'[n].index].format = playlist[j].format
        /\ \A f \in 0..(frame - 1) :
               Covering(marks, f) \in 1..k /\ Covering(marks', f) = Covering(marks, f)
  <2>1. PICK k \in 0..Len(marks) : JoinedAfter(k, m, frame, j)
    BY MarksWhenJoined, ZenonT(60)
  <2> QED BY <2>1, Zenon DEF JoinedAfter
<1>2. /\ marks \in Seq(Mark) /\ Typed /\ Told /\ Chained
      /\ Len(marks) \in Nat
      /\ \A n \in 1..Len(marks) : marks[n].from \in Nat /\ marks[n].index \in 1..Count
  <2>1. marks \in Seq(Mark)
    BY DEF QueueInv, Typed, TypeOK, Mark
  <2> QED BY <2>1, MarksAreTyped DEF QueueInv
<1>3. Laid'
  <2>1. \A n \in 1..Len(marks') :
          /\ HasAudio(marks'[n].index)
          /\ playlist'[marks'[n].index].format = playlist'[index'].format
    BY <1>1
  <2>3. Count' = Count
    BY SameList
  <2>2. ~undone' => \A c \in cuts' : c <= position'
    OBVIOUS
  <2> QED BY <1>1, <2>1, <2>2, <2>3 DEF Laid, HasAudio, Ascending
<1>4. Chained'
  <2>1. \A n : FirstFrom(marks[n].index + 1)' = FirstFrom(marks'[n].index + 1)
    BY DEF FirstFrom, Count
  <2> SUFFICES ASSUME AsLaid', NEW n \in 1..(Len(marks') - 1)
               PROVE  /\ marks'[n].index < marks'[n + 1].index
                      /\ marks'[n + 1].from \notin cuts' =>
                           /\ marks'[n + 1].index = FirstFrom(marks'[n].index + 1)
                           /\ marks'[n + 1].from =
                                marks'[n].from + playlist[marks'[n].index].frames
    BY <2>1 DEF Chained
  <2>2. \A x \in 1..(Len(marks) - 1) :
            /\ marks[x].index < marks[x + 1].index
            /\ marks[x + 1].from \notin cuts =>
                 /\ marks[x + 1].index = FirstFrom(marks[x].index + 1)
                 /\ marks[x + 1].from = marks[x].from + playlist[marks[x].index].frames
    BY <1>2 DEF Chained
  <2>3. n \in 1..k
    BY <1>1
  <2>4. CASE n = k
    <3>1. marks'[n + 1] = [from |-> frame, index |-> j, base |-> 0] /\ marks'[n] = marks[n]
      BY <1>1, <2>3, <2>4
    <3>2. marks[n].index < j
      <4>1. CASE n = m
        BY <4>1, ZenonT(60)
      <4>2. CASE n = m - 1
        <5>1. n \in 1..(Len(marks) - 1) /\ n + 1 = m
          BY <1>2, <2>3, <4>2
        <5>2. marks[n].index < marks[m].index
          BY <2>2, <5>1
        <5>3. n \in 1..Len(marks)
          BY <5>1, <1>2
        <5>4. marks[m].index < j
          BY ZenonT(60)
        <5>5. marks[n].index \in Nat /\ marks[m].index \in Nat /\ j \in Nat
          BY <1>2, <5>3, SMTT(30)
        <5> QED BY <5>2, <5>4, <5>5, SMTT(40)
      <4> QED BY <1>1, <2>4, <4>1, <4>2
    <3>3. ASSUME frame \notin cuts'
          PROVE  /\ j = FirstFrom(marks[n].index + 1)
                 /\ frame = marks[n].from + playlist[marks[n].index].frames
      <4>1. marks[m].from < frame /\ j = FirstFrom(marks[m].index + 1)
            /\ frame = marks[m].from + playlist[marks[m].index].frames
        BY <3>3, ZenonT(60)
      <4>2. n = m
        BY <1>1, <2>4, <4>1, ZenonT(60)
      <4> QED BY <4>1, <4>2, Zenon
    <3> QED BY <2>1, <3>1, <3>2, <3>3
  <2>5. CASE n # k
    <3>1. n \in 1..k /\ n + 1 \in 1..k /\ n \in 1..(Len(marks) - 1)
      <4>1. k \in Nat /\ k <= Len(marks) /\ Len(marks) \in Nat /\ n \in Nat
        BY <1>1, <1>2, <2>3
      <4> QED BY <2>3, <2>5, <4>1
    <3>2. marks'[n] = marks[n] /\ marks'[n + 1] = marks[n + 1] /\ marks[n + 1].from < frame
      BY <1>1, <3>1
    <3>3. marks[n + 1].from \notin cuts' => marks[n + 1].from \notin cuts
      BY <3>2
    <3> QED BY <2>1, <2>2, <3>1, <3>2, <3>3
  <2> QED BY <2>4, <2>5
<1>5. Current'
  <2> SUFFICES ASSUME AsLaid' PROVE \E n \in 1..Len(marks') : StandsAt(n)'
    BY DEF Current
  <2>1. k + 1 \in 1..Len(marks')
    BY <1>1
  <2>2. /\ marks'[k + 1].index = index' /\ marks'[k + 1].from <= position'
        /\ at'[index'] = position' - marks'[k + 1].from
        /\ ~(k + 1 < Len(marks'))
    BY <1>1
  <2>3. StandsAt(k + 1)'
    BY <2>2 DEF StandsAt
  <2> QED BY <2>1, <2>3
<1>6. Told'
  <2>1. ASSUME NEW f \in HandedOut'
        PROVE  /\ f < position /\ tape'[f + 1] = tape[f + 1]
               /\ marks'[Covering(marks', f)] = marks[Covering(marks, f)]
    <3>1. f \in 0..(frame - 1)
      BY DEF HandedOut
    <3> QED BY <1>1, <3>1
  <2>2. AsLaid' => AsLaid
    OBVIOUS
  <2> QED BY <1>2, <2>1, <2>2, RunIsKept
<1>7. StopSaysWhy'
  BY DEF StopSaysWhy
<1> QED BY <1>1, <1>3, <1>4, <1>5, <1>6, <1>7

(* Nothing can be joined at a frame: the queue is done there.               *)
LEMMA QueueIsDone ==
    ASSUME QueueInv, phase = "open", playlist' = playlist,
           NEW frame \in Nat, position' = frame, done',
           UNCHANGED <<marks, index>>,
           NEW j, AsLaid => j = FirstFrom(IndexAt(frame) + 1),
           ~Joins(j), stopped' = Why(j),
           AsLaid' => AsLaid,
           AsLaid => \A c \in cuts : c \in cuts',
           ~undone' => \A c \in cuts' : c <= frame,
           \A f \in HandedOut' : f < position /\ tape'[f + 1] = tape[f + 1]
    PROVE  Laid' /\ Chained' /\ Current' /\ Told' /\ StopSaysWhy'
<1>1. /\ marks \in Seq(Mark) /\ marks # <<>> /\ marks[1].from = 0 /\ Ascending(marks)
      /\ playlist \in Seq(Entry)
      /\ Typed /\ Told /\ Chained /\ Laid
  BY DEF QueueInv, Typed, TypeOK, Laid, Mark
<1>2. Laid'
  <2>1. \A i : HasAudio(i)' <=> HasAudio(i)
    BY SameList
  <2>2. ~undone' => \A c \in cuts' : c <= position'
    OBVIOUS
  <2> QED BY <1>1, <2>1, <2>2 DEF Laid, Ascending
<1>3. Chained'
  <2>1. \A n : FirstFrom(marks[n].index + 1)' = FirstFrom(marks[n].index + 1)
    BY DEF FirstFrom, Count
  <2>2. AsLaid' => \A n \in 1..(Len(marks) - 1) :
          /\ marks[n].index < marks[n + 1].index
          /\ marks[n + 1].from \notin cuts' =>
               /\ marks[n + 1].index = FirstFrom(marks[n].index + 1)
               /\ marks[n + 1].from =
                    marks[n].from + playlist[marks[n].index].frames
    BY <1>1 DEF Chained
  <2> QED BY <2>1, <2>2 DEF Chained
<1>4. Current'
  BY DEF Current
<1>5. Told'
  BY <1>1, RunIsKept
<1>6. StopSaysWhy'
  <2> SUFFICES ASSUME AsLaid' PROVE StopSaysWhy'
    BY DEF StopSaysWhy
  <2> DEFINE m == Covering(marks, frame)
  <2>1. m \in 1..Len(marks) /\ IndexAt(frame) = marks[m].index
    BY <1>1, CoveringCovers DEF IndexAt, MarkFor, Covering
  <2>2. IndexAt(frame) \in 1..Count /\ Count \in Nat
    BY <1>1, <2>1, MarksAreTyped, EntriesAreTyped
  <2>3. /\ Why(j) \in {"end", "format_change", "silent"}
        /\ Why(j) = "end" => j = Count + 1
        /\ Why(j) = "silent" => playlist[j].format = "silent"
        /\ Why(j) = "format_change" => HasAudio(j)
    <3>1. IndexAt(frame) + 1 \in 1..(Count + 1)
      BY <2>2
    <3> QED BY <1>1, <3>1, WhyIsTrue
  <2>4. FirstFrom(IndexAt(position) + 1)' = j
    <3>1. IndexAt(position)' = IndexAt(frame)
      BY DEF IndexAt, MarkFor
    <3>2. FirstFrom(IndexAt(frame) + 1)' = FirstFrom(IndexAt(frame) + 1)
      BY DEF FirstFrom, Count, IndexAt, MarkFor
    <3> QED BY <3>1, <3>2 DEF FirstFrom
  <2>5. /\ Count' = Count /\ (HasAudio(j)' <=> HasAudio(j)) /\ (Joins(j)' <=> Joins(j))
    BY SameList DEF Joins
  <2> QED BY <2>3, <2>4, <2>5 DEF StopSaysWhy
<1> QED BY <1>2, <1>3, <1>4, <1>5, <1>6

(* Where the source being read stands is in the track of its mark, or at    *)
(* its end, where the next mark is if there is one.                         *)
LEMMA StandsInItsTrack ==
    ASSUME QueueInv, phase = "open", AsLaid, NEW m \in 1..Len(marks), StandsAt(m)
    PROVE  /\ m < Len(marks) =>
                /\ marks[m + 1].index = FirstFrom(index + 1)
                /\ marks[m + 1].from = marks[m].from + playlist[index].frames
                /\ marks[m + 1].from >= position
           /\ at[index] < playlist[index].frames => Covering(marks, position) = m
<1>1. /\ playlist \in Seq(Entry) /\ marks \in Seq(Mark) /\ marks # <<>>
      /\ marks[1].from = 0 /\ Ascending(marks)
      /\ Chained /\ position \in Nat /\ index \in 1..Count
      /\ at[index] \in 0..playlist[index].frames
  BY DEF QueueInv, Typed, TypeOK, Laid, Mark
<1>2. /\ Len(marks) \in Nat
      /\ \A n \in 1..Len(marks) : marks[n].from \in Nat
  BY <1>1, MarksAreTyped
<1>3. playlist[index].frames \in Nat
  BY <1>1, EntriesAreTyped
<1>4. ASSUME m < Len(marks)
      PROVE  /\ marks[m + 1].index = FirstFrom(index + 1)
             /\ marks[m + 1].from = marks[m].from + playlist[index].frames
             /\ marks[m + 1].from >= position
  <2>1. m \in 1..(Len(marks) - 1)
    BY <1>2, <1>4
  <2>2. /\ marks[m + 1].index = FirstFrom(marks[m].index + 1)
        /\ marks[m + 1].from = marks[m].from + playlist[marks[m].index].frames
    BY <1>1, <1>4, <2>1 DEF Chained, StandsAt
  <2>3. marks[m].index = index /\ at[index] = position - marks[m].from
    BY DEF StandsAt
  <2>4. /\ marks[m].from \in Nat /\ position \in Nat /\ at[index] \in Nat
        /\ playlist[index].frames \in Nat /\ at[index] <= playlist[index].frames
    BY <1>1, <1>2, <1>3
  <2>5. position <= marks[m].from + playlist[index].frames
    BY <2>3, <2>4
  <2> QED BY <2>2, <2>3, <2>5
<1>5. ASSUME at[index] < playlist[index].frames PROVE Covering(marks, position) = m
  <2>1. m < Len(marks) => marks[m + 1].from > position
    <3> SUFFICES ASSUME m < Len(marks) PROVE marks[m + 1].from > position
      OBVIOUS
    <3>1. marks[m + 1].from = marks[m].from + playlist[index].frames
      BY <1>4
    <3>2. at[index] = position - marks[m].from
      BY DEF StandsAt
    <3>3. marks[m].from \in Nat
      BY <1>2
    <3>4. position \in Nat /\ at[index] \in Nat /\ playlist[index].frames \in Nat
      BY <1>1, <1>3
    <3>5. position < marks[m].from + playlist[index].frames
      BY <1>5, <3>2, <3>3, <3>4
    <3> QED BY <3>1, <3>5
  <2>2. marks[m].from <= position
    BY DEF StandsAt
  <2> QED BY <1>1, <2>1, <2>2, OneCovers
<1> QED BY <1>4, <1>5

LEMMA FrameIsRead ==
    ASSUME QueueInv, ReadFrame
    PROVE  QueueInv'
<1>1. /\ running /\ ~done /\ at[index] < playlist[index].frames
      /\ at' = [at EXCEPT ![index] = @ + 1]
      /\ position' = position + 1
      /\ tape' = Append(tape, [item |-> index, frame |-> at[index]])
      /\ UNCHANGED <<playlist, phase, running, index, marks, skip, nextWanted,
                     done, stopped, request, shell, goal, calls, pressed, heard, cuts,
                     undone, reread, lost>>
  BY DEF ReadFrame, call
<1>2. /\ Typed /\ phase = "open" /\ Laid /\ Chained /\ Current /\ Told
      /\ TypeOK /\ playlist \in Seq(Entry) /\ tape \in Seq(Piece)
      /\ marks \in Seq(Mark) /\ marks # <<>> /\ Ascending(marks)
  BY <1>1 DEF QueueInv, Fresh, Typed, TypeOK, Laid, Mark
<1>3. /\ index \in 1..Count /\ position \in Nat /\ Len(tape) = position
      /\ DOMAIN at = 1..Count
      /\ \A i \in 1..Count : at[i] \in 0..playlist[i].frames
      /\ playlist[index].frames \in Nat
  BY <1>2, EntriesAreTyped DEF TypeOK
<1> DEFINE piece == [item |-> index, frame |-> at[index]]
<1>4. /\ at[index] \in Nat /\ piece \in Piece
  BY <1>3 DEF Piece
<1>5. /\ tape' \in Seq(Piece) /\ Len(tape') = position + 1 /\ tape'[position + 1] = piece
      /\ \A r \in 1..position : tape'[r] = tape[r]
  <2> HIDE DEF piece
  <2>1. tape' = Append(tape, piece)
    BY <1>1 DEF piece
  <2> QED BY <1>2, <1>3, <1>4, <2>1, AppendProperties
<1>6. Typed'
  <2>1. Count' = Count /\ Piece' = Piece /\ Mark' = Mark
    BY <1>1, SameList
  <2>2. DOMAIN at' = 1..Count /\ \A i \in 1..Count : at'[i] \in 0..playlist[i].frames
    BY <1>1, <1>3
  <2>3. HasAudio(index)' <=> HasAudio(index)
    BY <1>1, <2>1 DEF HasAudio
  <2>4. position' \in Nat /\ heard' \in 0..position' /\ Len(tape') = position'
    BY <1>1, <1>2, <1>3, <1>5 DEF TypeOK
  <2>5. TypeOK'
    BY <1>1, <1>2, <2>1, <2>2, <2>3, <2>4 DEF TypeOK
  <2> QED BY <1>1, <1>2, <1>5, <2>1, <2>5 DEF Typed
<1>7. Fresh'
  BY <1>1, <1>2 DEF Fresh
<1>8. Laid'
  <2>1. \A i : HasAudio(i)' <=> HasAudio(i)
    BY <1>1, SameList
  <2>2. ~undone' => \A c \in cuts' : c <= position'
    <3>1. \A c \in cuts : c \in Nat
      BY <1>2 DEF TypeOK
    <3> QED BY <1>1, <1>2, <1>3, <3>1 DEF Laid
  <2> QED BY <1>1, <1>2, <2>1, <2>2 DEF Laid, Ascending
<1>9. Chained'
  <2>1. \A n : FirstFrom(marks[n].index + 1)' = FirstFrom(marks[n].index + 1)
    BY <1>1 DEF FirstFrom, Count
  <2>2. AsLaid' <=> AsLaid
    BY <1>1 DEF AsLaid
  <2> QED BY <1>1, <1>2, <2>1, <2>2 DEF Chained
<1>10. AsLaid' <=> AsLaid
  BY <1>1 DEF AsLaid
<1>11. ASSUME AsLaid, NEW m \in 1..Len(marks), StandsAt(m)
       PROVE  /\ StandsAt(m)' /\ Covering(marks, position) = m
  <2>1. Covering(marks, position) = m
    BY <1>1, <1>2, <1>11, StandsInItsTrack
  <2>2. marks[m].from \in Nat
    BY <1>2, MarksAreTyped
  <2>3. at'[index] = at[index] + 1
    BY <1>1, <1>3
  <2>4. /\ marks[m].index = index /\ marks[m].from <= position
        /\ at[index] = position - marks[m].from
        /\ m < Len(marks) => marks[m + 1].from \notin cuts
    BY <1>11 DEF StandsAt
  <2>5. marks[m].from <= position + 1 /\ at'[index] = (position + 1) - marks[m].from
    BY <1>3, <2>2, <2>3, <2>4
  <2>6. /\ marks'[m].index = index' /\ marks'[m].from <= position'
        /\ at'[index'] = position' - marks'[m].from
    <3>1. index' = index /\ marks' = marks /\ position' = position + 1
      BY <1>1
    <3>2. marks'[m] = marks[m] /\ at'[index'] = at'[index]
      BY <3>1
    <3>3. at'[index'] = position' - marks'[m].from
      BY <2>5, <3>1, <3>2
    <3>4. marks'[m].index = index'
      BY <2>4, <3>1, <3>2, Zenon
    <3>5. marks'[m].from <= position'
      BY <2>5, <3>1, <3>2, Zenon
    <3> QED BY <3>3, <3>4, <3>5
  <2>7. m < Len(marks') => marks'[m + 1].from \notin cuts'
    BY <1>1, <2>4
  <2>8. StandsAt(m)'
    BY <2>6, <2>7 DEF StandsAt
  <2> QED BY <2>1, <2>8
<1>12. AsLaid => \E m \in 1..Len(marks) : StandsAt(m)
  BY <1>1, <1>2 DEF Current
<1>13. Current'
  <2> SUFFICES ASSUME AsLaid PROVE \E m \in 1..Len(marks') : StandsAt(m)'
    BY <1>10 DEF Current
  <2>1. PICK m \in 1..Len(marks) : StandsAt(m)
    BY <1>12
  <2>2. StandsAt(m)'
    BY <1>11, <2>1
  <2> QED BY <1>1, <2>2
<1>14. Told'
  <2> SUFFICES ASSUME AsLaid, NEW f \in HandedOut'
               PROVE  tape'[f + 1] = [item  |-> marks[Covering(marks, f)].index,
                                      frame |-> f - marks[Covering(marks, f)].from]
    BY <1>1, <1>10 DEF Told, Handed, MarkFor, Covering
  <2>1. f \in 0..position /\ tape'[f + 1] # Nothing
    BY <1>1, <1>3 DEF HandedOut, Handed
  <2>2. CASE f = position
    <3>1. PICK m \in 1..Len(marks) : StandsAt(m)
      BY <1>12
    <3>2. Covering(marks, position) = m
      BY <1>11, <3>1
    <3>3. marks[m].index = index /\ at[index] = position - marks[m].from
      BY <3>1 DEF StandsAt
    <3> QED BY <1>5, <2>2, <3>2, <3>3
  <2>3. CASE f # position
    <3>1. f \in 0..(position - 1) /\ f + 1 \in 1..position
      BY <1>3, <2>1, <2>3
    <3>2. tape'[f + 1] = tape[f + 1]
      BY <1>5, <3>1
    <3>3. f \in HandedOut
      BY <2>1, <3>1, <3>2 DEF HandedOut, Handed
    <3> QED BY <1>2, <3>2, <3>3 DEF Told, Handed, MarkFor, Covering
  <2> QED BY <2>2, <2>3
<1>15. StopSaysWhy' /\ Pressed'
  BY <1>1 DEF QueueInv, StopSaysWhy, Pressed
<1> QED BY <1>6, <1>7, <1>8, <1>9, <1>13, <1>14, <1>15 DEF QueueInv

(* The end of a track, or a skip: advance() joins what follows or is done.  *)
LEMMA TrackIsLeft ==
    ASSUME QueueInv, ReadSkips \/ ReadCrosses
    PROVE  QueueInv'
<1>1. /\ running /\ ~done /\ Advance
      /\ skip' \in BOOLEAN
      /\ UNCHANGED <<playlist, phase, running, at, position, nextWanted, request,
                     shell, goal, calls, pressed, heard, tape, undone, lost>>
  <2>1. CASE ReadSkips
    BY <2>1 DEF ReadSkips, call
  <2>2. CASE ReadCrosses
    <3>1. skip \in BOOLEAN
      BY DEF QueueInv, Typed, TypeOK
    <3> QED BY <2>2, <3>1 DEF ReadCrosses, call
  <2> QED BY <2>1, <2>2
<1>2. /\ Typed /\ phase = "open" /\ Laid /\ Chained /\ Current /\ Told
      /\ TypeOK /\ playlist \in Seq(Entry) /\ tape \in Seq(Piece)
      /\ marks \in Seq(Mark) /\ marks # <<>> /\ marks[1].from = 0 /\ Ascending(marks)
      /\ index \in 1..Count /\ position \in Nat /\ Len(tape) = position
      /\ cuts \subseteq Nat
      /\ at[index] \in 0..playlist[index].frames
      /\ (~undone => \A c \in cuts : c <= position)
  BY <1>1 DEF QueueInv, Fresh, Typed, TypeOK, Laid, Mark
<1>3. /\ Count \in Nat /\ Len(marks) \in Nat
      /\ \A n \in 1..Len(marks) : marks[n].from \in Nat /\ marks[n].index \in 1..Count
      /\ playlist[index].frames \in Nat /\ playlist[index].frames > 0
  BY <1>2, EntriesAreTyped, MarksAreTyped
<1> DEFINE j == FirstFrom(index + 1)
<1>4. j \in (index + 1)..(Count + 1)
  <2>1. index + 1 \in 1..(Count + 1)
    BY <1>2, <1>3
  <2> QED BY <1>2, <2>1, TheWalkStops
<1>5. /\ cuts' \subseteq Nat
      /\ \A c \in cuts : c < position => c \in cuts'
      /\ AsLaid => \A c \in cuts : c \in cuts'
      /\ \A c \in cuts' : c <= position
      /\ position \notin cuts' => at[index] = playlist[index].frames
  <2>1. CASE ReadSkips
    <3>1. cuts' = {c \in cuts : c < position} \cup {position}
      BY <2>1 DEF ReadSkips
    <3>2. ASSUME AsLaid, NEW c \in cuts PROVE c \in cuts'
      <4>1. c \in Nat /\ c <= position
        BY <1>2, <3>2 DEF AsLaid
      <4>2. c < position \/ c = position
        BY <1>2, <4>1
      <4> QED BY <3>1, <4>2
    <3>3. cuts' \subseteq Nat /\ \A c \in cuts' : c <= position
      <4>1. ASSUME NEW c \in cuts' PROVE c \in Nat /\ c <= position
        <5>1. CASE c = position
          BY <1>2, <5>1
        <5>2. CASE c # position
          <6>1. c \in cuts /\ c < position
            BY <3>1, <5>2
          <6>2. c \in Nat
            BY <1>2, <6>1
          <6> QED BY <1>2, <6>1, <6>2
        <5> QED BY <5>1, <5>2
      <4> QED BY <4>1
    <3>4. \A c \in cuts : c < position => c \in cuts'
      BY <3>1
    <3>5. position \in cuts'
      BY <3>1
    <3> QED BY <3>2, <3>3, <3>4, <3>5
  <2>2. CASE ReadCrosses
    <3>1. cuts' = {c \in cuts : c <= position} /\ at[index] = playlist[index].frames
      BY <2>2 DEF ReadCrosses
    <3>2. AsLaid => \A c \in cuts : c \in cuts'
      BY <1>2, <3>1 DEF AsLaid
    <3>3. cuts' \subseteq Nat /\ \A c \in cuts' : c <= position
      BY <1>2, <3>1
    <3>4. ASSUME NEW c \in cuts, c < position PROVE c \in cuts'
      <4>1. c \in Nat
        BY <1>2
      <4>2. c <= position
        BY <1>2, <3>4, <4>1
      <4> QED BY <3>1, <4>2
    <3> QED BY <3>1, <3>2, <3>3, <3>4
  <2> QED BY <2>1, <2>2
<1>6. Fresh' /\ Pressed'
  BY <1>1, <1>2 DEF QueueInv, Fresh, Pressed
<1>7. \A f \in HandedOut' : f < position /\ tape'[f + 1] = tape[f + 1]
  BY <1>1, <1>2 DEF HandedOut
<1>8. Count' = Count /\ Piece' = Piece /\ Mark' = Mark
      /\ \A i : HasAudio(i)' <=> HasAudio(i)
  BY <1>1, SameList
<1>9. PICK m \in 1..Len(marks) :
        /\ marks[m].from <= position
        /\ m < Len(marks) => marks[m + 1].from >= position
        /\ AsLaid => StandsAt(m)
  <2>1. CASE AsLaid
    <3>1. PICK m \in 1..Len(marks) : StandsAt(m)
      BY <1>1, <1>2, <2>1 DEF Current
    <3>2. m < Len(marks) => marks[m + 1].from >= position
      BY <1>2, <2>1, <3>1, StandsInItsTrack
    <3> QED BY <3>1, <3>2 DEF StandsAt
  <2>2. CASE ~AsLaid
    <3> DEFINE m == Covering(marks, position)
    <3>1. /\ m \in 1..Len(marks) /\ (m = 1 \/ marks[m].from <= position)
          /\ \A n \in 1..Len(marks) : n > m => marks[n].from > position
      BY <1>2, CoveringCovers
    <3> HIDE DEF m
    <3>2. marks[m].from <= position
      BY <1>2, <3>1
    <3>3. ASSUME m < Len(marks) PROVE marks[m + 1].from >= position
      <4>1. m + 1 \in 1..Len(marks) /\ m + 1 > m
        BY <1>3, <3>1, <3>3
      <4> QED BY <1>2, <1>3, <3>1, <4>1
    <3> QED BY <2>2, <3>1, <3>2, <3>3
  <2> QED BY <2>1, <2>2
<1>10. AsLaid => marks[m].index = index /\ at[index] = position - marks[m].from
  BY <1>9 DEF StandsAt
<1> HIDE DEF j
<1>11. CASE Joins(j)
  <2>1. /\ index' = j /\ marks' = Marked(position, j)
        /\ reread' = (reread \/ at[j] # 0)
        /\ done' = done /\ stopped' = stopped
    BY <1>1, <1>11 DEF Advance, j
  <2>2. j \in 1..Count /\ HasAudio(j)
    BY <1>3, <1>4, <1>11, <1>2 DEF Joins, HasAudio
  <2>3. AsLaid' => AsLaid /\ at'[j] = 0
    BY <1>1, <2>1 DEF AsLaid
  <2>4. AsLaid => marks[m].index < j
    BY <1>2, <1>3, <1>4, <1>10
  <2>5. ASSUME position \notin cuts', AsLaid'
        PROVE  /\ marks[m].from < position
               /\ j = FirstFrom(marks[m].index + 1)
               /\ position = marks[m].from + playlist[marks[m].index].frames
    <3>1. /\ at[index] = playlist[index].frames
          /\ marks[m].index = index /\ at[index] = position - marks[m].from
      BY <1>5, <1>10, <2>3, <2>5
    <3> QED BY <1>2, <1>3, <3>1 DEF j
  <2>6. ~undone' => \A c \in cuts' : c <= position
    BY <1>5
  <2>7. /\ marks' \in Seq(Mark) /\ marks' # <<>>
        /\ Laid' /\ Chained' /\ Current' /\ Told' /\ StopSaysWhy'
    BY <1>1, <1>2, <1>5, <1>7, <1>9, <1>11, <2>1, <2>2, <2>3, <2>4, <2>5, <2>6,
       TrackIsJoined, ZenonT(60)
  <2>8. reread' \in BOOLEAN
    BY <2>1, Zenon
  <2>9. TypeOK'
    BY <1>1, <1>2, <1>5, <1>8, <2>1, <2>2, <2>7, <2>8 DEF TypeOK, Mark
  <2>10. Typed'
    BY <1>1, <1>2, <1>8, <2>9 DEF Typed
  <2> QED BY <1>6, <2>7, <2>10 DEF QueueInv
<1>12. CASE ~Joins(j)
  <2>1. /\ done' = TRUE /\ stopped' = Why(j) /\ UNCHANGED <<index, marks, reread>>
    BY <1>1, <1>12 DEF Advance, j
  <2>2. AsLaid' => AsLaid
    BY <1>1, <2>1 DEF AsLaid
  <2>3. AsLaid => j = FirstFrom(IndexAt(position) + 1)
    <3> SUFFICES ASSUME AsLaid PROVE IndexAt(position) = index
      BY DEF j
    <3>1. StandsAt(m) /\ marks[m].index = index
      BY <1>9, <1>10
    <3>2. m < Len(marks) => marks[m + 1].from > position
      <4> SUFFICES ASSUME m < Len(marks) PROVE marks[m + 1].from # position
        <5>1. ASSUME m < Len(marks) PROVE marks[m + 1].from \in Nat
          <6>1. m + 1 \in 1..Len(marks)
            BY <1>3, <5>1
          <6> QED BY <1>3, <6>1
        <5> QED BY <1>2, <1>9, <5>1
      <4>1. marks[m + 1].index = j
        BY <1>2, <3>1, StandsInItsTrack DEF j
      <4>2. m + 1 \in 1..Len(marks)
        BY <1>3
      <4>3. HasAudio(j) /\ playlist[j].format = playlist[index].format
        BY <1>2, <4>1, <4>2 DEF Laid
      <4> QED BY <1>12, <4>3 DEF Joins
    <3>3. Covering(marks, position) = m
      BY <1>2, <1>9, <3>2, OneCovers
    <3> QED BY <3>1, <3>3 DEF IndexAt, MarkFor, Covering
  <2>4. ~undone' => \A c \in cuts' : c <= position
    BY <1>5
  <2>5. Laid' /\ Chained' /\ Current' /\ Told' /\ StopSaysWhy'
    BY <1>1, <1>2, <1>5, <1>7, <1>12, <2>1, <2>2, <2>3, <2>4, QueueIsDone, ZenonT(60)
  <2>6. Why(j) \in {"end", "format_change", "silent"}
    <3>1. index + 1 \in 1..(Count + 1)
      BY <1>2, <1>3
    <3> QED BY <1>2, <3>1, WhyIsTrue DEF j
  <2>7. TypeOK'
    BY <1>1, <1>2, <1>5, <1>8, <2>1, <2>6 DEF TypeOK, Mark
  <2>8. Typed'
    BY <1>1, <1>2, <1>8, <2>7 DEF Typed
  <2> QED BY <1>6, <2>5, <2>8 DEF QueueInv
<1> QED BY <1>11, <1>12

(* A seek: into a track already recorded, or a "next", or refused.          *)
LEMMA SeekIsPerformed ==
    ASSUME QueueInv, Seek
    PROVE  QueueInv'
<1> DEFINE m == Covering(marks, request)
           mark == marks[m]
           j == FirstFrom(mark.index + 1)
           place == request - mark.from
<1>1. /\ running /\ request # None
      /\ IF nextWanted THEN Jump(mark.index + 1, request) ELSE Move(mark, request)
      /\ nextWanted' = FALSE /\ request' = None
      /\ undone' = (undone \/ \E c \in cuts : c > request)
      /\ UNCHANGED <<playlist, phase, running, shell, goal, calls, pressed>>
  BY DEF Seek, MarkFor, Covering, call
<1>2. /\ Typed /\ phase = "open" /\ Laid /\ Chained /\ Told
      /\ TypeOK /\ playlist \in Seq(Entry) /\ tape \in Seq(Piece)
      /\ marks \in Seq(Mark) /\ marks # <<>> /\ marks[1].from = 0 /\ Ascending(marks)
      /\ index \in 1..Count /\ position \in Nat /\ Len(tape) = position
      /\ cuts \subseteq Nat
      /\ DOMAIN at = 1..Count
      /\ \A i \in 1..Count : at[i] \in 0..playlist[i].frames
      /\ request \in Nat
  BY <1>1 DEF QueueInv, Fresh, Typed, TypeOK, Laid, Mark
<1>3. /\ Count \in Nat /\ Len(marks) \in Nat
      /\ \A n \in 1..Len(marks) :
             marks[n].from \in Nat /\ marks[n].index \in 1..Count /\ marks[n].base = 0
      /\ \A i \in 1..Count : playlist[i].frames \in Nat
  BY <1>2, EntriesAreTyped, MarksAreTyped
<1>4. /\ m \in 1..Len(marks) /\ (m = 1 \/ mark.from <= request)
      /\ \A n \in 1..Len(marks) : n > m => marks[n].from > request
  BY <1>2, CoveringCovers
<1> HIDE DEF m
<1>5. /\ mark.from <= request /\ mark.from \in Nat /\ mark.index \in 1..Count
      /\ mark.base = 0 /\ place \in Nat
  <2>1. mark.from \in Nat /\ mark.index \in 1..Count /\ mark.base = 0
    BY <1>3, <1>4
  <2>2. mark.from <= request
    BY <1>2, <1>4, <2>1
  <2> QED BY <1>2, <2>1, <2>2
<1>6. m < Len(marks) => marks[m + 1].from > request
  <2> SUFFICES ASSUME m < Len(marks) PROVE marks[m + 1].from > request
    OBVIOUS
  <2>1. m + 1 \in 1..Len(marks) /\ m + 1 > m
    BY <1>3, <1>4
  <2> QED BY <1>4, <2>1
<1> HIDE DEF mark
<1>7. j \in (mark.index + 1)..(Count + 1)
  <2>1. mark.index + 1 \in 1..(Count + 1)
    BY <1>3, <1>5
  <2> QED BY <1>2, <2>1, TheWalkStops
<1>8. /\ undone' \in BOOLEAN
      /\ ~undone' => ~undone /\ \A c \in cuts : ~(c > request)
  <2>1. undone' \in BOOLEAN
    BY <1>1, Zenon
  <2>2. ~undone' => ~undone /\ \A c \in cuts : ~(c > request)
    BY <1>1, Zenon
  <2> QED BY <2>1, <2>2
<1>9. ~undone' => \A c \in cuts : c <= request
  BY <1>2, <1>8
<1>10. /\ Count' = Count /\ Piece' = Piece /\ Mark' = Mark
       /\ \A i : HasAudio(i)' <=> HasAudio(i)
  BY <1>1, SameList
<1>11. Fresh' /\ Pressed'
  BY <1>1, <1>2 DEF Fresh, Pressed
<1>12. /\ Rewritten(request) \in Seq(Piece) /\ Len(Rewritten(request)) = request
       /\ \A f \in 0..(request - 1) :
              Rewritten(request)[f + 1] # Nothing =>
                  f < position /\ Rewritten(request)[f + 1] = tape[f + 1]
  BY <1>2, RunIsRewritten
<1>13. ASSUME position' = request, tape' = Rewritten(request)
       PROVE  \A f \in HandedOut' : f < position /\ tape'[f + 1] = tape[f + 1]
  BY <1>12, <1>13 DEF HandedOut, Handed
<1> HIDE DEF j
<1>14. CASE /\ nextWanted /\ Joins(j) /\ Lands(request, 0, j)
             /\ marks' = Marked(request, j)
             /\ cuts' = {c \in cuts : c < request} \cup {request}
  <2>1. /\ position' = request /\ heard' = request /\ tape' = Rewritten(request)
        /\ at' = [at EXCEPT ![j] = 0] /\ index' = j
        /\ done' = FALSE /\ skip' = FALSE /\ stopped' = "end"
        /\ UNCHANGED <<reread, lost>>
        /\ marks' = Marked(request, j)
        /\ cuts' = {c \in cuts : c < request} \cup {request}
    BY <1>14 DEF Lands
  <2>2. j \in 1..Count /\ HasAudio(j)
    BY <1>3, <1>5, <1>7, <1>14 DEF Joins, HasAudio
  <2>3. at'[j] = 0 /\ DOMAIN at' = 1..Count
        /\ \A i \in 1..Count : at'[i] \in 0..playlist[i].frames
    BY <1>2, <1>3, <2>1, <2>2
  <2>4. AsLaid' => AsLaid /\ at'[j] = 0
    BY <1>8, <2>1, <2>3 DEF AsLaid
  <2>5. mark.index < j
    BY <1>3, <1>5, <1>7
  <2>6. request \in cuts' /\ \A c \in cuts : c < request => c \in cuts'
    BY <2>1
  <2>7. /\ cuts' \subseteq Nat /\ \A c \in cuts' : c <= request
    <3> SUFFICES ASSUME NEW c \in cuts' PROVE c \in Nat /\ c <= request
      OBVIOUS
    <3>1. CASE c = request
      BY <1>2, <3>1
    <3>2. CASE c # request
      <4>1. c \in cuts /\ c < request
        BY <2>1, <3>2
      <4>2. c \in Nat
        BY <1>2, <4>1
      <4> QED BY <1>2, <4>1, <4>2
    <3> QED BY <3>1, <3>2
  <2>8. \A f \in HandedOut' : f < position /\ tape'[f + 1] = tape[f + 1]
    BY <1>13, <2>1
  <2>9. /\ mark.from <= request /\ (m < Len(marks) => marks[m + 1].from >= request)
    <3> SUFFICES ASSUME m < Len(marks) PROVE marks[m + 1].from >= request
      BY <1>5
    <3>1. m + 1 \in 1..Len(marks)
      BY <1>3, <1>4
    <3>2. marks[m + 1].from \in Nat
      BY <1>3, <3>1
    <3> QED BY <1>2, <1>6, <3>2
  <2>10. /\ marks' \in Seq(Mark) /\ marks' # <<>>
         /\ Laid' /\ Chained' /\ Current' /\ Told' /\ StopSaysWhy'
    <3>1. ~done'
      BY <2>1
    <3> QED BY <1>1, <1>2, <1>4, <1>14, <2>1, <2>2, <2>4, <2>5, <2>6, <2>7, <2>8, <2>9,
               <3>1, TrackIsJoined, ZenonT(60) DEF mark
  <2>11. heard' \in 0..position' /\ Len(tape') = position' /\ tape' \in Seq(Piece)
    BY <1>2, <1>12, <2>1
  <2>12. TypeOK'
    BY <1>1, <1>2, <1>8, <1>10, <2>1, <2>2, <2>3, <2>7, <2>10, <2>11 DEF TypeOK, Mark
  <2>13. Typed'
    BY <1>1, <1>2, <1>10, <2>11, <2>12 DEF Typed
  <2> QED BY <1>11, <2>10, <2>13 DEF QueueInv
<1>15. CASE nextWanted /\ ~Joins(j)
  <2>1. /\ done' = TRUE /\ stopped' = Why(j)
        /\ position' = request /\ heard' = request /\ tape' = Rewritten(request)
        /\ UNCHANGED <<index, at, marks, skip, cuts, reread, lost>>
    BY <1>1, <1>15 DEF Jump, j
  <2>2. AsLaid' => AsLaid
    BY <1>8, <2>1 DEF AsLaid
  <2>3. j = FirstFrom(IndexAt(request) + 1)
    BY DEF j, mark, m, IndexAt, MarkFor, Covering
  <2>4. \A f \in HandedOut' : f < position /\ tape'[f + 1] = tape[f + 1]
    BY <1>13, <2>1
  <2>5. ~undone' => \A c \in cuts' : c <= request
    BY <1>9, <2>1
  <2>6. Laid' /\ Chained' /\ Current' /\ Told' /\ StopSaysWhy'
    BY <1>1, <1>2, <1>15, <2>1, <2>2, <2>3, <2>4, <2>5, QueueIsDone, ZenonT(60)
  <2>7. Why(j) \in {"end", "format_change", "silent"}
    <3>1. mark.index + 1 \in 1..(Count + 1)
      BY <1>3, <1>5
    <3> QED BY <1>2, <3>1, WhyIsTrue DEF j
  <2>8. heard' \in 0..position' /\ Len(tape') = position' /\ tape' \in Seq(Piece)
    BY <1>2, <1>12, <2>1
  <2>9. TypeOK'
    BY <1>1, <1>2, <1>8, <1>10, <2>1, <2>7, <2>8 DEF TypeOK, Mark
  <2>10. Typed'
    BY <1>1, <1>2, <1>10, <2>8, <2>9 DEF Typed
  <2> QED BY <1>11, <2>6, <2>10 DEF QueueInv
<1>16. mark.base + (request - mark.from) = place
  BY <1>5
<1> HIDE DEF place
<1>17. HasAudio(mark.index) /\ playlist[mark.index].format = playlist[index].format
  BY <1>2, <1>4 DEF Laid, mark
<1>18. CASE /\ ~nextWanted /\ MayMove(mark.index, place)
             /\ Lands(request, place, mark.index) /\ UNCHANGED <<marks, cuts>>
  <2>1. /\ position' = request /\ heard' = request /\ tape' = Rewritten(request)
        /\ at' = [at EXCEPT ![mark.index] = place] /\ index' = mark.index
        /\ done' = FALSE /\ skip' = FALSE /\ stopped' = "end"
        /\ UNCHANGED <<reread, lost, marks, cuts>>
    BY <1>18 DEF Lands
  <2>2. at'[mark.index] = place /\ DOMAIN at' = 1..Count
        /\ \A i \in 1..Count : at'[i] \in 0..playlist[i].frames
    <3>1. /\ DOMAIN at = 1..Count /\ mark.index \in 1..Count
          /\ \A i \in 1..Count : at[i] \in 0..playlist[i].frames
      BY <1>2, <1>3, <1>5
    <3>2. place \in 0..playlist[mark.index].frames
      BY <1>2, <1>3, <1>5, <1>18 DEF MayMove
    <3> QED BY <2>1, <3>1, <3>2
  <2>3. AsLaid' => AsLaid
    BY <1>8, <2>1 DEF AsLaid
  <2>4. heard' \in 0..position' /\ Len(tape') = position' /\ tape' \in Seq(Piece)
    BY <1>2, <1>12, <2>1
  <2>5. TypeOK'
    BY <1>1, <1>2, <1>5, <1>8, <1>10, <1>17, <2>1, <2>2, <2>4 DEF TypeOK, Mark
  <2>6. Typed'
    BY <1>1, <1>2, <1>10, <2>4, <2>5 DEF Typed
  <2>7. Laid'
    <3>1. ~undone' => \A c \in cuts' : c <= position'
      BY <1>9, <2>1
    <3>2. \A n \in 1..Len(marks') :
            /\ HasAudio(marks[n].index)'
            /\ playlist'[marks'[n].index].format = playlist'[index'].format
      <4> SUFFICES ASSUME NEW n \in 1..Len(marks)
                   PROVE  /\ HasAudio(marks[n].index)'
                          /\ playlist[marks[n].index].format = playlist[mark.index].format
        BY <1>1, <2>1
      <4>1. /\ HasAudio(marks[n].index)
            /\ playlist[marks[n].index].format = playlist[index].format
        BY <1>2 DEF Laid
      <4> QED BY <1>1, <1>10, <1>17, <2>1, <4>1 DEF HasAudio
    <3> QED BY <1>2, <2>1, <3>1, <3>2 DEF Laid, Ascending
  <2>8. Chained'
    <3>1. \A n : FirstFrom(marks[n].index + 1)' = FirstFrom(marks[n].index + 1)
      BY <1>1, <2>1 DEF FirstFrom, Count
    <3> QED BY <1>1, <1>2, <2>1, <2>3, <3>1 DEF Chained
  <2>9. Current'
    <3>1. PICK n \in 1..Len(marks) : n = m
      BY <1>4
    <3> SUFFICES ASSUME AsLaid' PROVE StandsAt(n)'
      BY <2>1 DEF Current
    <3>2. n < Len(marks') => marks'[n + 1].from \notin cuts'
      <4> SUFFICES ASSUME n < Len(marks), marks[n + 1].from \in cuts PROVE FALSE
        BY <2>1
      <4> QED BY <1>6, <1>8, <3>1 DEF AsLaid
    <3>3. marks'[n].index = index' /\ marks'[n].from <= position'
      BY <1>5, <2>1, <3>1 DEF mark
    <3>4. at'[index'] = position' - marks'[n].from
      BY <2>1, <2>2, <3>1 DEF mark, place
    <3> QED BY <3>2, <3>3, <3>4 DEF StandsAt
  <2>10. Told'
    <3>1. \A f \in HandedOut' : f < position /\ tape'[f + 1] = tape[f + 1]
      BY <1>13, <2>1
    <3> QED BY <1>1, <1>2, <2>1, <2>3, <3>1, RunIsKept
  <2>11. StopSaysWhy'
    BY <2>1 DEF StopSaysWhy
  <2> QED BY <1>11, <2>6, <2>7, <2>8, <2>9, <2>10, <2>11 DEF QueueInv
<1>19. ASSUME NEW i \in 1..Count, NEW to, Refuses(i, to) PROVE QueueInv'
  <2>1. /\ \E p \in 0..playlist[i].frames : at' = [at EXCEPT ![i] = p]
        /\ lost' = TRUE
        /\ UNCHANGED <<index, position, marks, skip, done, stopped, heard, tape, cuts,
                       reread>>
    BY <1>19 DEF Refuses
  <2>2. DOMAIN at' = 1..Count /\ \A n \in 1..Count : at'[n] \in 0..playlist[n].frames
    BY <1>2, <1>3, <2>1
  <2>3. ~AsLaid'
    BY <2>1 DEF AsLaid
  <2>4. TypeOK'
    BY <1>1, <1>2, <1>8, <1>10, <2>1, <2>2 DEF TypeOK, Mark
  <2>5. Typed'
    BY <1>1, <1>2, <1>10, <2>1, <2>4 DEF Typed
  <2>6. Laid'
    BY <1>1, <1>2, <1>8, <1>10, <2>1 DEF Laid, Ascending
  <2> QED BY <1>11, <2>3, <2>5, <2>6 DEF QueueInv, Chained, Current, Told, StopSaysWhy
<1>20. CASE nextWanted
  <2>1. Jump(mark.index + 1, request) /\ j = FirstFrom(mark.index + 1)
    BY <1>1, <1>20 DEF j
  <2>2. CASE ~Joins(j)
    BY <1>15, <1>20, <2>2
  <2>3. CASE Joins(j) /\ Refuses(j, 0)
    <3>1. j \in 1..Count
      BY <1>3, <1>5, <1>7, <2>3 DEF Joins, HasAudio
    <3> QED BY <1>19, <2>3, <3>1
  <2>4. CASE /\ Joins(j) /\ Lands(request, 0, j)
             /\ marks' = Marked(request, j)
             /\ cuts' = {c \in cuts : c < request} \cup {request}
    BY <1>14, <1>20, <2>4
  <2> QED BY <2>1, <2>2, <2>3, <2>4 DEF Jump
<1>21. CASE ~nextWanted
  <2>1. Move(mark, request)
    BY <1>1, <1>21
  <2>2. CASE Refuses(mark.index, place)
    BY <1>5, <1>19, <2>2
  <2>3. CASE /\ MayMove(mark.index, place) /\ Lands(request, place, mark.index)
             /\ UNCHANGED <<marks, cuts>>
    BY <1>18, <1>21, <2>3
  <2> QED BY <1>16, <2>1, <2>2, <2>3 DEF Move
<1> QED BY <1>20, <1>21

(* open(): the first track that opens is the run's first mark.              *)
LEMMA QueueIsOpened ==
    ASSUME QueueInv, Open
    PROVE  QueueInv'
<1> DEFINE j == FirstFrom(index)
           first == [from |-> 0, index |-> j, base |-> 0]
<1>1. /\ phase = "new"
      /\ UNCHANGED <<playlist, at, position, skip, nextWanted, done, request, shell,
                     goal, calls, pressed, heard, tape, cuts, undone, reread, lost>>
      /\ IF HasAudio(j)
           THEN /\ phase' = "open" /\ running' = TRUE
                /\ index' = j /\ marks' = <<first>> /\ UNCHANGED stopped
           ELSE /\ phase' = "refused" /\ index' = IndexRefused(j) /\ stopped' = Why(j)
                /\ UNCHANGED <<running, marks>>
  BY DEF Open, call, history
<1>2. /\ TypeOK /\ playlist \in Seq(Entry) /\ tape \in Seq(Piece)
      /\ marks = <<>> /\ cuts = {} /\ tape = <<>> /\ position = 0
      /\ ~done /\ ~running /\ ~nextWanted /\ \A i \in 1..Count : at[i] = 0
      /\ index \in 1..Count
  BY <1>1 DEF QueueInv, Typed, TypeOK, Fresh
<1>3. Count \in Nat
  BY <1>2, EntriesAreTyped
<1>4. j \in index..(Count + 1)
  <2>1. index \in 1..(Count + 1)
    BY <1>2, <1>3
  <2> QED BY <1>2, <2>1, TheWalkStops
<1>5. Why(j) \in {"end", "format_change", "silent"}
  <2>1. index \in 1..(Count + 1)
    BY <1>2, <1>3
  <2> QED BY <1>2, <2>1, WhyIsTrue
<1>6. /\ Count' = Count /\ Piece' = Piece /\ Mark' = Mark
      /\ \A i : HasAudio(i)' <=> HasAudio(i)
  BY <1>1, SameList
<1>7. HandedOut' = {}
  BY <1>1, <1>2 DEF HandedOut
<1>8. Told' /\ StopSaysWhy' /\ Pressed'
  BY <1>1, <1>2, <1>7 DEF Told, StopSaysWhy, Pressed
<1>9. ~undone' => \A c \in cuts' : c <= position'
  BY <1>1, <1>2
<1> HIDE DEF j
<1>10. CASE HasAudio(j)
  <2>1. j \in 1..Count
    BY <1>2, <1>3, <1>4, <1>10 DEF HasAudio
  <2>2. /\ phase' = "open" /\ running' = TRUE
        /\ index' = j /\ marks' = <<first>> /\ stopped' = stopped
    BY <1>1, <1>10
  <2>3. first \in Mark
    BY <2>1 DEF Mark
  <2>4. marks' \in Seq(Mark) /\ Len(marks') = 1 /\ marks' # <<>> /\ marks'[1] = first
    <3> HIDE DEF first
    <3> QED BY <2>2, <2>3
  <2>5. TypeOK'
    BY <1>1, <1>2, <1>6, <1>10, <2>1, <2>2, <2>4 DEF TypeOK, Mark
  <2>6. Typed'
    BY <1>1, <1>2, <1>6, <2>5 DEF Typed
  <2>7. Fresh'
    BY <2>2 DEF Fresh
  <2>8. Laid'
    <3>1. Ascending(marks')
      BY <2>4 DEF Ascending
    <3>2. \A n \in 1..Len(marks') : marks'[n] = first
      BY <2>4
    <3> QED BY <1>6, <1>9, <1>10, <2>1, <2>2, <2>4, <3>1, <3>2 DEF Laid, Ascending, HasAudio
  <2>9. Chained'
    BY <2>4 DEF Chained
  <2>10. Current'
    <3>1. /\ marks'[1].index = index' /\ marks'[1].from <= position'
          /\ at'[index'] = position' - marks'[1].from /\ ~(1 < Len(marks'))
      BY <1>1, <1>2, <2>1, <2>2, <2>4
    <3>2. StandsAt(1)'
      BY <3>1 DEF StandsAt
    <3> QED BY <2>4, <3>2 DEF Current
  <2> QED BY <1>8, <2>6, <2>7, <2>8, <2>9, <2>10 DEF QueueInv
<1>11. CASE ~HasAudio(j)
  <2>1. /\ phase' = "refused" /\ index' = IndexRefused(j) /\ stopped' = Why(j)
        /\ UNCHANGED <<running, marks>>
    BY <1>1, <1>11
  <2>2. index' \in 1..Count
    BY <1>2, <1>3, <1>4, <2>1 DEF IndexRefused
  <2>3. TypeOK'
    BY <1>1, <1>2, <1>5, <1>6, <2>1, <2>2 DEF TypeOK
  <2>4. Typed'
    BY <1>1, <1>2, <1>6, <2>3 DEF Typed
  <2>5. Fresh'
    BY <1>1, <1>2, <1>6, <2>1 DEF Fresh
  <2>6. Len(marks') = 0
    BY <1>2, <2>1
  <2>7. Laid' /\ Chained' /\ Current'
    BY <1>9, <2>1, <2>6 DEF Laid, Ascending, Chained, Current
  <2> QED BY <1>8, <2>4, <2>5, <2>7 DEF QueueInv
<1> QED BY <1>10, <1>11

(* The device, the end of the run, and what a shell asks: the queue and its  *)
(* history are left as they are.                                            *)
LEMMA TheRestLeavesTheQueue ==
    ASSUME QueueInv,
           Play \/ RunEnds \/ Shell \/ UNCHANGED vars
    PROVE  QueueInv'
<1>1. /\ TypeOK /\ playlist \in Seq(Entry) /\ tape \in Seq(Piece)
      /\ marks \in Seq(Mark) /\ position \in Nat /\ heard \in 0..position
      /\ calls \in 0..MaxCalls /\ MaxCalls \in Nat
      /\ request \in Nat \cup {None} /\ goal \in Nat \cup {None}
      /\ skip \in BOOLEAN /\ nextWanted \in BOOLEAN /\ running \in BOOLEAN
      /\ shell \in {"idle", "seek", "next", "cancels", "skips"}
      /\ pressed \in Nat \cup {None} /\ Pressed
      /\ (running => phase = "open")
  BY QueueAssumption DEF Fresh, QueueInv, Typed, TypeOK, Mark
<1> DEFINE Kept == UNCHANGED <<playlist, phase, at, index, position, marks, done,
                               stopped, tape, cuts, undone, reread, lost>>
           Fits == /\ running' \in BOOLEAN /\ (running' => running)
                   /\ skip' \in BOOLEAN /\ nextWanted' \in BOOLEAN
                   /\ request' \in Nat \cup {None} /\ goal' \in Nat \cup {None}
                   /\ shell' \in {"idle", "seek", "next", "cancels", "skips"}
                   /\ calls' \in 0..MaxCalls /\ pressed' \in Nat \cup {None}
                   /\ heard' \in 0..position
                   /\ (nextWanted' => nextWanted \/ running) /\ Pressed'
<1>2. ASSUME Kept, Fits PROVE QueueInv'
  <2>1. /\ Count' = Count /\ Piece' = Piece /\ Mark' = Mark
        /\ \A i : HasAudio(i)' <=> HasAudio(i)
    BY <1>2, SameList
  <2>2. TypeOK'
    BY <1>1, <1>2, <2>1 DEF TypeOK
  <2>3. Typed'
    BY <1>1, <1>2, <2>1, <2>2 DEF Typed
  <2>4. Fresh'
    BY <1>1, <1>2, <2>1 DEF QueueInv, Fresh
  <2>5. Laid'
    BY <1>2, <2>1 DEF QueueInv, Laid, Ascending
  <2>6. AsLaid' <=> AsLaid
    BY <1>2 DEF AsLaid
  <2>7. Chained'
    <3>1. \A n : FirstFrom(marks[n].index + 1)' = FirstFrom(marks[n].index + 1)
      BY <1>2 DEF FirstFrom, Count
    <3> QED BY <1>2, <2>6, <3>1 DEF QueueInv, Chained
  <2>8. Current'
    <3>1. \A m : StandsAt(m)' <=> StandsAt(m)
      BY <1>2 DEF StandsAt
    <3> QED BY <1>2, <2>6, <3>1 DEF QueueInv, Current
  <2>9. Told'
    BY <1>2, <2>6 DEF QueueInv, Told, HandedOut, Handed, MarkFor
  <2>10. StopSaysWhy'
    <3>1. FirstFrom(IndexAt(position) + 1)' = FirstFrom(IndexAt(position) + 1)
      BY <1>2 DEF FirstFrom, Count, IndexAt, MarkFor
    <3>2. \A b : /\ (b = Count + 1)' <=> b = Count + 1
                 /\ Joins(b)' <=> Joins(b)
                 /\ playlist'[b] = playlist[b]
      BY <1>2, <2>1 DEF Joins
    <3> QED BY <1>2, <2>1, <2>6, <3>1, <3>2 DEF QueueInv, StopSaysWhy
  <2> QED BY <1>2, <2>3, <2>4, <2>5, <2>7, <2>8, <2>9, <2>10 DEF QueueInv
<1>3. ASSUME running, \A n \in 1..Len(marks) : marks[n].from \in Nat
      PROVE  LET m == MarkFor(heard) IN
             /\ marks[m].from \in Nat
             /\ m # 1 => marks[m - 1].from \in Nat
  <2>1. /\ marks # <<>> /\ Ascending(marks)
    BY <1>3 DEF QueueInv, Fresh, Typed, TypeOK, Laid
  <2>2. MarkFor(heard) \in 1..Len(marks)
    <3>1. heard \in Nat
      BY <1>1
    <3> QED BY <1>1, <2>1, <3>1, CoveringCovers DEF MarkFor, Covering
  <2>3. Len(marks) \in Nat
    BY <1>1, MarksAreTyped
  <2> QED BY <1>3, <2>2, <2>3
<1>4. CASE Play
  <2>1. Kept /\ heard' \in 0..position
        /\ UNCHANGED <<running, skip, nextWanted, request, goal, shell, calls, pressed>>
    BY <1>1, <1>4 DEF Play, queue, call, history
  <2>2. Pressed'
    BY <1>1, <2>1 DEF Pressed
  <2> QED BY <1>1, <1>2, <2>1, <2>2
<1>5. CASE RunEnds
  <2>1. Kept /\ ~running'
        /\ UNCHANGED <<skip, nextWanted, request, goal, shell, calls, heard, pressed>>
    BY <1>5 DEF RunEnds, queue, call, history
  <2>2. Pressed'
    BY <2>1 DEF Pressed
  <2>3. running' \in BOOLEAN
    BY <1>5 DEF RunEnds
  <2> QED BY <1>1, <1>2, <2>1, <2>2, <2>3
<1>6. ASSUME NEW what \in {"seek", "next"}, Call(what)
      PROVE  /\ running /\ shell = "idle" /\ shell' = what
             /\ calls' \in 0..MaxCalls /\ ~nextWanted
  BY <1>1, <1>6 DEF Call, Pressed
<1>7. CASE \E frame \in Targets : AskSeek(frame)
  <2>1. PICK frame \in Targets : AskSeek(frame)
    BY <1>7
  <2>2. frame \in Nat
    BY QueueAssumption
  <2>3. /\ Kept /\ request' = frame /\ Call("seek")
        /\ UNCHANGED <<running, skip, nextWanted, goal, heard, pressed>>
    BY <2>1 DEF AskSeek, queue, history
  <2>4. running /\ shell' = "seek" /\ calls' \in 0..MaxCalls /\ ~nextWanted
    BY <1>6, <2>3
  <2>5. Pressed'
    BY <2>3, <2>4 DEF Pressed
  <2> QED BY <1>1, <1>2, <2>2, <2>3, <2>4, <2>5
<1>8. CASE AskNext
  <2>1. heard \in Nat
    BY <1>1
  <2>2. /\ Kept /\ nextWanted' = TRUE /\ goal' = heard /\ pressed' = heard
        /\ UNCHANGED <<running, skip, request, heard>> /\ Call("next")
    BY <1>8 DEF AskNext, history
  <2>3. running /\ shell' = "next" /\ calls' \in 0..MaxCalls
    BY <1>6, <2>2
  <2>4. Pressed'
    BY <2>1, <2>2, <2>3 DEF Pressed, None
  <2> QED BY <1>1, <1>2, <2>1, <2>2, <2>3, <2>4
<1>9. CASE AskPrevious
  <2>1. /\ Kept /\ Call("seek")
        /\ UNCHANGED <<running, skip, nextWanted, request, heard, pressed>>
    BY <1>9 DEF AskPrevious, queue, history
  <2>2. running /\ shell' = "seek" /\ calls' \in 0..MaxCalls /\ ~nextWanted
    BY <1>6, <2>1
  <2>3. goal' \in Nat
    BY <1>1, <1>3, <1>9, <2>2, MarksAreTyped DEF AskPrevious
  <2>4. Pressed'
    BY <2>1, <2>2 DEF Pressed
  <2> QED BY <1>1, <1>2, <2>1, <2>2, <2>3, <2>4
<1>10. CASE Asks
  <2>1. /\ Kept /\ goal # None /\ request' = goal /\ goal' = None
        /\ UNCHANGED <<running, skip, nextWanted, shell, calls, pressed, heard>>
    BY <1>10 DEF Asks, queue, history
  <2>2. Pressed'
    BY <1>1, <2>1 DEF Pressed
  <2> QED BY <1>1, <1>2, <2>1, <2>2
<1>11. CASE Answered
  <2>1. /\ Kept /\ goal = None /\ (request = None \/ ~running)
        /\ shell' = "idle" /\ pressed' = None
        /\ UNCHANGED <<running, skip, nextWanted, request, goal, calls, heard>>
    BY <1>11 DEF Answered, queue, history
  <2>2. Pressed'
    BY <1>1, <2>1 DEF Pressed, None
  <2> QED BY <1>1, <1>2, <2>1, <2>2
<1>12. CASE Refused
  <2>1. /\ Kept /\ shell \in {"seek", "next"}
        /\ \/ shell = "next" /\ shell' = "cancels" /\ goal' = goal
           \/ shell = "seek" /\ shell' = "idle" /\ goal' = None
        /\ UNCHANGED <<running, skip, nextWanted, request, calls, pressed, heard>>
    BY <1>12 DEF Refused, queue, history
  <2>2. Pressed'
    BY <1>1, <2>1 DEF Pressed
  <2>3. goal' \in Nat \cup {None} /\ shell' \in {"idle", "cancels"}
    BY <1>1, <2>1
  <2> QED BY <1>1, <1>2, <2>1, <2>2, <2>3
<1>13. CASE CancelsNext
  <2>1. /\ Kept /\ nextWanted' = FALSE /\ goal' = None /\ shell' = "skips"
        /\ UNCHANGED <<running, skip, request, calls, pressed, heard>>
    BY <1>13 DEF CancelsNext, history
  <2>2. Pressed'
    BY <2>1 DEF Pressed
  <2> QED BY <1>1, <1>2, <2>1, <2>2
<1>14. CASE Skips
  <2>1. /\ Kept /\ shell = "skips" /\ skip' = TRUE /\ shell' = "idle" /\ pressed' = None
        /\ UNCHANGED <<running, nextWanted, request, goal, calls, heard>>
    BY <1>14 DEF Skips, history
  <2>2. Pressed'
    BY <1>1, <2>1 DEF Pressed
  <2> QED BY <1>1, <1>2, <2>1, <2>2
<1>15. CASE UNCHANGED vars
  <2>1. Kept /\ UNCHANGED <<running, skip, nextWanted, request, goal, shell, calls,
                            pressed, heard>>
    BY <1>15 DEF vars, queue, call, history
  <2> QED BY <1>1, <1>2, <2>1 DEF Pressed
<1> QED BY <1>4, <1>5, <1>7, <1>8, <1>9, <1>10, <1>11, <1>12, <1>13, <1>14, <1>15 DEF Shell

LEMMA NothingIsReadYet == Init => QueueInv
<1> SUFFICES ASSUME Init PROVE QueueInv
  OBVIOUS
<1>1. /\ playlist \in Playlists
      /\ phase = "new" /\ running = FALSE /\ at = [i \in 1..Count |-> 0]
      /\ index \in 1..Count /\ position = 0 /\ marks = <<>>
      /\ skip = FALSE /\ nextWanted = FALSE /\ done = FALSE /\ stopped = "end"
      /\ request = None /\ shell = "idle" /\ goal = None /\ calls = 0 /\ heard = 0
      /\ pressed = None
      /\ tape = <<>> /\ cuts = {} /\ undone = FALSE /\ reread = FALSE /\ lost = FALSE
  BY DEF Init
<1>2. playlist \in Seq(Entry) /\ MaxCalls \in Nat
  BY <1>1, QueueAssumption
<1>3. marks \in Seq(Mark) /\ tape \in Seq(Piece) /\ Len(marks) = 0 /\ Len(tape) = 0
  BY <1>1
<1>4. \A i \in 1..Count : playlist[i].frames \in Nat
  BY <1>2, EntriesAreTyped
<1>5. TypeOK
  <2>1. DOMAIN at = 1..Count /\ \A i \in 1..Count : at[i] \in 0..playlist[i].frames
    BY <1>1, <1>4
  <2>2. cuts \subseteq Nat /\ heard \in 0..position /\ position \in Nat
        /\ calls \in 0..MaxCalls
    BY <1>1, <1>2
  <2> QED BY <1>1, <1>3, <2>1, <2>2 DEF TypeOK, Mark
<1>6. Typed
  BY <1>2, <1>3, <1>5 DEF Typed
<1>7. Fresh /\ Pressed
  BY <1>1 DEF Fresh, Pressed
<1>8. Laid /\ Chained /\ Current
  BY <1>1, <1>3 DEF Laid, Ascending, Chained, Current
<1>9. HandedOut = {}
  BY <1>1 DEF HandedOut
<1>10. Told /\ StopSaysWhy
  BY <1>1, <1>9 DEF Told, StopSaysWhy
<1> QED BY <1>6, <1>7, <1>8, <1>10 DEF QueueInv

LEMMA EachStepKeepsTheQueue ==
    ASSUME QueueInv, [Next]_vars
    PROVE  QueueInv'
<1>1. CASE Open
  BY <1>1, QueueIsOpened
<1>2. CASE ReadFrame
  BY <1>2, FrameIsRead
<1>3. CASE ReadSkips \/ ReadCrosses
  BY <1>3, TrackIsLeft
<1>4. CASE Seek
  BY <1>4, SeekIsPerformed
<1>5. CASE Play \/ RunEnds \/ Shell \/ UNCHANGED vars
  BY <1>5, TheRestLeavesTheQueue
<1> QED BY <1>1, <1>2, <1>3, <1>4, <1>5 DEF Next, Decode, Device

(* queue.cpp, over any playlists and calls: the marks are the boundaries in  *)
(* the order they were heard, and the source being read stands where the    *)
(* mark of its track says.                                                  *)
THEOREM QueueInvariant == Spec => []QueueInv
<1>1. Init => QueueInv
  BY NothingIsReadYet
<1>2. QueueInv /\ [Next]_vars => QueueInv'
  BY EachStepKeepsTheQueue
<1> QED BY <1>1, <1>2, PTL DEF Spec

-----------------------------------------------------------------------------
(* queue.hpp:111-136, 182-188: what a shell reads off the marks is what was  *)
(* handed out.                                                              *)
LEMMA MarksTell ==
    ASSUME QueueInv
    PROVE  MarksAreRight
<1>1. /\ Ascending(marks) /\ marks \in Seq(Mark) /\ tape \in Seq(Piece)
      /\ Chained /\ Told /\ Fresh /\ position \in Nat
      /\ (phase = "open" => marks # <<>>)
  BY DEF QueueInv, Typed, TypeOK, Laid, Mark
<1>2. /\ Len(marks) \in Nat
      /\ \A m \in 1..Len(marks) : marks[m].from \in Nat /\ marks[m].base = 0
  BY <1>1, MarksAreTyped
<1>3. MarksAscend
  <2> SUFFICES ASSUME NEW m \in 1..(Len(marks) - 1)
               PROVE  /\ marks[m].from < marks[m + 1].from
                      /\ AsLaid => marks[m].index < marks[m + 1].index
    BY DEF MarksAscend
  <2>1. m \in 1..Len(marks) /\ m + 1 \in 1..Len(marks) /\ m < m + 1
    BY <1>2
  <2>2. marks[m].from < marks[m + 1].from
    BY <1>1, <2>1 DEF Ascending
  <2> QED BY <1>1, <2>2 DEF Chained
<1>4. ASSUME AsLaid, NEW f \in HandedOut
      PROVE  /\ IndexAt(f) = Handed(f).item
             /\ Handed(f).frame = marks[MarkFor(f)].base + (f - marks[MarkFor(f)].from)
  <2>1. Handed(f) = [item  |-> marks[MarkFor(f)].index,
                     frame |-> f - marks[MarkFor(f)].from]
    BY <1>1, <1>4 DEF Told
  <2>2. f \in 0..(position - 1)
    BY DEF HandedOut
  <2>3. phase = "open"
    BY <1>1, <2>2 DEF Fresh
  <2>4. MarkFor(f) \in 1..Len(marks)
    <3>1. f \in Nat
      BY <2>2
    <3> QED BY <1>1, <2>3, <3>1, CoveringCovers DEF MarkFor, Covering
  <2>5. marks[MarkFor(f)].base = 0 /\ marks[MarkFor(f)].from \in Nat
    BY <1>2, <2>4
  <2>6. marks[MarkFor(f)].base + (f - marks[MarkFor(f)].from) = f - marks[MarkFor(f)].from
    BY <2>2, <2>5
  <2> QED BY <2>1, <2>6 DEF IndexAt
<1>5. MarksNameTheTrack /\ MarksPlaceTheFrame
  BY <1>4 DEF MarksNameTheTrack, MarksPlaceTheFrame
<1> QED BY <1>3, <1>5 DEF MarksAreRight

(* queue.cpp:190-198: tracks join, and where they do not the run says why.  *)
LEMMA TracksAreJoined ==
    ASSUME QueueInv
    PROVE  JoinsOrSaysWhy
<1>1. /\ Ascending(marks) /\ marks \in Seq(Mark) /\ tape \in Seq(Piece)
      /\ playlist \in Seq(Entry)
      /\ Chained /\ Told /\ Fresh /\ position \in Nat /\ StopSaysWhy
      /\ (phase = "open" => marks # <<>>)
  BY DEF QueueInv, Typed, TypeOK, Laid, Mark
<1>2. /\ Len(marks) \in Nat
      /\ \A m \in 1..Len(marks) : marks[m].from \in Nat /\ marks[m].index \in 1..Count
  BY <1>1, MarksAreTyped
<1>3. ASSUME AsLaid, NEW f \in HandedOut \ {0}, f - 1 \in HandedOut, f \notin cuts
      PROVE  Follows(Handed(f - 1), Handed(f))
  <2> DEFINE a == Covering(marks, f - 1)
             b == Covering(marks, f)
  <2>1. f \in 1..(position - 1) /\ f - 1 \in 0..(position - 1)
    BY <1>1 DEF HandedOut
  <2>2. /\ Handed(f - 1) = [item |-> marks[a].index, frame |-> (f - 1) - marks[a].from]
        /\ Handed(f) = [item |-> marks[b].index, frame |-> f - marks[b].from]
    BY <1>1, <1>3 DEF Told, MarkFor, Covering
  <2>3. phase = "open"
    BY <1>1, <2>1 DEF Fresh
  <2>4. /\ a \in 1..Len(marks) /\ (a = 1 \/ marks[a].from <= f - 1)
        /\ \A n \in 1..Len(marks) : n > a => marks[n].from > f - 1
    <3>1. f - 1 \in Nat
      BY <2>1
    <3> QED BY <1>1, <2>3, <3>1, CoveringCovers
  <2>5. /\ b \in 1..Len(marks) /\ (b = 1 \/ marks[b].from <= f)
        /\ \A n \in 1..Len(marks) : n > b => marks[n].from > f
    <3>1. f \in Nat
      BY <2>1
    <3> QED BY <1>1, <2>3, <3>1, CoveringCovers
  <2> HIDE DEF a, b
  <2>6. /\ marks[a].from \in Nat /\ marks[b].from \in Nat
        /\ marks[a].index \in 1..Count
    BY <1>2, <2>4, <2>5
  <2>7. CASE a = b
    BY <2>1, <2>2, <2>6, <2>7 DEF Follows
  <2>8. CASE a # b
    <3>1. b = a + 1 /\ marks[b].from = f
      <4>1. ~(b < a)
        <5> SUFFICES ASSUME b < a PROVE FALSE
          OBVIOUS
        <5>1. marks[a].from > f /\ a # 1
          BY <1>2, <2>4, <2>5
        <5> QED BY <2>1, <2>4, <2>6, <5>1
      <4>2. a < b /\ a + 1 \in 1..Len(marks) /\ a < Len(marks) /\ b # 1
        BY <1>2, <2>4, <2>5, <2>8, <4>1
      <4>3. marks[a + 1].from > f - 1 /\ marks[a + 1].from \in Nat
        BY <1>2, <2>4, <4>2
      <4>4. marks[b].from <= f
        BY <2>5, <4>2
      <4>5. ~(a + 1 < b)
        <5> SUFFICES ASSUME a + 1 < b PROVE FALSE
          OBVIOUS
        <5>1. marks[a + 1].from < marks[b].from
          BY <1>1, <2>5, <4>2 DEF Ascending
        <5> QED BY <2>1, <2>6, <4>3, <4>4, <5>1
      <4>6. b = a + 1
        BY <2>4, <2>5, <4>2, <4>5
      <4> QED BY <2>1, <2>6, <4>3, <4>4, <4>6
    <3>2. a \in 1..(Len(marks) - 1)
      BY <1>2, <2>4, <2>5, <3>1
    <3>3. /\ marks[b].index = FirstFrom(marks[a].index + 1)
          /\ marks[b].from = marks[a].from + playlist[marks[a].index].frames
      BY <1>1, <1>3, <3>1, <3>2 DEF Chained
    <3>4. playlist[marks[a].index].frames \in Nat
      BY <1>1, <2>6, EntriesAreTyped
    <3>5. /\ (f - 1) - marks[a].from = playlist[marks[a].index].frames - 1
          /\ f - marks[b].from = 0
      BY <2>1, <2>6, <3>1, <3>3, <3>4
    <3> QED BY <2>2, <3>3, <3>5 DEF Follows
  <2> QED BY <2>7, <2>8
<1>4. TracksJoin
  BY <1>3 DEF TracksJoin, Joined
<1> QED BY <1>1, <1>4 DEF JoinsOrSaysWhy

(* queue.hpp:138-157: the seek a "next" asked for is of the track that the   *)
(* device was in.                                                           *)
LEMMA NextIsOfWhatIsHeard ==
    ASSUME QueueInv, [Next]_vars, TakesTheNext, ItsOwnSeek, AsLaid
    PROVE  GoesPast(pressed)
<1>1. Seek
  <2>1. \A frame \in Targets : frame # None
    BY QueueAssumption DEF None
  <2>2. request # None /\ request' = None
    BY DEF TakesTheNext
  <2>3. CASE Open
    BY <2>2, <2>3 DEF Open
  <2>4. CASE ReadFrame \/ ReadSkips \/ ReadCrosses
    BY <2>2, <2>4 DEF ReadFrame, ReadSkips, ReadCrosses
  <2>5. CASE Play \/ RunEnds
    BY <2>2, <2>5 DEF Play, RunEnds
  <2>6. CASE Shell
    <3>1. CASE \E frame \in Targets : AskSeek(frame)
      BY <2>1, <2>2, <3>1 DEF AskSeek
    <3>2. CASE AskNext \/ AskPrevious \/ CancelsNext \/ Skips
      BY <2>2, <3>2 DEF AskNext, AskPrevious, CancelsNext, Skips
    <3>3. CASE Asks
      BY <2>2, <3>3 DEF Asks
    <3>4. CASE Answered \/ Refused
      BY <2>2, <3>4 DEF Answered, Refused
    <3> QED BY <2>6, <3>1, <3>2, <3>3, <3>4 DEF Shell
  <2>7. CASE UNCHANGED vars
    BY <2>2, <2>7 DEF vars
  <2> QED BY <2>3, <2>4, <2>5, <2>6, <2>7 DEF Next, Decode, Device
<1> DEFINE i == marks[MarkFor(pressed)].index
           j == FirstFrom(i + 1)
<1>2. running /\ request = pressed /\ pressed \in Nat
  BY <1>1 DEF Seek, TakesTheNext, ItsOwnSeek, QueueInv, Pressed
<1>3. Jump(i + 1, pressed)
  BY <1>1, <1>2 DEF Seek, TakesTheNext
<1>4. /\ marks \in Seq(Mark) /\ marks # <<>> /\ Ascending(marks) /\ Told
      /\ playlist \in Seq(Entry) /\ DOMAIN at = 1..Count
  BY <1>2 DEF QueueInv, Fresh, Typed, TypeOK, Laid, Mark
<1>5. TrackOf(pressed) = i
  <2>1. CASE pressed \in HandedOut
    BY <1>4, <2>1 DEF Told, TrackOf
  <2>2. CASE pressed \notin HandedOut
    BY <2>2 DEF TrackOf, IndexAt
  <2> QED BY <2>1, <2>2
<1>6. i \in 1..Count /\ Count \in Nat
  <2>1. MarkFor(pressed) \in 1..Len(marks)
    BY <1>2, <1>4, CoveringCovers DEF MarkFor, Covering
  <2> QED BY <1>4, <2>1, MarksAreTyped, EntriesAreTyped
<1>7. j \in (i + 1)..(Count + 1)
  <2>1. i + 1 \in 1..(Count + 1)
    BY <1>6
  <2> QED BY <1>4, <2>1, TheWalkStops
<1>8. CASE ~Joins(j)
  <2>1. done'
    BY <1>3, <1>8 DEF Jump
  <2> QED BY <1>5, <1>8, <2>1 DEF GoesPast
<1>9. CASE Joins(j) /\ Refuses(j, 0)
  <2>1. MayRefuse(j, 0) /\ UNCHANGED <<index, position, marks>>
    BY <1>9 DEF Refuses
  <2> QED BY <1>5, <1>9, <2>1 DEF GoesPast
<1>10. CASE Joins(j) /\ Lands(pressed, 0, j)
  <2> HIDE DEF i
  <2>1. j \in 1..Count
    BY <1>6, <1>7, <1>10 DEF Joins, HasAudio
  <2>2. index' = j /\ at' = [at EXCEPT ![j] = 0]
    BY <1>10 DEF Lands
  <2>3. at'[j] = 0
    BY <1>4, <2>1, <2>2
  <2> QED BY <1>5, <1>10, <2>2, <2>3 DEF GoesPast
<1> QED BY <1>3, <1>8, <1>9, <1>10 DEF Jump

-----------------------------------------------------------------------------
(* queue.cpp, over any playlists: every variable has its type whatever is    *)
(* asked in whatever order; the index and the marks name entries there are,  *)
(* and no source is past its end.                                           *)
THEOREM QueueTyped == Spec => []TypeOK
<1>1. QueueInv => TypeOK
  BY DEF QueueInv, Typed
<1> QED BY <1>1, QueueInvariant, PTL

(* queue.hpp:111-136, 182-188: however a run was moved, the marks ascend,    *)
(* and of every frame handed out they name the track and the place in it.   *)
THEOREM QueueMarksAreRight == Spec => []MarksAreRight
<1>1. QueueInv => MarksAreRight
  BY MarksTell
<1> QED BY <1>1, QueueInvariant, PTL

(* queue.cpp:116, 190-198: on the run a track is followed by the next that   *)
(* opens, from its start, unless a "next" or a skip left it; and a queue    *)
(* that stops says what stands behind the track it stopped in.              *)
THEOREM QueueJoinsOrSaysWhy == Spec => []JoinsOrSaysWhy
<1>1. QueueInv => JoinsOrSaysWhy
  BY TracksAreJoined
<1> QED BY <1>1, QueueInvariant, PTL

(* queue.hpp:138-157: a "next" whose own seek is performed is the start of   *)
(* the track after the one the device was in when it was pressed, or the    *)
(* end, unless that track refuses to move to its start: over any playlists, *)
(* sources that cannot seek, and calls nobody waits for any more.           *)
THEOREM QueueNextIsTheTrackAfter == Spec => NextIsTheTrackAfter
<1>1. QueueInv /\ [Next]_vars =>
        [TakesTheNext /\ ItsOwnSeek /\ AsLaid => GoesPast(pressed)]_vars
  BY NextIsOfWhatIsHeard
<1> QED BY <1>1, QueueInvariant, PTL DEF Spec, NextIsTheTrackAfter

-----------------------------------------------------------------------------
(* What the wiring offers. *)

Offer == [format : Formats, fidelity : Fidelities, tagged : BOOLEAN]

(* Every offer of the list leaves the samples of a format as they are. *)
Keeps(list, format) ==
    /\ list \in Seq(Offer)
    /\ \A i \in DOMAIN list :
         list[i].fidelity # "converted" /\ Classify(format, list[i].format) # "converted"

(* Those that do come first. *)
KeepsFirst(list, format) ==
    /\ list \in Seq(Offer)
    /\ \A i \in DOMAIN list :
         list[i].fidelity # "converted" => Classify(format, list[i].format) # "converted"
    /\ \A i, k \in DOMAIN list :
         i < k /\ list[i].fidelity = "converted" => list[k].fidelity = "converted"

-----------------------------------------------------------------------------
(* format.cpp *)

(* A layout that is named names every channel, as is_valid() asks of it. *)
LEMMA LayoutNamesThemAll ==
    ASSUME NEW n \in Nat
    PROVE  /\ Conventional(n) \in Masks
           /\ Conventional(n) # <<>> => Len(Conventional(n)) = n
<1>1. CASE n = 1
  BY <1>1 DEF Conventional, Masks
<1>2. CASE n = 2
  BY <1>2 DEF Conventional, Masks
<1>3. CASE n = 4
  BY <1>3 DEF Conventional, Masks
<1>4. CASE n = 6
  BY <1>4 DEF Conventional, Masks
<1>5. CASE n = 8
  BY <1>5 DEF Conventional, Masks
<1>6. CASE n \notin {1, 2, 4, 6, 8}
  BY <1>6 DEF Conventional, Masks
<1> QED BY <1>1, <1>2, <1>3, <1>4, <1>5, <1>6

(* canonical_for() names a container of as many bytes, that holds the bits. *)
LEMMA CanonicalHolds ==
    ASSUME NEW bytes \in {2, 3, 4}, NEW bits \in Nat,
           Canonical(bytes, bits) # "none"
    PROVE  /\ Canonical(bytes, bits) \in {"s16", "s24_packed", "s24_in_32", "s32"}
           /\ Container(Canonical(bytes, bits)) = bytes
           /\ bits # 0 /\ bits <= 8 * bytes
<1>1. CASE bits = 0 \/ bits > 8 * bytes
  BY <1>1 DEF Canonical
<1>2. CASE bits # 0 /\ bits <= 8 * bytes /\ bytes = 2
  BY <1>2 DEF Canonical, Container
<1>3. CASE bits # 0 /\ bits <= 8 * bytes /\ bytes = 3
  BY <1>3 DEF Canonical, Container
<1>4. CASE bits # 0 /\ bits <= 8 * bytes /\ bytes = 4
  BY <1>4 DEF Canonical, Container
<1> QED BY <1>1, <1>2, <1>3, <1>4

LEMMA BitsAreCounted ==
    ASSUME NEW format \in Formats
    PROVE  ValidBits(format) \in Nat
BY DEF Formats, Types, ValidBits, NaturalBits, Container

-----------------------------------------------------------------------------
(* classify() *)

LEMMA SaidExact ==
    ASSUME NEW file, NEW taken, Classify(file, taken) = "exact"
    PROVE  SameStream(file, taken) /\ SameContainer(file, taken)
BY DEF Classify

LEMMA SaidRepacked ==
    ASSUME NEW file, NEW taken, Classify(file, taken) = "repacked"
    PROVE  /\ SameStream(file, taken)
           /\ IsIntegerPcm(file.type) /\ IsIntegerPcm(taken.type)
BY DEF Classify

LEMMA SaysOneOfThree ==
    ASSUME NEW file, NEW taken
    PROVE  Classify(file, taken) \in {"exact", "repacked", "converted"}
BY DEF Classify

(* Bits of an integer sample that both sides count alike fit both: repack() *)
(* does not refuse them.                                                    *)
LEMMA RepackIsNotRefused ==
    ASSUME NEW file, NEW taken, Classify(file, taken) = "repacked"
    PROVE  CanRepack(file.type, taken.type, ValidBits(taken))
<1>1. /\ SameStream(file, taken)
      /\ IsIntegerPcm(file.type) /\ IsIntegerPcm(taken.type)
  BY SaidRepacked
<1>2. ASSUME NEW format, IsValid(format), IsIntegerPcm(format.type)
      PROVE  ValidBits(format) # 0 /\ ValidBits(format) <= 8 * Container(format.type)
  <2>1. CASE format.bits # 0
    BY <1>2, <2>1 DEF IsValid, ValidBits
  <2>2. CASE format.bits = 0
    BY <1>2, <2>2 DEF ValidBits, NaturalBits, Container, IsIntegerPcm
  <2> QED BY <2>1, <2>2
<1> QED BY <1>1, <1>2 DEF SameStream, CanRepack

-----------------------------------------------------------------------------
(* build_candidates() *)

LEMMA FormsOfAFormat ==
    ASSUME NEW format \in Formats, NEW label \in Fidelities
    PROVE  /\ Forms(format, label) \in Seq(Offer)
           /\ \A i \in DOMAIN Forms(format, label) :
                /\ Forms(format, label)[i].fidelity = label
                /\ \/ Forms(format, label)[i].format = format
                   \/ /\ format.mask = <<>> /\ Conventional(format.channels) # <<>>
                      /\ Forms(format, label)[i].format =
                           [format EXCEPT !.mask = Conventional(format.channels)]
<1> DEFINE tagged == [format EXCEPT !.mask = Conventional(format.channels)]
<1>1. tagged \in Formats
  BY LayoutNamesThemAll DEF Formats
<1>2. Candidate(format, label, FALSE) \in Offer /\ Candidate(tagged, label, TRUE) \in Offer
  BY <1>1 DEF Candidate, Offer
<1>3. CASE format.mask = <<>> /\ Conventional(format.channels) # <<>>
  <2>1. Forms(format, label) =
          <<Candidate(format, label, FALSE), Candidate(tagged, label, TRUE)>>
    BY <1>3 DEF Forms
  <2> QED BY <1>2, <1>3, <2>1 DEF Candidate
<1>4. CASE ~(format.mask = <<>> /\ Conventional(format.channels) # <<>>)
  <2>1. Forms(format, label) = <<Candidate(format, label, FALSE)>>
    BY <1>4 DEF Forms
  <2> QED BY <1>2, <2>1 DEF Candidate
<1> QED BY <1>3, <1>4

(* Naming a layout the file left unspecified changes nothing. *)
LEMMA LayoutChangesNothing ==
    ASSUME NEW format \in Formats, NEW other \in Formats,
           Classify(format, other) # "converted",
           format.mask = <<>> => other.mask = <<>>,
           Conventional(format.channels) # <<>>, format.mask = <<>>
    PROVE  Classify(format, [other EXCEPT !.mask = Conventional(other.channels)])
             # "converted"
<1> DEFINE tagged == [other EXCEPT !.mask = Conventional(other.channels)]
<1>1. SameStream(format, other)
  BY DEF Classify
<1>2. other.channels = format.channels /\ format.channels \in Nat
  BY <1>1 DEF SameStream, Formats
<1>3. Len(tagged.mask) = tagged.channels /\ tagged \in Formats
  BY <1>2, LayoutNamesThemAll DEF Formats
<1>4. /\ tagged.rate = other.rate /\ tagged.channels = other.channels
      /\ tagged.type = other.type /\ tagged.encoding = other.encoding
      /\ tagged.bits = other.bits
  BY DEF Formats
<1>5. IsValid(tagged) /\ ValidBits(tagged) = ValidBits(other)
  BY <1>1, <1>3, <1>4 DEF SameStream, IsValid, ValidBits
<1>6. SameStream(format, tagged)
  BY <1>1, <1>4, <1>5 DEF SameStream
<1>7. SameContainer(format, other) <=> SameContainer(format, tagged)
  BY <1>4 DEF SameContainer
<1> QED BY <1>1, <1>4, <1>6, <1>7 DEF Classify

LEMMA FormsAreKept ==
    ASSUME NEW format \in Formats, NEW other \in Formats,
           NEW label \in {"exact", "repacked"},
           Classify(format, other) # "converted", other.mask = format.mask
    PROVE  Keeps(Forms(other, label), format)
<1>1. label \in Fidelities /\ label # "converted"
  BY DEF Fidelities
<1>2. other.channels = format.channels
  BY DEF Classify, SameStream
<1>3. /\ Forms(other, label) \in Seq(Offer)
      /\ \A i \in DOMAIN Forms(other, label) : Forms(other, label)[i].fidelity = label
  BY <1>1, FormsOfAFormat, ZenonT(40)
<1>4. ASSUME NEW i \in DOMAIN Forms(other, label)
      PROVE  Classify(format, Forms(other, label)[i].format) # "converted"
  <2>1. CASE Forms(other, label)[i].format = other
    BY <2>1
  <2>2. CASE /\ other.mask = <<>> /\ Conventional(other.channels) # <<>>
             /\ Forms(other, label)[i].format =
                  [other EXCEPT !.mask = Conventional(other.channels)]
    BY <1>2, <2>2, LayoutChangesNothing
  <2> QED BY <1>1, <2>1, <2>2, FormsOfAFormat
<1> QED BY <1>1, <1>3, <1>4 DEF Keeps

LEMMA OfferedAsItIs ==
    ASSUME NEW format \in Formats, IsValid(format)
    PROVE  Keeps(Forms(format, "exact"), format)
<1>1. Classify(format, format) = "exact"
  BY DEF Classify, SameStream, SameContainer
<1> QED BY <1>1, FormsAreKept

LEMMA OfferedRepacked ==
    ASSUME NEW format \in Formats, IsValid(format), format.encoding = "pcm",
           IsIntegerPcm(format.type), NEW bytes \in {2, 3, 4}
    PROVE  Keeps(Repacks(format, bytes), format)
<1> DEFINE type == Canonical(bytes, ValidBits(format))
           other == [format EXCEPT !.type = type, !.bits = ValidBits(format)]
<1>1. CASE bytes = Container(format.type) \/ type = "none"
  BY <1>1 DEF Repacks, Keeps
<1>2. CASE bytes # Container(format.type) /\ type # "none"
  <2>1. /\ IsIntegerPcm(type) /\ Container(type) = bytes
        /\ ValidBits(format) \in Nat \ {0} /\ ValidBits(format) <= 8 * bytes
    BY <1>2, BitsAreCounted, CanonicalHolds DEF IsIntegerPcm
  <2>2. other \in Formats
    BY <2>1 DEF Formats, Types, IsIntegerPcm
  <2>3. /\ other.rate = format.rate /\ other.channels = format.channels
        /\ other.mask = format.mask /\ other.encoding = format.encoding
        /\ other.type = type /\ other.bits = ValidBits(format)
    BY DEF Formats
  <2>4. IsValid(other) /\ ValidBits(other) = ValidBits(format)
    BY <2>1, <2>3 DEF IsValid, ValidBits
  <2>5. Classify(format, other) = "repacked"
    <3>1. SameStream(format, other)
      BY <2>3, <2>4 DEF SameStream
    <3>2. Container(format.type) # Container(other.type)
      BY <1>2, <2>1, <2>3
    <3> QED BY <2>1, <2>3, <3>1, <3>2 DEF Classify, SameContainer
  <2>6. Repacks(format, bytes) = Forms(other, "repacked")
    BY <1>2 DEF Repacks
  <2> QED BY <2>2, <2>3, <2>5, <2>6, FormsAreKept
<1> QED BY <1>1, <1>2

LEMMA KeptTogether ==
    ASSUME NEW format, NEW one, NEW other, Keeps(one, format), Keeps(other, format)
    PROVE  Keeps(one \o other, format)
<1>1. one \in Seq(Offer) /\ other \in Seq(Offer)
  BY DEF Keeps
<1>2. ASSUME NEW i \in DOMAIN (one \o other)
      PROVE  \/ i \in DOMAIN one /\ (one \o other)[i] = one[i]
             \/ i - Len(one) \in DOMAIN other /\ (one \o other)[i] = other[i - Len(one)]
  BY <1>1, <1>2, ConcatProperties
<1> QED BY <1>1, <1>2, ConcatProperties DEF Keeps

LEMMA UnalteredIsKept ==
    ASSUME NEW format \in Formats, IsValid(format), format.encoding = "pcm"
    PROVE  Keeps(Unaltered(format), format)
<1>1. CASE IsIntegerPcm(format.type)
  <2>1. /\ Keeps(Repacks(format, 2), format) /\ Keeps(Repacks(format, 3), format)
        /\ Keeps(Repacks(format, 4), format) /\ Keeps(Forms(format, "exact"), format)
    BY <1>1, OfferedAsItIs, OfferedRepacked
  <2>2. Keeps(Repacks(format, 2) \o Repacks(format, 3), format)
    BY <2>1, KeptTogether
  <2>3. Keeps(Repacks(format, 2) \o Repacks(format, 3) \o Repacks(format, 4), format)
    BY <2>1, <2>2, KeptTogether
  <2>4. Unaltered(format) =
          Forms(format, "exact") \o
            (Repacks(format, 2) \o Repacks(format, 3) \o Repacks(format, 4))
    BY <1>1 DEF Unaltered
  <2> QED BY <2>1, <2>3, <2>4, KeptTogether
<1>2. CASE ~IsIntegerPcm(format.type)
  <2>1. Keeps(Forms(format, "exact"), format) /\ Keeps(<<>>, format)
    BY OfferedAsItIs DEF Keeps
  <2>2. Unaltered(format) = Forms(format, "exact") \o <<>>
    BY <1>2 DEF Unaltered
  <2> QED BY <2>1, <2>2, KeptTogether
<1> QED BY <1>1, <1>2

(* emit_conversions() puts what it adds after what is there. *)
LEMMA ConvertsComeLast ==
    ASSUME NEW format \in Formats, NEW list, KeepsFirst(list, format),
           NEW type \in {"s32", "s24_in_32", "s24_packed", "s16"}
    PROVE  KeepsFirst(Converts(list, format, type), format)
<1> DEFINE other == [format EXCEPT !.type = type, !.bits = 0]
           more == Forms(other, "converted")
<1>1. CASE \E i \in DOMAIN list : list[i].format.type = type
  BY <1>1 DEF Converts
<1>2. CASE ~\E i \in DOMAIN list : list[i].format.type = type
  <2>1. other \in Formats /\ "converted" \in Fidelities
    BY DEF Formats, Types, Fidelities
  <2>2. /\ more \in Seq(Offer) /\ list \in Seq(Offer)
        /\ \A i \in DOMAIN more : more[i].fidelity = "converted"
    BY <2>1, FormsOfAFormat, ZenonT(40) DEF KeepsFirst
  <2>3. Converts(list, format, type) = list \o more
    BY <1>2 DEF Converts
  <2> HIDE DEF more
  <2>4. ASSUME NEW i \in DOMAIN (list \o more)
        PROVE  IF i \in DOMAIN list
                 THEN (list \o more)[i] = list[i]
                 ELSE (list \o more)[i].fidelity = "converted"
    BY <2>2, <2>4, ConcatProperties
  <2>5. ASSUME NEW i \in DOMAIN (list \o more), NEW k \in DOMAIN (list \o more),
               i < k, k \in DOMAIN list
        PROVE  i \in DOMAIN list
    BY <2>2, <2>5, ConcatProperties
  <2>6. list \o more \in Seq(Offer)
    BY <2>2, ConcatProperties
  <2> QED BY <2>3, <2>4, <2>5, <2>6 DEF KeepsFirst
<1> QED BY <1>1, <1>2

LEMMA ConversionsComeLast ==
    ASSUME NEW format \in Formats, NEW list, KeepsFirst(list, format)
    PROVE  KeepsFirst(Conversions(list, format), format)
BY ConvertsComeLast DEF Conversions

(* negotiation.cpp:151-155: what alters nothing is asked for first, by every *)
(* policy but the one that was told to process.                              *)
LEMMA UnalteredComesFirst ==
    ASSUME NEW format \in Formats, NEW asked \in Policies, asked # "processed"
    PROVE  KeepsFirst(Candidates(format, asked), format)
<1>1. ASSUME NEW list, Keeps(list, format) PROVE KeepsFirst(list, format)
  BY <1>1 DEF Keeps, KeepsFirst
<1>2. CASE ~IsValid(format)
  BY <1>2 DEF Candidates, KeepsFirst
<1>3. CASE IsValid(format) /\ (asked = "exact_only" \/ format.encoding # "pcm")
  <2>1. Candidates(format, asked) = Forms(format, "exact")
    BY <1>3 DEF Candidates
  <2> QED BY <1>1, <1>3, <2>1, OfferedAsItIs
<1>4. CASE IsValid(format) /\ asked = "bit_exact" /\ format.encoding = "pcm"
  <2>1. Candidates(format, asked) = Unaltered(format)
    BY <1>4 DEF Candidates
  <2> QED BY <1>1, <1>4, <2>1, UnalteredIsKept
<1>5. CASE IsValid(format) /\ asked = "automatic" /\ format.encoding = "pcm"
  <2>1. Candidates(format, asked) = Conversions(Unaltered(format), format)
    BY <1>5 DEF Candidates
  <2> QED BY <1>1, <1>5, <2>1, UnalteredIsKept, ConversionsComeLast
<1> QED BY <1>2, <1>3, <1>4, <1>5 DEF Policies

-----------------------------------------------------------------------------
(* wire_up() *)

AnswerTo(i) == Answer(device, List[i].format)

(* What wire_up is called with, and what the chain makes of it. *)
Given ==
    /\ source \in Formats /\ offered \in Formats /\ policy \in Policies
    /\ chain \in Chains \cup {NoChain} /\ tried \in Nat
    /\ step = "begin" => tried = 0
    /\ chain = NoChain => offered = source
    /\ chain # NoChain /\ step \notin {"begin", "failed"} =>
         /\ offered.rate = chain.rate /\ offered.channels = chain.channels
         /\ policy = "processed"

(* What is taken has been judged, and is in the converter's reach. *)
Judged ==
    /\ step \in {"measure", "size", "wired"} => ok
    /\ ok => /\ step \in {"measure", "size", "wired", "failed"}
             /\ fidelity = Classify(offered, accepted)
             /\ fidelity = "converted" =>
                  accepted.rate = offered.rate /\ accepted.channels = offered.channels

(* Nothing that suited has been passed over. *)
PassedOver ==
    step = "ask" =>
        \A i \in 1..tried : AnswerTo(i) = Refusal \/ ~Suits(AnswerTo(i))

(* The graph that is built, and what its chain has been sized for. *)
Sized ==
    step = "wired" =>
        /\ processed = (policy = "processed" \/ fidelity = "converted"
                        \/ chain # NoChain \/ gain)
        /\ chain # NoChain => block = period

WiringInv == Given /\ Judged /\ PassedOver /\ Sized /\ UnalteredIfItCan

LEMMA NothingTriedYet == WiringInit => WiringInv
<1> SUFFICES ASSUME WiringInit PROVE WiringInv
  OBVIOUS
<1>1. Given
  BY WiringAssumption DEF WiringInit, Given
<1>2. Judged /\ PassedOver /\ Sized /\ UnalteredIfItCan
  BY DEF WiringInit, Judged, PassedOver, Sized, UnalteredIfItCan
<1> QED BY <1>1, <1>2 DEF WiringInv

(* An answer that is converted is taken only when all that would not have    *)
(* been was refused: by every device that answers what it does.              *)
LEMMA TakenInOrder ==
    ASSUME WiringInv, AnswerIsTaken
    PROVE  UnalteredIfItCan'
<1> USE DEF WiringInv
<1>1. /\ policy' = policy /\ offered' = offered /\ device' = device
      /\ fidelity' = Classify(offered, Got) /\ List' = List
  BY DEF AnswerIsTaken, given, List
<1> SUFFICES ASSUME Classify(offered, Got) = "converted", policy # "processed", Honest,
                    NEW i \in DOMAIN List, List[i].fidelity # "converted"
             PROVE  AnswerTo(i) = Refusal
  BY <1>1 DEF UnalteredIfItCan, Honest, AnswerTo
<1>2. /\ Suits(Got) /\ Got = AnswerTo(tried + 1) /\ step = "ask" /\ tried < Len(List)
      /\ Got # Refusal
  BY DEF AnswerIsTaken, Asking, Got, Asked, AnswerTo
<1>3. KeepsFirst(List, offered)
  BY UnalteredComesFirst DEF Given, List
<1>4. List \in Seq(Offer) /\ tried \in Nat /\ tried + 1 \in DOMAIN List
  BY <1>2, <1>3 DEF KeepsFirst, Given
<1>5. AnswerTo(i) \in {List[i].format, Refusal} /\ Got \in {List[tried + 1].format, Refusal}
  BY <1>2, <1>4 DEF Honest, AnswerTo
<1>6. Classify(offered, List[i].format) # "converted"
  BY <1>3 DEF KeepsFirst
<1>7. Allows(policy, "converted")
  BY <1>2 DEF Suits
<1>8. ASSUME AnswerTo(i) # Refusal PROVE Suits(AnswerTo(i))
  <2>1. policy = "automatic"
    BY <1>7 DEF Allows, Given, Policies
  <2> QED BY <1>5, <1>6, <1>8, <2>1 DEF Suits, Allows
<1>9. CASE i <= tried
  BY <1>2, <1>4, <1>8, <1>9 DEF PassedOver
<1>10. CASE i >= tried + 1
  <2>1. List[tried + 1].fidelity # "converted"
    BY <1>3, <1>4, <1>10 DEF KeepsFirst
  <2>2. Classify(offered, List[tried + 1].format) # "converted"
    BY <1>3, <1>4, <2>1 DEF KeepsFirst
  <2> QED BY <1>2, <1>5, <2>2
<1> QED BY <1>4, <1>9, <1>10

LEMMA EachAskingKeepsIt ==
    ASSUME WiringInv, [WiringNext]_wiringVars
    PROVE  WiringInv'
<1> USE DEF WiringInv
<1>1. CASE NothingInserted
  <2>1. Given'
    BY <1>1 DEF NothingInserted, given, answer, Given
  <2>2. Judged' /\ Sized' /\ UnalteredIfItCan'
    BY <1>1 DEF NothingInserted, given, answer, Judged, Sized, UnalteredIfItCan, Honest, List
  <2>3. PassedOver'
    BY <1>1 DEF NothingInserted, answer, Given, PassedOver
  <2> QED BY <2>1, <2>2, <2>3
<1>2. CASE ChainIsAsked
  <2>1. Given'
    BY <1>2, WiringAssumption DEF ChainIsAsked, given, answer, Given, Policies, Formats
  <2>2. Judged' /\ Sized'
    BY <1>2 DEF ChainIsAsked, given, answer, Judged, Sized
  <2>3. ~ok /\ ~ok'
    BY <1>2 DEF ChainIsAsked, answer, Judged
  <2>4. UnalteredIfItCan'
    BY <2>3 DEF UnalteredIfItCan
  <2>5. PassedOver'
    BY <1>2 DEF ChainIsAsked, answer, Given, PassedOver
  <2> QED BY <2>1, <2>2, <2>4, <2>5
<1>3. CASE ChainRefuses \/ NoSink \/ NobodyTakes
  <2>1. Given'
    BY <1>3 DEF ChainRefuses, NoSink, NobodyTakes, given, answer, Given
  <2>2. Judged' /\ Sized' /\ PassedOver'
    BY <1>3 DEF ChainRefuses, NoSink, NobodyTakes, given, answer, Judged, Sized, PassedOver
  <2>3. UnalteredIfItCan'
    BY <1>3 DEF ChainRefuses, NoSink, NobodyTakes, given, answer, UnalteredIfItCan, Honest, List
  <2> QED BY <2>1, <2>2, <2>3
<1>4. CASE DeviceRefuses \/ AnswerIsRefused
  <2>1. Given'
    BY <1>4 DEF DeviceRefuses, AnswerIsRefused, Asking, given, Given
  <2>2. Judged' /\ Sized'
    BY <1>4 DEF DeviceRefuses, AnswerIsRefused, Asking, given, Judged, Sized
  <2>3. UnalteredIfItCan'
    BY <1>4 DEF DeviceRefuses, AnswerIsRefused, given, UnalteredIfItCan, Honest, List
  <2>4. PassedOver'
    <3>1. /\ List' = List /\ device' = device /\ step = "ask" /\ tried' = tried + 1
          /\ \A got : Suits(got)' <=> Suits(got)
      BY <1>4 DEF DeviceRefuses, AnswerIsRefused, Asking, given, List, Suits
    <3>2. AnswerTo(tried + 1) = Refusal \/ ~Suits(AnswerTo(tried + 1))
      BY <1>4 DEF DeviceRefuses, AnswerIsRefused, Asking, Got, Asked, AnswerTo
    <3>3. tried \in Nat
      BY DEF Given
    <3>4. \A i \in 1..(tried + 1) :
            AnswerTo(i)' = AnswerTo(i) /\ (AnswerTo(i) = Refusal \/ ~Suits(AnswerTo(i)))
      BY <3>1, <3>2, <3>3 DEF PassedOver, AnswerTo
    <3> QED BY <3>1, <3>4 DEF PassedOver
  <2> QED BY <2>1, <2>2, <2>3, <2>4
<1>5. CASE AnswerIsTaken
  <2>1. Given'
    BY <1>5 DEF AnswerIsTaken, Asking, given, Given
  <2>2. Judged' /\ Sized' /\ PassedOver'
    BY <1>5 DEF AnswerIsTaken, given, Judged, Sized, PassedOver, Suits
  <2> QED BY <1>5, <2>1, <2>2, TakenInOrder
<1>6. CASE PeriodIsSaid \/ IsWired
  <2>1. Given'
    BY <1>6 DEF PeriodIsSaid, IsWired, given, answer, Given
  <2>2. Judged' /\ PassedOver'
    BY <1>6 DEF PeriodIsSaid, IsWired, given, answer, Judged, PassedOver
  <2>3. Sized'
    BY <1>6 DEF PeriodIsSaid, IsWired, given, answer, Sized
  <2>4. UnalteredIfItCan'
    BY <1>6 DEF PeriodIsSaid, IsWired, given, answer, UnalteredIfItCan, Honest, List
  <2> QED BY <2>1, <2>2, <2>3, <2>4
<1>7. CASE UNCHANGED wiringVars
  BY <1>7 DEF wiringVars, given, answer, Given, Judged, Sized, PassedOver, UnalteredIfItCan,
              Honest, List, AnswerTo, Suits
<1> QED BY <1>1, <1>2, <1>3, <1>4, <1>5, <1>6, <1>7 DEF WiringNext

LEMMA InvKeepsTheSignal == WiringInv => KeepsTheSignal
<1> SUFFICES ASSUME WiringInv PROVE CarriesTheSignal /\ ConverterReaches
  BY DEF WiringInv, KeepsTheSignal
<1> USE DEF WiringInv
<1>1. ConverterReaches
  <2>1. ASSUME step = "wired"
        PROVE  accepted.rate = offered.rate /\ accepted.channels = offered.channels
    <3>1. CASE fidelity = "converted"
      BY <2>1, <3>1 DEF Judged
    <3>2. CASE fidelity # "converted"
      BY <2>1, <3>2 DEF Judged, Classify, SameStream
    <3> QED BY <3>1, <3>2
  <2> QED BY <2>1 DEF ConverterReaches, Given, Sized
<1>2. CarriesTheSignal
  <2> SUFFICES ASSUME step = "wired", ~processed PROVE CarriesTheSignal
    BY DEF CarriesTheSignal
  <2>1. chain = NoChain /\ offered = source /\ fidelity # "converted"
    BY DEF Sized, Given
  <2>2. fidelity = Classify(source, accepted)
    BY <2>1 DEF Judged
  <2>3. CASE fidelity = "exact"
    <3>1. SameStream(source, accepted) /\ SameContainer(source, accepted)
      BY <2>2, <2>3, SaidExact
    <3> QED BY <2>3, <3>1
            DEF CarriesTheSignal, SameStream, SameContainer, FrameBytes
  <2>4. CASE fidelity = "repacked"
    <3>1. /\ SameStream(source, accepted)
          /\ IsIntegerPcm(source.type) /\ IsIntegerPcm(accepted.type)
          /\ CanRepack(source.type, accepted.type, ValidBits(accepted))
      BY <2>2, <2>4, SaidRepacked, RepackIsNotRefused
    <3>2. source.type # "f32" /\ accepted.type # "f32"
      BY <3>1 DEF IsIntegerPcm
    <3> QED BY <2>4, <3>1, <3>2 DEF CarriesTheSignal, SameStream
  <2> QED BY <2>1, <2>2, <2>3, <2>4, SaysOneOfThree
<1> QED BY <1>1, <1>2

(* wiring.cpp:7, negotiation.cpp:90, 159, sink.cpp:93: whatever the device   *)
(* answers, the graph that copies is built where a copy or a repack carries   *)
(* the file; the one that converts, at the rate and channels it can reach;    *)
(* and nothing is converted for a device that says it takes it unaltered.     *)
THEOREM SignalIsKept == WiringSpec => []KeepsTheSignal
<1>1. WiringInit => WiringInv
  BY NothingTriedYet
<1>2. WiringInv /\ [WiringNext]_wiringVars => WiringInv'
  BY EachAskingKeepsIt
<1>3. WiringInv => KeepsTheSignal
  BY InvKeepsTheSignal
<1> QED BY <1>1, <1>2, <1>3, PTL DEF WiringSpec
=============================================================================
