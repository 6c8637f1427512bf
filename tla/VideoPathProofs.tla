--------------------------- MODULE VideoPathProofs ---------------------------
(***************************************************************************)
(* For every file, every decoder, every set of faults and every number of  *)
(* calls: a seek and a setting have the display's loop to themselves, the  *)
(* variables keep their types, what is shown is of where the file was      *)
(* moved to, and the frame a seek is for is not dropped.                   *)
(*                                                                         *)
(* That a held loop decides about nothing is a fact of one moment, and a   *)
(* seek is several steps.  What these preserve is that a turn which stored *)
(* the number of the seek saw its hold (Parked), and that a ticket is on   *)
(* the queue or with the loop, once, and is either given up or the one its *)
(* caller still waits for (Tickets, Attended).  What is shown rests on the *)
(* decoder and the hand being of the last move, as soon as the graph was   *)
(* rewound (OfThisMove), and on the clock being at or past the target      *)
(* whenever the loop reads it (ClockIsThere): the two things a seek moves  *)
(* while no turn decides about anything.  That the target is shown rests   *)
(* on no arrival being under way when the file moves (Quiet), and on the   *)
(* clock standing at the target until then (Waiting); that a pause stays,  *)
(* on no arrival being under way after it (Kept).                          *)
(***************************************************************************)
EXTENDS VideoPath, SequenceTheorems, WellFoundedInduction, TLAPS

Over == {"ending", "leaving", "done", "none"}
Busy == {"job", "working", "answer"}
Numbered == {"await", "sleep", "move", "rewind", "reclock", "flag", "release"}
Telling == {"asking", "giving up"}

Typed ==
    /\ holders \in Nat /\ serial \in Nat /\ parkedSerial \in Nat /\ held \in Nat
    /\ posts \in Seq(Nat) /\ job \in Nat /\ jobs \in Nat /\ done \in Nat
    /\ abandoned \subseteq Nat
    /\ sawHold \in BOOLEAN /\ ended \in BOOLEAN /\ closed \in BOOLEAN
    /\ late \in BOOLEAN

Parked ==
    /\ caller \in Numbered \cup {"number"} => holders > 0
    /\ parkedSerial <= serial
    /\ caller \in Numbered => held = serial /\ held > 0
    /\ caller \in Numbered /\ parkedSerial >= held =>
         loop \notin {"look", "pump"} /\ (loop = "say" => sawHold)
    /\ ended => loop \in Over
    /\ caller \in {"move", "rewind", "reclock", "flag"} /\ ~late =>
         parkedSerial >= held \/ ended

(* Every ticket is of a call that was made, and on one place only. *)
Tickets ==
    /\ \A i \in DOMAIN posts : posts[i] > 0 /\ posts[i] <= jobs
    /\ \A i, k \in DOMAIN posts : i < k => posts[i] < posts[k]
    /\ \A n \in abandoned : n > 0 /\ n <= jobs
    /\ job <= jobs
    /\ loop \in Busy =>
         job > 0 /\ \A i \in DOMAIN posts : job < posts[i]
    /\ loop \notin Busy => job = 0
    /\ closed => posts = <<>> /\ loop \in Over

(* What is queued, or taken and not begun, is given up or attended. *)
Attended ==
    /\ \A i \in DOMAIN posts :
         posts[i] \in abandoned \/ (posts[i] = jobs /\ caller \in Telling)
    /\ loop = "job" => job \in abandoned \/ (job = jobs /\ caller \in Telling)
    /\ loop = "working" => job = jobs /\ caller \in Telling
    /\ caller \in Telling => jobs > 0 /\ jobs \notin abandoned
    /\ caller = "working" => loop \in Over

(* The outcome of the call under way. *)
Outcome ==
    /\ caller \in Telling =>
         /\ done = IF promise = "ran" \/ (loop = "answer" /\ job = jobs) THEN 1 ELSE 0
         /\ promise = "ran" => job # jobs /\ \A i \in DOMAIN posts : posts[i] # jobs
         /\ promise = "closed" => closed
    /\ caller = "working" => done = 0
    /\ told = "done" => done = 1 /\ caller \notin Telling \cup {"working"}

Inv == Typed /\ Parked /\ Tickets /\ Attended /\ Outcome

-----------------------------------------------------------------------------
(* Sequences, as far as the queue of posts needs them. *)

LEMMA Queued ==
  ASSUME NEW q \in Seq(Nat), NEW m \in Nat
  PROVE  /\ Append(q, m) \in Seq(Nat) /\ DOMAIN Append(q, m) = 1..(Len(q) + 1)
         /\ DOMAIN q = 1..Len(q) /\ Len(q) \in Nat
         /\ \A i \in 1..Len(q) : Append(q, m)[i] = q[i]
         /\ Append(q, m)[Len(q) + 1] = m
  OBVIOUS

LEMMA Dequeued ==
  ASSUME NEW q \in Seq(Nat), q # <<>>
  PROVE  /\ Head(q) \in Nat /\ Tail(q) \in Seq(Nat)
         /\ Len(q) \in Nat /\ Len(q) > 0 /\ DOMAIN q = 1..Len(q)
         /\ DOMAIN Tail(q) = 1..(Len(q) - 1) /\ Head(q) = q[1]
         /\ \A i \in 1..(Len(q) - 1) : Tail(q)[i] = q[i + 1]
  OBVIOUS

LEMMA Emptied == <<>> \in Seq(Nat) /\ DOMAIN <<>> = {}
  BY EmptySeq

-----------------------------------------------------------------------------
(* Each part of the invariant, over every step. *)

LEMMA TypedStep == ASSUME Inv, [Next]_vars PROVE Typed'
<1> USE DEF file, graph, clock, hold, post, path, turn, seek, count, outcome
<1>1. CASE Start
  BY Emptied, <1>1 DEF Start, Inv, Typed
<1>2. CASE Tell
  <2>1. CASE Running /\ ~closed
    <3>1. posts' = Append(posts, jobs + 1) /\ jobs' = jobs + 1 /\ jobs + 1 \in Nat
      BY <1>2, <2>1 DEF Tell, Inv, Typed
    <3>2. /\ posts' \in Seq(Nat) /\ DOMAIN posts' = 1..(Len(posts) + 1)
          /\ DOMAIN posts = 1..Len(posts) /\ Len(posts) \in Nat
          /\ \A i \in 1..Len(posts) : posts'[i] = posts[i]
          /\ posts'[Len(posts) + 1] = jobs + 1
      BY <3>1, Queued DEF Inv, Typed
    <3> QED  BY <1>2, <2>1, <3>1, <3>2 DEF Tell, Inv, Typed
  <2>2. CASE ~(Running /\ ~closed)
    BY <1>2, <2>2 DEF Tell, Inv, Typed
  <2> QED  BY <2>1, <2>2
<1>3. CASE SeekHolds
  BY <1>3 DEF SeekHolds, Inv, Typed
<1>4. CASE SeekIsNumbered
  BY <1>4 DEF SeekIsNumbered, Inv, Typed
<1>5. CASE SeekTimesOut
  BY <1>5 DEF SeekTimesOut, Inv, Typed
<1>6. CASE SeekReleases
  BY <1>6 DEF SeekReleases, Inv, Typed
<1>7. CASE TellGivesUp
  BY <1>7 DEF TellGivesUp, Answered, Inv, Typed
<1>8. CASE TellWorksHere
  BY <1>8 DEF TellWorksHere, Inv, Typed
<1>9. CASE StopJoins
  BY Emptied, <1>9 DEF StopJoins, ClosePosts, Inv, Typed
<1>10. CASE Retrack
  BY <1>10 DEF Retrack, Inv, Typed
<1>11. CASE TurnWaits
  BY <1>11 DEF TurnWaits, LoopGoes, Inv, Typed
<1>12. CASE TurnIsOver
  BY <1>12 DEF TurnIsOver, LoopGoes, Inv, Typed
<1>13. CASE DrainTakes
  BY Dequeued, <1>13 DEF DrainTakes, Inv, Typed
<1>14. CASE JobBegins
  BY <1>14 DEF JobBegins, LoopGoes, Inv, Typed
<1>15. CASE JobWorks
  BY <1>15 DEF JobWorks, Inv, Typed
<1>16. CASE JobIsAnswered
  BY <1>16 DEF JobIsAnswered, Inv, Typed
<1>17. CASE TurnLooksForHold
  BY <1>17 DEF TurnLooksForHold, Inv, Typed
<1>18. CASE TurnSays
  BY <1>18 DEF TurnSays, Inv, Typed
<1>19. CASE PumpRepeats
  BY <1>19 DEF PumpRepeats, LoopGoes, Inv, Typed
<1>20. CASE AfterLooks
  BY <1>20 DEF AfterLooks, Inv, Typed
<1>21. CASE AfterArrives
  BY <1>21 DEF AfterArrives, LoopGoes, Inv, Typed
<1>22. CASE TurnCloses
  BY Emptied, <1>22 DEF TurnCloses, ClosePosts, Inv, Typed
<1>23. CASE LoopEnds
  BY <1>23 DEF LoopEnds, Inv, Typed
<1>24. CASE UNCHANGED <<holders, serial, parkedSerial, held, posts, job, jobs,
                         done, abandoned, sawHold, ended, closed, late>>
  BY <1>24 DEF Inv, Typed
<1> QED
  BY <1>1, <1>2, <1>3, <1>4, <1>5, <1>6, <1>7, <1>8, <1>9, <1>10, <1>11,
     <1>12, <1>13, <1>14, <1>15, <1>16, <1>17, <1>18, <1>19, <1>20, <1>21,
     <1>22, <1>23, <1>24
  DEF Next, Calls, Open, CallStep, SeekStep, LoopStep, vars,
      Pause, Resume, Seek, Stop, SeekAwaits, SeekWakes, SeekMoves,
      SeekRewinds, SeekMovesClock, SeekFlags, TellIsAnswered, TellTimesOut,
      TurnIsHeld, TurnReadsClock, PumpFeeds, PumpTakes, PumpFinishes,
      PumpDrops, PumpShows, PumpFails, AfterLowers, AfterResumes,
      LoopLeaves, Tick, Call, Running, Answered, ToldSo, Pumping

LEMMA ParkedStep == ASSUME Inv, [Next]_vars PROVE Parked'
<1> USE DEF file, graph, clock, hold, post, path, turn, seek, count, outcome
<1>1. CASE Start
  BY <1>1 DEF Start, Inv, Parked, Numbered
<1>2. CASE Tell
  BY <1>2 DEF Tell, Inv, Parked, Numbered
<1>3. ASSUME NEW frame \in Targets, Seek(frame) PROVE Parked'
  BY <1>3 DEF Seek, Inv, Parked, Numbered
<1>4. ASSUME NEW then \in {"joining", "retracking"}, Stop(then) PROVE Parked'
  BY <1>4 DEF Stop, Inv, Parked, Numbered
<1>5. CASE SeekHolds
  BY <1>5 DEF SeekHolds, Inv, Parked, Typed, Numbered
<1>6. CASE SeekIsNumbered
  BY <1>6 DEF SeekIsNumbered, Inv, Parked, Typed
<1>7. CASE SeekAwaits
  BY <1>7 DEF SeekAwaits, Inv, Parked, Numbered
<1>8. CASE SeekWakes
  BY <1>8 DEF SeekWakes, Inv, Parked, Numbered
<1>9. CASE SeekTimesOut
  BY <1>9 DEF SeekTimesOut, Inv, Parked, Numbered
<1>10. CASE SeekMoves
  BY <1>10 DEF SeekMoves, Inv, Parked, Numbered
<1>11. CASE SeekRewinds
  BY <1>11 DEF SeekRewinds, Inv, Parked, Numbered
<1>12. CASE SeekMovesClock
  BY <1>12 DEF SeekMovesClock, Inv, Parked, Numbered
<1>13. CASE SeekFlags
  BY <1>13 DEF SeekFlags, Inv, Parked, Numbered
<1>14. CASE SeekReleases
  BY <1>14 DEF SeekReleases, Inv, Parked, Numbered
<1>15. CASE TellIsAnswered
  BY <1>15 DEF TellIsAnswered, Answered, ToldSo, Inv, Parked, Numbered
<1>16. CASE TellTimesOut
  BY <1>16 DEF TellTimesOut, Inv, Parked, Numbered
<1>17. CASE TellGivesUp
  BY <1>17 DEF TellGivesUp, Answered, ToldSo, Inv, Parked, Numbered
<1>18. CASE TellWorksHere
  BY <1>18 DEF TellWorksHere, ToldSo, Inv, Parked, Numbered
<1>19. CASE StopJoins
  BY <1>19 DEF StopJoins, ClosePosts, Inv, Parked, Over, Numbered
<1>20. CASE Retrack
  BY <1>20 DEF Retrack, Inv, Parked, Numbered
<1>21. CASE TurnWaits
  BY <1>21 DEF TurnWaits, LoopGoes, Inv, Parked, Over
<1>22. CASE TurnIsOver
  BY <1>22 DEF TurnIsOver, LoopGoes, Inv, Parked, Over
<1>23. CASE DrainTakes
  BY <1>23 DEF DrainTakes, Inv, Parked, Over
<1>24. CASE JobBegins
  BY <1>24 DEF JobBegins, LoopGoes, Inv, Parked, Over
<1>25. CASE JobWorks
  BY <1>25 DEF JobWorks, Inv, Parked, Over
<1>26. CASE JobIsAnswered
  BY <1>26 DEF JobIsAnswered, Inv, Parked, Over
<1>27. CASE TurnLooksForHold
  <2>1. CASE holders # 0
    <3>1. sawHold' = TRUE
      BY <1>27, <2>1 DEF TurnLooksForHold
    <3> QED  BY <1>27, <3>1 DEF TurnLooksForHold, Inv, Parked, Over
  <2>2. CASE holders = 0
    BY <1>27, <2>2 DEF TurnLooksForHold, Inv, Parked, Over
  <2> QED  BY <2>1, <2>2
<1>28. CASE TurnSays
  BY <1>28 DEF TurnSays, Inv, Parked, Typed, Over, Numbered
<1>29. CASE TurnIsHeld
  BY <1>29 DEF TurnIsHeld, Inv, Parked, Over
<1>30. CASE TurnReadsClock
  BY <1>30 DEF TurnReadsClock, Inv, Parked, Over
<1>31. CASE PumpFinishes
  BY <1>31 DEF PumpFinishes, Inv, Parked, Over
<1>32. CASE PumpRepeats
  BY <1>32 DEF PumpRepeats, LoopGoes, Pumping, Inv, Parked, Over
<1>33. CASE PumpShows
  BY <1>33 DEF PumpShows, Pumping, Inv, Parked, Over
<1>34. CASE PumpFails
  BY <1>34 DEF PumpFails, Inv, Parked, Over
<1>35. CASE AfterLooks
  BY <1>35 DEF AfterLooks, Inv, Parked, Over
<1>36. CASE AfterArrives
  BY <1>36 DEF AfterArrives, LoopGoes, Inv, Parked, Over
<1>37. CASE AfterLowers
  BY <1>37 DEF AfterLowers, Inv, Parked, Over
<1>38. CASE AfterResumes
  BY <1>38 DEF AfterResumes, Inv, Parked, Over
<1>39. CASE TurnCloses
  BY <1>39 DEF TurnCloses, ClosePosts, Inv, Parked, Over
<1>40. CASE LoopEnds
  BY <1>40 DEF LoopEnds, Inv, Parked, Over
<1>41. CASE LoopLeaves
  BY <1>41 DEF LoopLeaves, Inv, Parked, Over
<1>42. CASE UNCHANGED <<caller, holders, serial, parkedSerial, held, loop, sawHold,
                         ended, late>>
  BY <1>42 DEF Inv, Parked
<1> QED
  BY <1>1, <1>2, <1>3, <1>4, <1>5, <1>6, <1>7, <1>8, <1>9, <1>10, <1>11,
     <1>12, <1>13, <1>14, <1>15, <1>16, <1>17, <1>18, <1>19, <1>20, <1>21,
     <1>22, <1>23, <1>24, <1>25, <1>26, <1>27, <1>28, <1>29, <1>30, <1>31,
     <1>32, <1>33, <1>34, <1>35, <1>36, <1>37, <1>38, <1>39, <1>40, <1>41,
     <1>42
  DEF Next, Calls, Open, CallStep, SeekStep, LoopStep, vars,
      Pause, Resume, PumpFeeds, PumpTakes, PumpDrops, Tick, Call, Running,
      Pumping

LEMMA TicketsStep == ASSUME Inv, [Next]_vars PROVE Tickets'
<1> USE DEF file, graph, clock, hold, post, path, turn, seek, count, outcome
<1>1. CASE Start
  BY Emptied, <1>1 DEF Start, Running, Inv, Tickets, Busy
<1>2. CASE Tell
  <2>1. CASE Running /\ ~closed
    <3>1. posts' = Append(posts, jobs + 1) /\ jobs' = jobs + 1 /\ jobs + 1 \in Nat
      BY <1>2, <2>1 DEF Tell, Inv, Typed
    <3>2. /\ posts' \in Seq(Nat) /\ DOMAIN posts' = 1..(Len(posts) + 1)
          /\ DOMAIN posts = 1..Len(posts) /\ Len(posts) \in Nat
          /\ \A i \in 1..Len(posts) : posts'[i] = posts[i]
          /\ posts'[Len(posts) + 1] = jobs + 1
      BY <3>1, Queued DEF Inv, Typed
    <3> QED  BY <1>2, <2>1, <3>1, <3>2, SMTT(30) DEF Tell, Inv, Tickets, Typed
  <2>2. CASE ~(Running /\ ~closed)
    BY <1>2, <2>2 DEF Tell, Inv, Tickets, Typed
  <2> QED  BY <2>1, <2>2
<1>3. CASE TellGivesUp
  <2>1. jobs > 0 /\ jobs \in Nat
    BY <1>3 DEF TellGivesUp, Inv, Typed, Attended, Telling
  <2>2. \A n \in abandoned' : n > 0 /\ n <= jobs
    <3>1. abandoned' \subseteq abandoned \cup {jobs}
      BY <1>3 DEF TellGivesUp
    <3> QED  BY <2>1, <3>1 DEF Inv, Tickets
  <2>3. /\ posts' = posts /\ closed' = closed /\ loop' = loop
        /\ job' = job /\ jobs' = jobs
    BY <1>3 DEF TellGivesUp
  <2> QED  BY <2>2, <2>3 DEF Inv, Tickets
<1>4. CASE StopJoins
  BY Emptied, <1>4 DEF StopJoins, ClosePosts, Inv, Tickets, Over, Busy
<1>5. CASE TurnWaits
  BY <1>5 DEF TurnWaits, LoopGoes, Inv, Tickets, Over, Busy
<1>6. CASE TurnIsOver
  BY <1>6 DEF TurnIsOver, LoopGoes, Inv, Tickets, Over, Busy
<1>7. CASE DrainTakes
  <2>1. posts # <<>> /\ job' = Head(posts) /\ posts' = Tail(posts) /\ loop' = "job"
    BY <1>7 DEF DrainTakes
  <2>2. /\ posts' \in Seq(Nat) /\ job' \in Nat /\ job' = posts[1]
        /\ Len(posts) \in Nat /\ Len(posts) > 0 /\ DOMAIN posts = 1..Len(posts)
        /\ DOMAIN posts' = 1..(Len(posts) - 1)
        /\ \A i \in 1..(Len(posts) - 1) : posts'[i] = posts[i + 1]
    BY <2>1, Dequeued DEF Inv, Typed
  <2>3. 1 \in DOMAIN posts
    BY <2>2
  <2>4. \A i \in DOMAIN posts' : i + 1 \in DOMAIN posts /\ posts'[i] = posts[i + 1]
    BY <2>2
  <2>5. \A i \in DOMAIN posts' : posts[1] < posts'[i]
    <3> SUFFICES ASSUME NEW i \in DOMAIN posts' PROVE posts[1] < posts'[i]
      OBVIOUS
    <3>1. 1 < i + 1
      BY <2>2
    <3> QED  BY <2>3, <2>4, <3>1 DEF Inv, Tickets
  <2>6. \A i \in DOMAIN posts' : posts'[i] > 0 /\ posts'[i] <= jobs
    BY <2>4 DEF Inv, Tickets
  <2>7. \A i, k \in DOMAIN posts' : i < k => posts'[i] < posts'[k]
    <3> SUFFICES ASSUME NEW i \in DOMAIN posts', NEW k \in DOMAIN posts', i < k
                 PROVE  posts'[i] < posts'[k]
      OBVIOUS
    <3>1. i \in Nat /\ k \in Nat /\ i + 1 < k + 1
      BY <2>2, SMTT(30)
    <3> QED  BY <2>4, <3>1 DEF Inv, Tickets
  <2> QED
    BY <1>7, <2>1, <2>2, <2>3, <2>5, <2>6, <2>7 DEF DrainTakes, Inv,
       Tickets, Busy
<1>8. CASE JobBegins
  BY <1>8 DEF JobBegins, LoopGoes, Inv, Tickets, Over, Busy
<1>9. CASE JobWorks
  BY <1>9 DEF JobWorks, Inv, Tickets, Over, Busy
<1>10. CASE JobIsAnswered
  BY <1>10 DEF JobIsAnswered, Inv, Tickets, Typed, Over, Busy
<1>11. CASE TurnLooksForHold
  BY <1>11 DEF TurnLooksForHold, Inv, Tickets, Over, Busy
<1>12. CASE TurnSays
  BY <1>12 DEF TurnSays, Inv, Tickets, Over, Busy
<1>13. CASE TurnIsHeld
  BY <1>13 DEF TurnIsHeld, Inv, Tickets, Over, Busy
<1>14. CASE TurnReadsClock
  BY <1>14 DEF TurnReadsClock, Inv, Tickets, Over, Busy
<1>15. CASE PumpFinishes
  BY <1>15 DEF PumpFinishes, Inv, Tickets, Over, Busy
<1>16. CASE PumpRepeats
  BY <1>16 DEF PumpRepeats, LoopGoes, Pumping, Inv, Tickets, Over, Busy
<1>17. CASE PumpShows
  BY <1>17 DEF PumpShows, Pumping, Inv, Tickets, Over, Busy
<1>18. CASE PumpFails
  BY <1>18 DEF PumpFails, Inv, Tickets, Over, Busy
<1>19. CASE AfterLooks
  BY <1>19 DEF AfterLooks, Inv, Tickets, Over, Busy
<1>20. CASE AfterArrives
  BY <1>20 DEF AfterArrives, LoopGoes, Inv, Tickets, Over, Busy
<1>21. CASE AfterLowers
  BY <1>21 DEF AfterLowers, Inv, Tickets, Over, Busy
<1>22. CASE AfterResumes
  BY <1>22 DEF AfterResumes, Inv, Tickets, Over, Busy
<1>23. CASE TurnCloses
  BY Emptied, <1>23 DEF TurnCloses, ClosePosts, Inv, Tickets, Over, Busy
<1>24. CASE LoopEnds
  BY <1>24 DEF LoopEnds, Inv, Tickets, Over, Busy
<1>25. CASE LoopLeaves
  BY <1>25 DEF LoopLeaves, Inv, Tickets, Over, Busy
<1>26. CASE UNCHANGED <<posts, jobs, abandoned, job, loop, closed>>
  BY <1>26 DEF Inv, Tickets
<1> QED
  BY <1>1, <1>2, <1>3, <1>4, <1>5, <1>6, <1>7, <1>8, <1>9, <1>10, <1>11,
     <1>12, <1>13, <1>14, <1>15, <1>16, <1>17, <1>18, <1>19, <1>20, <1>21,
     <1>22, <1>23, <1>24, <1>25, <1>26
  DEF Next, Calls, Open, CallStep, SeekStep, LoopStep, vars,
      Pause, Resume, Seek, Stop, SeekHolds, SeekIsNumbered, SeekAwaits,
      SeekWakes, SeekTimesOut, SeekMoves, SeekRewinds, SeekMovesClock,
      SeekFlags, SeekReleases, TellIsAnswered, TellTimesOut, TellWorksHere,
      Retrack, PumpFeeds, PumpTakes, PumpDrops, Tick, Call, Running,
      Answered, ToldSo, Pumping

LEMMA AttendedStep == ASSUME Inv, [Next]_vars PROVE Attended'
<1> USE DEF file, graph, clock, hold, post, path, turn, seek, count, outcome
<1>1. CASE Start
  BY Emptied, <1>1 DEF Start, Inv, Attended
<1>2. CASE Tell
  <2>1. CASE Running /\ ~closed
    <3>1. posts' = Append(posts, jobs + 1) /\ jobs' = jobs + 1 /\ jobs + 1 \in Nat
      BY <1>2, <2>1 DEF Tell, Inv, Typed
    <3>2. /\ posts' \in Seq(Nat) /\ DOMAIN posts' = 1..(Len(posts) + 1)
          /\ DOMAIN posts = 1..Len(posts) /\ Len(posts) \in Nat
          /\ \A i \in 1..Len(posts) : posts'[i] = posts[i]
          /\ posts'[Len(posts) + 1] = jobs + 1
      BY <3>1, Queued DEF Inv, Typed
    <3> QED
      BY <1>2, <2>1, <3>1, <3>2 DEF Tell, Call, Inv, Attended, Typed,
         Telling, Tickets
  <2>2. CASE ~(Running /\ ~closed)
    <3>1. \A i \in DOMAIN posts : posts[i] \in abandoned
      BY <1>2 DEF Tell, Call, Inv, Attended, Telling
    <3>2. posts' = posts /\ abandoned' = abandoned /\ loop' = loop /\ job' = job
      BY <1>2, <2>2 DEF Tell
    <3>3. loop \notin {"working"} /\ (loop = "job" => job \in abandoned)
      BY <1>2 DEF Tell, Call, Inv, Attended, Telling
    <3>4. jobs' > 0 /\ jobs' \notin abandoned
      BY <1>2 DEF Tell, Inv, Typed, Tickets
    <3>5. caller' = "working" => loop \in Over
      BY <1>2 DEF Tell, Running, Over
    <3> QED  BY <3>1, <3>2, <3>3, <3>4, <3>5 DEF Attended
  <2> QED  BY <2>1, <2>2
<1>3. ASSUME NEW frame \in Targets, Seek(frame) PROVE Attended'
  BY <1>3 DEF Seek, Call, Inv, Attended, Telling
<1>4. ASSUME NEW then \in {"joining", "retracking"}, Stop(then) PROVE Attended'
  BY <1>4 DEF Stop, Call, Inv, Attended, Telling
<1>5. CASE SeekHolds
  BY <1>5 DEF SeekHolds, Inv, Attended, Telling
<1>6. CASE SeekIsNumbered
  BY <1>6 DEF SeekIsNumbered, Inv, Attended, Telling
<1>7. CASE SeekAwaits
  BY <1>7 DEF SeekAwaits, Inv, Attended, Telling
<1>8. CASE SeekWakes
  BY <1>8 DEF SeekWakes, Inv, Attended, Telling
<1>9. CASE SeekTimesOut
  BY <1>9 DEF SeekTimesOut, Inv, Attended, Telling
<1>10. CASE SeekMoves
  BY <1>10 DEF SeekMoves, Inv, Attended, Telling
<1>11. CASE SeekRewinds
  BY <1>11 DEF SeekRewinds, Inv, Attended, Telling
<1>12. CASE SeekMovesClock
  BY <1>12 DEF SeekMovesClock, Inv, Attended, Telling
<1>13. CASE SeekFlags
  BY <1>13 DEF SeekFlags, Inv, Attended, Telling
<1>14. CASE SeekReleases
  BY <1>14 DEF SeekReleases, Inv, Attended, Telling
<1>15. CASE TellIsAnswered
  <2>1. CASE promise = "ran"
    BY <1>15, <2>1 DEF TellIsAnswered, Answered, ToldSo, Inv, Attended,
       Telling, Outcome
  <2>2. CASE promise = "closed"
    <3>1. posts = <<>> /\ loop \in Over
      BY <1>15, <2>2 DEF TellIsAnswered, Inv, Outcome, Telling, Tickets
    <3> QED
      BY <1>15, <2>2, <3>1, Emptied DEF TellIsAnswered, Answered, Inv,
         Attended, Over, Telling
  <2> QED  BY <1>15, <2>1, <2>2 DEF TellIsAnswered, Answered
<1>16. CASE TellTimesOut
  BY <1>16 DEF TellTimesOut, Inv, Attended, Telling
<1>17. CASE TellGivesUp
  <2>1. CASE promise = "ran"
    BY <1>17, <2>1 DEF TellGivesUp, Answered, ToldSo, Inv, Attended,
       Telling, Outcome
  <2>2. CASE promise = "closed"
    <3>1. posts = <<>> /\ loop \in Over
      BY <1>17, <2>2 DEF TellGivesUp, Inv, Outcome, Telling, Tickets
    <3> QED
      BY <1>17, <2>2, <3>1, Emptied DEF TellGivesUp, Answered, Inv,
         Attended, Over, Telling
  <2>3. CASE promise = "none"
    BY <1>17, <2>3 DEF TellGivesUp, Answered, ToldSo, TicketIsFree, Inv,
       Attended, Telling
  <2> QED  BY <1>17, <2>1, <2>2, <2>3 DEF TellGivesUp, Answered
<1>18. CASE TellWorksHere
  BY <1>18 DEF TellWorksHere, ToldSo, Inv, Attended, Telling
<1>19. CASE StopJoins
  BY Emptied, <1>19 DEF StopJoins, ClosePosts, Inv, Attended, Telling
<1>20. CASE Retrack
  BY <1>20 DEF Retrack, Inv, Attended, Telling
<1>21. CASE TurnWaits
  BY <1>21 DEF TurnWaits, LoopGoes, Inv, Attended, Over
<1>22. CASE TurnIsOver
  BY <1>22 DEF TurnIsOver, LoopGoes, Inv, Attended, Over
<1>23. CASE DrainTakes
  <2>1. posts # <<>> /\ job' = Head(posts) /\ posts' = Tail(posts) /\ loop' = "job"
    BY <1>23 DEF DrainTakes
  <2>2. /\ posts' \in Seq(Nat) /\ job' \in Nat /\ job' = posts[1]
        /\ Len(posts) \in Nat /\ Len(posts) > 0 /\ DOMAIN posts = 1..Len(posts)
        /\ DOMAIN posts' = 1..(Len(posts) - 1)
        /\ \A i \in 1..(Len(posts) - 1) : posts'[i] = posts[i + 1]
    BY <2>1, Dequeued DEF Inv, Typed
  <2>3. 1 \in DOMAIN posts
    BY <2>2
  <2>4. \A i \in DOMAIN posts' : i + 1 \in DOMAIN posts /\ posts'[i] = posts[i + 1]
    BY <2>2
  <2> QED  BY <1>23, <2>1, <2>2, <2>3, <2>4 DEF DrainTakes, Inv, Attended, Over
<1>24. CASE JobBegins
  BY <1>24 DEF JobBegins, LoopGoes, Inv, Attended, Over
<1>25. CASE JobWorks
  BY <1>25 DEF JobWorks, Inv, Attended, Telling
<1>26. CASE JobIsAnswered
  <2>1. \A i \in DOMAIN posts : posts[i] # job
    BY <1>26 DEF JobIsAnswered, Inv, Typed, Tickets
  <2>2. /\ posts' = posts /\ caller' = caller /\ jobs' = jobs
        /\ loop' = "drain" /\ abandoned' = abandoned \ {job}
    BY <1>26 DEF JobIsAnswered
  <2>3. caller # "working"
    BY <1>26 DEF JobIsAnswered, Inv, Attended, Over
  <2> QED  BY <2>1, <2>2, <2>3 DEF Inv, Attended
<1>27. CASE TurnLooksForHold
  BY <1>27 DEF TurnLooksForHold, Inv, Attended, Over
<1>28. CASE TurnSays
  BY <1>28 DEF TurnSays, Inv, Attended, Over
<1>29. CASE TurnIsHeld
  BY <1>29 DEF TurnIsHeld, Inv, Attended, Over
<1>30. CASE TurnReadsClock
  BY <1>30 DEF TurnReadsClock, Inv, Attended, Over
<1>31. CASE PumpFinishes
  BY <1>31 DEF PumpFinishes, Inv, Attended, Over
<1>32. CASE PumpRepeats
  BY <1>32 DEF PumpRepeats, LoopGoes, Pumping, Inv, Attended, Over
<1>33. CASE PumpShows
  BY <1>33 DEF PumpShows, Pumping, Inv, Attended, Over
<1>34. CASE PumpFails
  BY <1>34 DEF PumpFails, Inv, Attended, Over
<1>35. CASE AfterLooks
  BY <1>35 DEF AfterLooks, Inv, Attended, Over
<1>36. CASE AfterArrives
  BY <1>36 DEF AfterArrives, LoopGoes, Inv, Attended, Over
<1>37. CASE AfterLowers
  BY <1>37 DEF AfterLowers, Inv, Attended, Over
<1>38. CASE AfterResumes
  BY <1>38 DEF AfterResumes, Inv, Attended, Over
<1>39. CASE TurnCloses
  BY Emptied, <1>39 DEF TurnCloses, ClosePosts, Inv, Attended, Over
<1>40. CASE LoopEnds
  BY <1>40 DEF LoopEnds, Inv, Attended, Over
<1>41. CASE LoopLeaves
  BY <1>41 DEF LoopLeaves, Inv, Attended, Over
<1>42. CASE UNCHANGED <<posts, abandoned, jobs, caller, loop, job>>
  BY <1>42 DEF Inv, Attended
<1> QED
  BY <1>1, <1>2, <1>3, <1>4, <1>5, <1>6, <1>7, <1>8, <1>9, <1>10, <1>11,
     <1>12, <1>13, <1>14, <1>15, <1>16, <1>17, <1>18, <1>19, <1>20, <1>21,
     <1>22, <1>23, <1>24, <1>25, <1>26, <1>27, <1>28, <1>29, <1>30, <1>31,
     <1>32, <1>33, <1>34, <1>35, <1>36, <1>37, <1>38, <1>39, <1>40, <1>41,
     <1>42
  DEF Next, Calls, Open, CallStep, SeekStep, LoopStep, vars,
      Pause, Resume, PumpFeeds, PumpTakes, PumpDrops, Tick, Call, Running,
      Pumping

LEMMA OutcomeStep == ASSUME Inv, [Next]_vars PROVE Outcome'
<1> USE DEF file, graph, clock, hold, post, path, turn, seek, count, outcome
<1>1. CASE Start
  BY Emptied, <1>1 DEF Start, Inv, Outcome, Telling
<1>2. CASE Tell
  <2>1. CASE Running /\ ~closed
    <3>1. posts' = Append(posts, jobs + 1) /\ jobs' = jobs + 1 /\ jobs + 1 \in Nat
      BY <1>2, <2>1 DEF Tell, Inv, Typed
    <3>2. /\ posts' \in Seq(Nat) /\ DOMAIN posts' = 1..(Len(posts) + 1)
          /\ DOMAIN posts = 1..Len(posts) /\ Len(posts) \in Nat
          /\ \A i \in 1..Len(posts) : posts'[i] = posts[i]
          /\ posts'[Len(posts) + 1] = jobs + 1
      BY <3>1, Queued DEF Inv, Typed
    <3> QED  BY <1>2, <2>1, <3>1, <3>2 DEF Tell, Inv, Outcome, Typed, Tickets
  <2>2. CASE ~(Running /\ ~closed)
    BY <1>2, <2>2 DEF Tell, Inv, Outcome, Over, Telling, Tickets
  <2> QED  BY <2>1, <2>2
<1>3. ASSUME NEW frame \in Targets, Seek(frame) PROVE Outcome'
  BY <1>3 DEF Seek, Inv, Outcome, Telling
<1>4. ASSUME NEW then \in {"joining", "retracking"}, Stop(then) PROVE Outcome'
  BY <1>4 DEF Stop, Inv, Outcome, Telling
<1>5. CASE SeekHolds
  BY <1>5 DEF SeekHolds, Inv, Outcome, Telling
<1>6. CASE SeekIsNumbered
  BY <1>6 DEF SeekIsNumbered, Inv, Outcome, Telling
<1>7. CASE SeekAwaits
  BY <1>7 DEF SeekAwaits, Inv, Outcome, Telling
<1>8. CASE SeekWakes
  BY <1>8 DEF SeekWakes, Inv, Outcome, Telling
<1>9. CASE SeekTimesOut
  BY <1>9 DEF SeekTimesOut, Inv, Outcome, Telling
<1>10. CASE SeekMoves
  BY <1>10 DEF SeekMoves, Inv, Outcome, Telling
<1>11. CASE SeekRewinds
  BY <1>11 DEF SeekRewinds, Inv, Outcome, Telling
<1>12. CASE SeekMovesClock
  BY <1>12 DEF SeekMovesClock, Inv, Outcome, Telling
<1>13. CASE SeekFlags
  BY <1>13 DEF SeekFlags, Inv, Outcome, Telling
<1>14. CASE SeekReleases
  BY <1>14 DEF SeekReleases, Inv, Outcome, Telling
<1>15. CASE TellIsAnswered
  BY <1>15 DEF TellIsAnswered, Answered, ToldSo, Inv, Outcome, Over,
     Telling, Tickets
<1>16. CASE TellTimesOut
  BY <1>16 DEF TellTimesOut, Inv, Outcome, Telling
<1>17. CASE TellGivesUp
  BY <1>17 DEF TellGivesUp, Answered, ToldSo, Inv, Outcome, Over, Telling,
     Tickets
<1>18. CASE TellWorksHere
  BY <1>18 DEF TellWorksHere, ToldSo, Inv, Outcome, Telling
<1>19. CASE StopJoins
  BY Emptied, <1>19 DEF StopJoins, ClosePosts, Inv, Outcome, Telling
<1>20. CASE Retrack
  BY <1>20 DEF Retrack, Inv, Outcome, Telling
<1>21. CASE TurnWaits
  BY <1>21 DEF TurnWaits, LoopGoes, Inv, Outcome
<1>22. CASE TurnIsOver
  BY <1>22 DEF TurnIsOver, LoopGoes, Inv, Outcome
<1>23. CASE DrainTakes
  <2>1. posts # <<>> /\ job' = Head(posts) /\ posts' = Tail(posts) /\ loop' = "job"
    BY <1>23 DEF DrainTakes
  <2>2. /\ posts' \in Seq(Nat) /\ job' \in Nat /\ job' = posts[1]
        /\ Len(posts) \in Nat /\ Len(posts) > 0 /\ DOMAIN posts = 1..Len(posts)
        /\ DOMAIN posts' = 1..(Len(posts) - 1)
        /\ \A i \in 1..(Len(posts) - 1) : posts'[i] = posts[i + 1]
    BY <2>1, Dequeued DEF Inv, Typed
  <2>3. 1 \in DOMAIN posts
    BY <2>2
  <2>4. \A i \in DOMAIN posts' : i + 1 \in DOMAIN posts /\ posts'[i] = posts[i + 1]
    BY <2>2
  <2> QED  BY <1>23, <2>1, <2>2, <2>3, <2>4 DEF DrainTakes, Inv, Outcome
<1>24. CASE JobBegins
  BY <1>24 DEF JobBegins, LoopGoes, Inv, Outcome, Attended
<1>25. CASE JobWorks
  <2>1. done = 0 /\ promise # "ran" /\ job = jobs /\ caller \in Telling
    BY <1>25 DEF JobWorks, Inv, Attended, Outcome
  <2>2. done' = 1 /\ loop' = "answer"
    BY <1>25, <2>1 DEF JobWorks
  <2> QED  BY <1>25, <2>1, <2>2 DEF JobWorks, Inv, Outcome, Telling
<1>26. CASE JobIsAnswered
  <2>1. job' = 0 /\ loop' = "drain" /\ done' = done /\ told' = told
    BY <1>26 DEF JobIsAnswered
  <2>2. caller' = caller /\ jobs' = jobs /\ posts' = posts /\ closed' = closed
    BY <1>26 DEF JobIsAnswered
  <2>3. caller \in Telling => jobs > 0 /\ jobs \in Nat
    BY DEF Inv, Typed, Attended
  <2>4. CASE job = jobs
    <3>1. \A i \in DOMAIN posts : posts[i] # jobs
      BY <1>26, <2>4 DEF JobIsAnswered, Inv, Typed, Tickets
    <3>2. promise' = "ran" /\ (caller \in Telling => done = 1)
      BY <1>26, <2>4 DEF JobIsAnswered, Inv, Outcome
    <3> QED  BY <2>1, <2>2, <2>3, <3>1, <3>2 DEF Inv, Outcome
  <2>5. CASE job # jobs
    <3>1. promise' = promise
      BY <1>26, <2>5 DEF JobIsAnswered
    <3> QED  BY <2>1, <2>2, <2>3, <2>5, <3>1 DEF Inv, Outcome
  <2> QED  BY <2>4, <2>5
<1>27. CASE TurnLooksForHold
  BY <1>27 DEF TurnLooksForHold, Inv, Outcome
<1>28. CASE TurnSays
  BY <1>28 DEF TurnSays, Inv, Outcome
<1>29. CASE TurnIsHeld
  BY <1>29 DEF TurnIsHeld, Inv, Outcome
<1>30. CASE TurnReadsClock
  BY <1>30 DEF TurnReadsClock, Inv, Outcome
<1>31. CASE PumpFinishes
  BY <1>31 DEF PumpFinishes, Inv, Outcome
<1>32. CASE PumpRepeats
  BY <1>32 DEF PumpRepeats, LoopGoes, Pumping, Inv, Outcome
<1>33. CASE PumpShows
  BY <1>33 DEF PumpShows, Pumping, Inv, Outcome
<1>34. CASE PumpFails
  BY <1>34 DEF PumpFails, Inv, Outcome
<1>35. CASE AfterLooks
  BY <1>35 DEF AfterLooks, Inv, Outcome
<1>36. CASE AfterArrives
  BY <1>36 DEF AfterArrives, LoopGoes, Inv, Outcome
<1>37. CASE AfterLowers
  BY <1>37 DEF AfterLowers, Inv, Outcome
<1>38. CASE AfterResumes
  BY <1>38 DEF AfterResumes, Inv, Outcome
<1>39. CASE TurnCloses
  <2>1. CASE jobs \in ToSet(posts)
    <3>1. \E i \in DOMAIN posts : posts[i] = jobs
      BY <2>1 DEF ToSet
    <3> QED
      BY <1>39, <2>1, <3>1, Emptied DEF TurnCloses, ClosePosts, Inv, Outcome
  <2>2. CASE jobs \notin ToSet(posts)
    BY <1>39, <2>2, Emptied DEF TurnCloses, ClosePosts, Inv, Outcome
  <2> QED  BY <2>1, <2>2
<1>40. CASE LoopEnds
  BY <1>40 DEF LoopEnds, Inv, Outcome
<1>41. CASE LoopLeaves
  BY <1>41 DEF LoopLeaves, Inv, Outcome
<1>42. CASE UNCHANGED <<caller, done, promise, loop, job, jobs, posts, closed, told>>
  BY <1>42 DEF Inv, Outcome
<1> QED
  BY <1>1, <1>2, <1>3, <1>4, <1>5, <1>6, <1>7, <1>8, <1>9, <1>10, <1>11,
     <1>12, <1>13, <1>14, <1>15, <1>16, <1>17, <1>18, <1>19, <1>20, <1>21,
     <1>22, <1>23, <1>24, <1>25, <1>26, <1>27, <1>28, <1>29, <1>30, <1>31,
     <1>32, <1>33, <1>34, <1>35, <1>36, <1>37, <1>38, <1>39, <1>40, <1>41,
     <1>42
  DEF Next, Calls, Open, CallStep, SeekStep, LoopStep, vars,
      Pause, Resume, PumpFeeds, PumpTakes, PumpDrops, Tick, Call, Running,
      Pumping

-----------------------------------------------------------------------------
(* The theorems. *)

LEMMA InvInit == Init => Inv
<1> SUFFICES ASSUME Init PROVE Inv
  OBVIOUS
<1>1. Typed
  BY Emptied DEF Init, Typed
<1>2. Parked
  BY DEF Init, Parked, Numbered
<1>3. Tickets
  BY Emptied DEF Init, Tickets, Busy
<1>4. Attended
  BY Emptied DEF Init, Attended, Telling
<1>5. Outcome
  BY DEF Init, Outcome
<1> QED  BY <1>1, <1>2, <1>3, <1>4, <1>5 DEF Inv

LEMMA InvStep == Inv /\ [Next]_vars => Inv'
BY TypedStep, ParkedStep, TicketsStep, AttendedStep, OutcomeStep DEF Inv

(* The inductive invariant of video_path.cpp and display.cpp holds in every  *)
(* reachable state.                                                          *)
THEOREM PathInvariant == Spec => []Inv
BY InvInit, InvStep, PTL DEF Spec

(* display.hpp:115-167, video_path.cpp:563-590: a seek and a setting have    *)
(* the loop to themselves, and what is shown tells of it.                    *)
THEOREM PathLoopIsTheirs == Spec => []LoopIsTheirs
<1>1. Inv => LoopIsTheirs
  <2> SUFFICES ASSUME Inv PROVE LoopIsTheirs
    OBVIOUS
  <2>1. NoMoveUnderAPump
    BY DEF Inv, Parked, NoMoveUnderAPump, Over, Numbered
  <2>2. WorkIsTheCallers
    BY DEF Inv, Attended, Outcome, WorkIsTheCallers, Over, Telling
  <2> QED  BY <2>1, <2>2 DEF LoopIsTheirs
<1> QED  BY <1>1, PathInvariant, PTL
-----------------------------------------------------------------------------
(* What the types need beside Inv: a call adds one to a counter, at most     *)
(* one, and only the seek that holds the loop counts as its holder.          *)

Counted ==
    /\ calls \in 0..MaxCalls /\ moves \in Nat /\ jobs <= calls /\ done <= 1
    /\ holders = IF caller \in Numbered \cup {"number"} THEN 1 ELSE 0
    /\ serial <= calls
    /\ caller \in {"hold", "number"} => serial < calls
    /\ moves <= calls
    /\ caller \in {"hold", "number", "await", "sleep", "move", "retracking",
                   "renewing"} => moves < calls
    /\ caller \notin Numbered => held = 0

Named ==
    /\ promise \in {"none", "ran", "closed"}
    /\ told \in {"none", "done", "nothing was changed"}
    /\ loop \in LoopLabels /\ caller \in CallerLabels
    /\ caller \in SeekLabels => target \in Targets

(* Where the decoder, what is in hand and what was shown are, while the file *)
(* was not moved under them.                                                 *)

(* The clock is at or past where the last seek goes, unless it is about to   *)
(* be moved there or the loop will decide about nothing more.                *)
ClockIsThere ==
    \/ time >= goal
    \/ caller \in {"rewind", "reclock"} /\ moved
    \/ cancelled /\ loop \in {"none", "wait", "closing", "ending", "leaving", "done"}

Renewed ==
    /\ caller \in SeekLabels => loop # "none"
    /\ caller \in {"joining", "retracking", "renewing"} => cancelled
    /\ caller = "renewing" => loop = "none"
    /\ loop = "none" /\ ~cancelled => goal = 0
    /\ caller \in {"rewind", "reclock"} /\ moved => goal = target

(* What the decoder holds back precedes where the file is, frame by frame. *)
Decoded ==
    /\ Len(inside) <= at
    /\ \A i \in DOMAIN inside : inside[i] = Frame(at - Len(inside) + i - 1)

Before(n) == \A i \in DOMAIN shown : shown[i].number < n

InHand ==
    /\ Before(at - Len(inside))
    /\ hand # Nothing =>
         /\ hand.move = moves /\ hand.number < at - Len(inside)
         /\ Before(hand.number)

Shown ==
    /\ \A i \in DOMAIN shown : shown[i].move = moves /\ shown[i].number >= goal
    /\ \A i, k \in DOMAIN shown : i < k => shown[i].number < shown[k].number

OfThisMove ==
    \/ caller = "rewind" /\ shown = <<>>
    \/ Decoded /\ InHand

There ==
    ~late =>
        /\ ClockIsThere /\ (loop = "pump" => seen >= goal)
        /\ OfThisMove /\ Shown

Types ==
    FileOK /\ GraphOK /\ FlagsOK /\ Counted /\ Named

Whole == Inv /\ Types /\ Renewed /\ There

-----------------------------------------------------------------------------
(* Numbers and sequences. *)

LEMMA LeastMember ==
    ASSUME NEW T \in SUBSET Nat, T # {}
    PROVE  \E m \in T : \A n \in T : m <= n
<1>1. \A m, n \in Nat : n < m => <<n, m>> \in OpToRel(<, Nat)
  BY SMT DEF OpToRel
<1>2. \E m \in T : \A n \in T : <<n, m>> \notin OpToRel(<, Nat)
  BY NatLessThanWellFounded, WFMin
<1>3. PICK R : /\ \A m, n \in Nat : n < m => <<n, m>> \in R
               /\ \E m \in T : \A n \in T : <<n, m>> \notin R
  BY <1>1, <1>2, Zenon
<1>4. PICK m \in T : \A n \in T : <<n, m>> \notin R
  BY <1>3, Zenon
<1>5. \A n \in T : ~(n < m)
  BY <1>3, <1>4, Zenon
<1> QED  BY <1>5

(* A demuxer that moves lands in the file, at or before the target. *)
LEMMA Landing ==
    ASSUME NEW n \in 0..Length
    PROVE  Max({k \in Syncs : k <= n}) \in 0..Length /\ Max({k \in Syncs : k <= n}) <= n
<1> DEFINE S == {k \in Syncs : k <= n}
           Left == {Length - k : k \in S}
<1>1. Length \in Nat /\ S \subseteq 0..Length /\ 0 \in S
  <2>1. Length \in Nat /\ Syncs \subseteq 0..Length /\ 0 \in Syncs
    BY PathAssumption
  <2>2. 0 <= n
    BY <2>1
  <2> QED  BY <2>1, <2>2
<1>2. Left \in SUBSET Nat /\ Left # {}
  BY <1>1
<1>3. PICK m \in Left : \A k \in Left : m <= k
  <2> HIDE DEF Left
  <2> QED  BY <1>2, LeastMember
<1>4. PICK k \in S : m = Length - k
  BY <1>3
<1>5. \A j \in S : Length - k <= Length - j
  BY <1>3, <1>4
<1>6. \A j \in S : k >= j
  BY <1>1, <1>5
<1>7. Max(S) \in S
  BY <1>6 DEF Max
<1> QED  BY <1>1, <1>7

LEMMA Pushed ==
    ASSUME NEW F, NEW q \in Seq(F), NEW x \in F
    PROVE  /\ Append(q, x) \in Seq(F) /\ Len(Append(q, x)) = Len(q) + 1
           /\ DOMAIN q = 1..Len(q) /\ Len(q) \in Nat
           /\ DOMAIN Append(q, x) = 1..(Len(q) + 1)
           /\ \A i \in 1..Len(q) : Append(q, x)[i] = q[i]
           /\ Append(q, x)[Len(q) + 1] = x
OBVIOUS

LEMMA Popped ==
    ASSUME NEW F, NEW q \in Seq(F), q # <<>>
    PROVE  /\ Tail(q) \in Seq(F) /\ Head(q) \in F /\ Head(q) = q[1]
           /\ Len(q) \in Nat /\ Len(q) > 0 /\ DOMAIN q = 1..Len(q)
           /\ Len(Tail(q)) = Len(q) - 1 /\ DOMAIN Tail(q) = 1..(Len(q) - 1)
           /\ \A i \in 1..(Len(q) - 1) : Tail(q)[i] = q[i + 1]
OBVIOUS

LEMMA NoFrames ==
    /\ <<>> \in Seq(Frames) /\ DOMAIN <<>> = {} /\ Len(<<>>) = 0
    /\ Nothing.number = -1 /\ Nothing.move = 0 /\ Nothing \notin Frames
<1>1. Nothing.number = -1 /\ Nothing.move = 0
  BY DEF Nothing, None
<1>2. Nothing \notin Frames
  BY <1>1 DEF Frames
<1> QED  BY <1>1, <1>2, EmptySeq

-----------------------------------------------------------------------------
(* The types, over every step. *)

(* What a track that was taken, or refused, leaves of the old one. *)
LEMMA Retracked ==
  ASSUME Retrack
  PROVE  /\ caller = "renewing" /\ caller' = "idle" /\ opened' \in BOOLEAN
         /\ at' = 0 /\ inside' = <<>> /\ hand' = Nothing /\ preroll' = None
         /\ cancelled' = FALSE /\ goal' = 0 /\ shown' = <<>> /\ late' = FALSE
         /\ moves' = moves + 1
         /\ UNCHANGED <<faults, clock, hold, post, resumeOnArrival, ended, loop, turn,
                        seek, calls, jobs, asked, crossed, outcome>>
<1>1. opened' \in BOOLEAN
  BY DEF Retrack
<1> QED  BY <1>1, Zenon DEF Retrack

(* Another picture is opened: of the variables only opened says so. *)
LEMMA Opened ==
  ASSUME Open
  PROVE  /\ opened' = TRUE /\ caller = "idle"
         /\ UNCHANGED <<file, graph, clock, hold, post, resumeOnArrival, ended, cancelled,
                        loop, turn, caller, seek, count, shown, outcome>>
BY Zenon DEF Open

LEMMA FileStep == ASSUME Whole, [Next]_vars PROVE FileOK'
<1> USE DEF file, graph, clock, hold, post, path, turn, seek, count, outcome
<1>0. Length \in Nat /\ Targets \subseteq 0..Length
  BY PathAssumption
<1>1. ASSUME NEW frame \in Targets, Seek(frame) PROVE FileOK'
  BY <1>1 DEF Seek, Whole, Types, FileOK
<1>2. CASE SeekMoves
  <2>1. target \in Targets /\ target \in 0..Length
    BY <1>0, <1>2 DEF SeekMoves, Whole, Types, Named, SeekLabels
  <2>2. Max({n \in Syncs : n <= target}) \in 0..Length
    BY <2>1, Landing
  <2>3. at' \in 0..Length /\ goal' \in Targets \cup {0}
    BY <1>2, <2>1, <2>2 DEF SeekMoves, Whole, Types, FileOK
  <2> QED  BY <1>2, <2>3 DEF SeekMoves, Whole, Types, FileOK
<1>3. CASE SeekMovesClock
  BY <1>0, <1>3 DEF SeekMovesClock, Whole, Types, FileOK, Named, SeekLabels
<1>4. CASE SeekReleases
  BY <1>4 DEF SeekReleases, Whole, Types, FileOK
<1>5. CASE Retrack
  BY <1>0, <1>5, Retracked DEF Whole, Types, FileOK
<1>6. CASE Start
  BY <1>0, <1>6 DEF Start, Whole, Types, FileOK
<1>7. CASE TurnReadsClock
  BY <1>7 DEF TurnReadsClock, Whole, Types, FileOK
<1>8. CASE AfterLooks
  BY <1>0, <1>8 DEF AfterLooks, Whole, Types, FileOK
<1>9. CASE PumpFeeds
  BY <1>0, <1>9 DEF PumpFeeds, Whole, Types, FileOK
<1>10. CASE Tick
  BY <1>0, <1>10, SMTT(30) DEF Tick, Whole, Types, FileOK
<1>11. CASE UNCHANGED <<faults, opened, at, target, goal, time, seen>>
  <2>1. FileOK
    BY DEF Whole, Types
  <2> QED  BY <1>11, <2>1, SMTT(30) DEF FileOK
<1>12. CASE Open
  <2>1. FileOK
    BY DEF Whole, Types
  <2> QED  BY <1>12, <2>1, Opened DEF FileOK
<1> QED
  BY <1>1, <1>2, <1>3, <1>4, <1>5, <1>6, <1>7, <1>8, <1>9, <1>10, <1>11, <1>12
  DEF Next, Calls, CallStep, SeekStep, LoopStep, vars, LoopGoes,
      Pause, Resume, Tell, Stop, SeekHolds, SeekIsNumbered, SeekAwaits, SeekWakes,
      SeekTimesOut, SeekRewinds, SeekFlags, TellIsAnswered, TellTimesOut,
      TellGivesUp, TellWorksHere, StopJoins, TurnWaits, TurnIsOver, DrainTakes,
      JobBegins, JobWorks, JobIsAnswered, TurnLooksForHold, TurnSays, TurnIsHeld,
      PumpTakes, PumpFinishes, PumpRepeats, PumpDrops, PumpShows, PumpFails,
      AfterArrives, AfterLowers, AfterResumes, TurnCloses, LoopEnds, LoopLeaves

LEMMA GraphStep == ASSUME Whole, [Next]_vars PROVE GraphOK'
<1> USE DEF file, graph, clock, hold, post, path, turn, seek, count, outcome
<1>0. /\ Length \in Nat /\ Delay \in Nat /\ MaxCalls \in Nat
      /\ inside \in Seq(Frames) /\ shown \in Seq(Frames) /\ Len(inside) <= Delay + 1
      /\ hand \in Frames \cup {Nothing} /\ preroll \in Targets \cup {None}
  BY PathAssumption DEF Whole, Types, GraphOK
<1>1. CASE PumpFeeds
  <2>1. CASE at < Length
    <3>1. at \in 0..(Length - 1) /\ moves \in 0..(2 * MaxCalls)
      BY <1>0, <2>1 DEF Whole, Types, FileOK, Counted
    <3>2. Frame(at) \in Frames
      BY <3>1 DEF Frame, Frames
    <3>3. inside' = Append(inside, Frame(at)) /\ Len(inside) <= Delay
      BY <1>1, <2>1 DEF PumpFeeds
    <3>4. inside' \in Seq(Frames) /\ Len(inside') = Len(inside) + 1 /\ Len(inside) \in Nat
      BY <1>0, <3>2, <3>3, Pushed
    <3>5. Len(inside') <= Delay + 1
      BY <1>0, <3>3, <3>4
    <3>6. UNCHANGED <<hand, preroll, shown>>
      BY <1>1 DEF PumpFeeds
    <3> QED  BY <1>0, <3>4, <3>5, <3>6 DEF GraphOK
  <2>2. CASE ~(at < Length)
    BY <1>0, <1>1, <2>2 DEF PumpFeeds, GraphOK
  <2> QED  BY <2>1, <2>2
<1>2. CASE PumpTakes
  <2>1. inside # <<>>
    BY <1>0, <1>2, NoFrames DEF PumpTakes
  <2>2. /\ Tail(inside) \in Seq(Frames) /\ Head(inside) \in Frames
        /\ Len(Tail(inside)) = Len(inside) - 1 /\ Len(inside) \in Nat
    BY <1>0, <2>1, Popped
  <2>3. /\ inside' = Tail(inside) /\ hand' \in {hand, Head(inside)}
        /\ preroll' \in {preroll, None} /\ shown' = shown
    BY <1>2 DEF PumpTakes
  <2>4. Len(inside') <= Delay + 1
    BY <1>0, <2>2, <2>3
  <2> QED  BY <1>0, <2>2, <2>3, <2>4 DEF GraphOK
<1>3. CASE PumpDrops
  BY <1>0, <1>3 DEF PumpDrops, GraphOK
<1>4. CASE PumpShows
  <2>1. hand \in Frames
    BY <1>0, <1>4 DEF PumpShows
  <2>2. shown' = Append(shown, hand) /\ hand' = Nothing /\ UNCHANGED <<inside, preroll>>
    BY <1>4 DEF PumpShows
  <2>3. shown' \in Seq(Frames)
    BY <1>0, <2>1, <2>2, Pushed
  <2> QED  BY <1>0, <2>2, <2>3 DEF GraphOK
<1>5. CASE SeekRewinds
  <2>1. target \in Targets
    BY <1>5 DEF SeekRewinds, Whole, Types, Named, SeekLabels
  <2> QED  BY <1>0, <1>5, <2>1, NoFrames DEF SeekRewinds, GraphOK
<1>6. CASE SeekMoves
  BY <1>0, <1>6, NoFrames DEF SeekMoves, GraphOK
<1>7. CASE Retrack
  BY <1>0, <1>7, Retracked, NoFrames, SMTT(30) DEF GraphOK
<1>8. CASE UNCHANGED <<inside, hand, preroll, shown>>
  BY <1>0, <1>8 DEF GraphOK
<1> QED
  BY <1>1, <1>2, <1>3, <1>4, <1>5, <1>6, <1>7, <1>8
  DEF Next, Calls, Open, CallStep, SeekStep, LoopStep, vars, LoopGoes,
      Start, Pause, Resume, Seek, Tell, Stop, SeekHolds, SeekIsNumbered, SeekAwaits,
      SeekWakes, SeekTimesOut, SeekMovesClock, SeekFlags, SeekReleases,
      TellIsAnswered, TellTimesOut, TellGivesUp, TellWorksHere, StopJoins,
      TurnWaits, TurnIsOver, DrainTakes, JobBegins, JobWorks, JobIsAnswered,
      TurnLooksForHold, TurnSays, TurnIsHeld, TurnReadsClock, PumpFinishes,
      PumpRepeats, PumpFails, AfterLooks, AfterArrives, AfterLowers,
      AfterResumes, TurnCloses, LoopEnds, LoopLeaves, Tick

LEMMA FlagsStep == ASSUME Whole, [Next]_vars PROVE FlagsOK'
<1> USE DEF file, graph, clock, hold, post, path, turn, seek, count, outcome
<1>0. FlagsOK
  BY DEF Whole, Types
<1>1. CASE Start
  BY <1>0, <1>1 DEF Start, FlagsOK, Wishes
<1>2. CASE Pause \/ Resume
  <2>1. CASE Pause
    <3>1. /\ paused' = TRUE /\ asked' \in Wishes /\ fresh' = FALSE
          /\ UNCHANGED <<error, drained, finished, closed, resumeOnArrival, ended, cancelled,
                         sawHold, wasPaused, moved, late, crossed, turned>>
      BY <2>1 DEF Pause, Wishes
    <3>2. /\ error' \in BOOLEAN /\ drained' \in BOOLEAN /\ finished' \in BOOLEAN
          /\ paused' \in BOOLEAN /\ closed' \in BOOLEAN /\ resumeOnArrival' \in BOOLEAN
      BY <1>0, <3>1 DEF FlagsOK
    <3>3. /\ ended' \in BOOLEAN /\ cancelled' \in BOOLEAN /\ sawHold' \in BOOLEAN
          /\ wasPaused' \in BOOLEAN /\ moved' \in BOOLEAN /\ asked' \in Wishes
      BY <1>0, <3>1 DEF FlagsOK
    <3>4. /\ fresh' \in BOOLEAN /\ late' \in BOOLEAN /\ crossed' \in BOOLEAN
          /\ turned' \in BOOLEAN
      BY <1>0, <3>1 DEF FlagsOK
    <3> QED  BY <3>2, <3>3, <3>4 DEF FlagsOK
  <2>2. CASE Resume
    <3>1. /\ paused' = FALSE /\ asked' = "no" /\ fresh' = FALSE /\ crossed' = FALSE
          /\ UNCHANGED <<error, drained, finished, closed, resumeOnArrival, ended, cancelled,
                         sawHold, wasPaused, moved, late, turned>>
      BY <2>2 DEF Resume
    <3>2. /\ error' \in BOOLEAN /\ drained' \in BOOLEAN /\ finished' \in BOOLEAN
          /\ paused' \in BOOLEAN /\ closed' \in BOOLEAN /\ resumeOnArrival' \in BOOLEAN
      BY <1>0, <3>1 DEF FlagsOK
    <3>3. /\ ended' \in BOOLEAN /\ cancelled' \in BOOLEAN /\ sawHold' \in BOOLEAN
          /\ wasPaused' \in BOOLEAN /\ moved' \in BOOLEAN /\ asked' \in Wishes
      BY <1>0, <3>1 DEF FlagsOK, Wishes
    <3>4. /\ fresh' \in BOOLEAN /\ late' \in BOOLEAN /\ crossed' \in BOOLEAN
          /\ turned' \in BOOLEAN
      BY <1>0, <3>1 DEF FlagsOK
    <3> QED  BY <3>2, <3>3, <3>4 DEF FlagsOK
  <2> QED  BY <1>2, <2>1, <2>2
<1>3. ASSUME NEW frame \in Targets, Seek(frame) PROVE FlagsOK'
  <2>1. crossed' \in BOOLEAN
    BY <1>3, Zenon DEF Seek
  <2>2. /\ wasPaused' = paused /\ paused' = TRUE /\ fresh' = FALSE
        /\ UNCHANGED <<error, drained, finished, closed, resumeOnArrival, ended,
                       cancelled, sawHold, moved, asked, late, turned>>
    BY <1>3 DEF Seek
  <2>3. wasPaused' \in BOOLEAN
    BY <1>0, <2>2 DEF FlagsOK
  <2>4. /\ error' \in BOOLEAN /\ drained' \in BOOLEAN /\ finished' \in BOOLEAN
        /\ closed' \in BOOLEAN /\ resumeOnArrival' \in BOOLEAN /\ ended' \in BOOLEAN
        /\ cancelled' \in BOOLEAN /\ sawHold' \in BOOLEAN
    BY <1>0, <2>2 DEF FlagsOK
  <2>5. /\ moved' \in BOOLEAN /\ asked' \in Wishes /\ late' \in BOOLEAN
        /\ turned' \in BOOLEAN /\ paused' \in BOOLEAN /\ fresh' \in BOOLEAN
    BY <1>0, <2>2 DEF FlagsOK
  <2> QED  BY <2>1, <2>3, <2>4, <2>5 DEF FlagsOK
<1>4. ASSUME NEW then \in {"joining", "retracking"}, Stop(then) PROVE FlagsOK'
  BY <1>0, <1>4 DEF Stop, FlagsOK
<1>5. CASE SeekWakes \/ SeekTimesOut
  <2>1. CASE SeekWakes
    <3>1. /\ turned' \in BOOLEAN
          /\ UNCHANGED <<error, drained, finished, paused, closed,
                         resumeOnArrival, ended, cancelled, sawHold, wasPaused,
                         moved, asked, fresh, late, crossed>>
      BY <1>0, <2>1 DEF SeekWakes, FlagsOK
    <3> QED  BY <1>0, <3>1 DEF FlagsOK
  <2>2. CASE SeekTimesOut
    <3>1. /\ late' \in BOOLEAN
          /\ UNCHANGED <<error, drained, finished, paused, closed,
                         resumeOnArrival, ended, cancelled, sawHold, wasPaused,
                         moved, asked, fresh, crossed, turned>>
      BY <1>0, <2>2 DEF SeekTimesOut, FlagsOK
    <3> QED  BY <1>0, <3>1 DEF FlagsOK
  <2> QED  BY <1>5, <2>1, <2>2
<1>6. CASE SeekMoves
  <2>1. fresh' \in BOOLEAN
    <3>1. fresh' = fresh \/ fresh' = (~late /\ ~crossed)
      BY <1>6, Zenon DEF SeekMoves
    <3> QED  BY <1>0, <3>1, Zenon DEF FlagsOK
  <2>2. moved' \in BOOLEAN
    BY <1>6 DEF SeekMoves
  <2>3. UNCHANGED <<error, drained, finished, paused, closed, resumeOnArrival, ended,
                    cancelled, sawHold, wasPaused, asked, late, crossed, turned>>
    BY <1>6 DEF SeekMoves
  <2> QED  BY <1>0, <2>1, <2>2, <2>3 DEF FlagsOK
<1>7. CASE SeekRewinds
  <2>1. /\ drained' \in BOOLEAN /\ finished' \in BOOLEAN
        /\ UNCHANGED <<error, paused, closed, resumeOnArrival, ended,
                       cancelled, sawHold, wasPaused, moved, asked, fresh,
                       late, crossed, turned>>
    BY <1>0, <1>7 DEF SeekRewinds, FlagsOK
  <2> QED  BY <1>0, <2>1 DEF FlagsOK
<1>8. CASE SeekFlags
  BY <1>0, <1>8 DEF SeekFlags, FlagsOK
<1>9. CASE SeekReleases
  <2>1. /\ wasPaused' \in BOOLEAN /\ moved' \in BOOLEAN
        /\ UNCHANGED <<error, drained, finished, paused, closed,
                       resumeOnArrival, ended, cancelled, sawHold, asked,
                       fresh, late, crossed, turned>>
    BY <1>0, <1>9 DEF SeekReleases, FlagsOK
  <2> QED  BY <1>0, <2>1 DEF FlagsOK
<1>10. CASE StopJoins
  BY <1>0, <1>10 DEF StopJoins, ClosePosts, FlagsOK
<1>11. CASE Retrack
  BY <1>0, <1>11, ZenonT(40) DEF Retrack, FlagsOK
<1>12. CASE TurnLooksForHold
  BY <1>0, <1>12 DEF TurnLooksForHold, FlagsOK
<1>13. CASE TurnIsHeld \/ LoopLeaves \/ LoopEnds
  <2>1. CASE TurnIsHeld
    BY <1>0, <2>1 DEF TurnIsHeld, FlagsOK
  <2>2. CASE LoopLeaves
    BY <1>0, <2>2 DEF LoopLeaves, FlagsOK
  <2>3. CASE LoopEnds
    BY <1>0, <2>3 DEF LoopEnds, FlagsOK
  <2> QED  BY <1>13, <2>1, <2>2, <2>3
<1>14. CASE PumpFeeds \/ PumpFinishes \/ PumpFails
  <2>1. CASE PumpFeeds
    <3>1. /\ drained' \in BOOLEAN
          /\ UNCHANGED <<error, finished, paused, closed, resumeOnArrival,
                         ended, cancelled, sawHold, wasPaused, moved, asked,
                         fresh, late, crossed, turned>>
      BY <1>0, <2>1 DEF PumpFeeds, FlagsOK
    <3> QED  BY <1>0, <3>1 DEF FlagsOK
  <2>2. CASE PumpFinishes
    BY <1>0, <2>2 DEF PumpFinishes, FlagsOK
  <2>3. CASE PumpFails
    BY <1>0, <2>3 DEF PumpFails, FlagsOK
  <2> QED  BY <1>14, <2>1, <2>2, <2>3
<1>15. CASE AfterLooks \/ AfterLowers \/ AfterResumes
  <2>1. CASE AfterLooks
    <3>1. /\ sawHold' \in BOOLEAN
          /\ UNCHANGED <<error, drained, finished, paused, closed,
                         resumeOnArrival, ended, cancelled, wasPaused, moved,
                         asked, fresh, late, crossed, turned>>
      BY <1>0, <2>1 DEF AfterLooks, FlagsOK
    <3> QED  BY <1>0, <3>1 DEF FlagsOK
  <2>2. CASE AfterLowers
    <3>1. /\ resumeOnArrival' \in BOOLEAN
          /\ UNCHANGED <<error, drained, finished, paused, closed, ended,
                         cancelled, sawHold, wasPaused, moved, asked, fresh,
                         late, crossed, turned>>
      BY <1>0, <2>2 DEF AfterLowers, FlagsOK
    <3> QED  BY <1>0, <3>1 DEF FlagsOK
  <2>3. CASE AfterResumes
    <3>1. /\ paused' \in BOOLEAN
          /\ UNCHANGED <<error, drained, finished, closed, resumeOnArrival,
                         ended, cancelled, sawHold, wasPaused, moved, asked,
                         fresh, late, crossed, turned>>
      BY <1>0, <2>3 DEF AfterResumes, FlagsOK
    <3> QED  BY <1>0, <3>1 DEF FlagsOK
  <2> QED  BY <1>15, <2>1, <2>2, <2>3
<1>16. CASE TurnCloses
  BY <1>0, <1>16 DEF TurnCloses, ClosePosts, FlagsOK
<1>17. CASE UNCHANGED <<error, drained, finished, paused, closed, resumeOnArrival,
                         ended, cancelled, sawHold, wasPaused, moved, asked, fresh,
                         late, crossed, turned>>
  BY <1>0, <1>17 DEF FlagsOK
<1> QED
  BY <1>1, <1>2, <1>3, <1>4, <1>5, <1>6, <1>7, <1>8, <1>9, <1>10, <1>11, <1>12,
     <1>13, <1>14, <1>15, <1>16, <1>17
  DEF Next, Calls, Open, CallStep, SeekStep, LoopStep, vars, LoopGoes,
      Tell, SeekHolds, SeekIsNumbered, SeekAwaits, SeekMovesClock,
      TellIsAnswered, TellTimesOut, TellGivesUp, TellWorksHere,
      TurnWaits, TurnIsOver, DrainTakes, JobBegins, JobWorks, JobIsAnswered,
      TurnSays, TurnReadsClock, PumpTakes, PumpRepeats, PumpDrops, PumpShows,
      AfterArrives, Tick

LEMMA CountedStep == ASSUME Whole, [Next]_vars PROVE Counted'
<1> USE DEF file, graph, clock, hold, post, path, turn, seek, count, outcome
<1>0. /\ Counted /\ Typed /\ MaxCalls \in Nat
      /\ caller \in Numbered => held = serial
  BY PathAssumption DEF Whole, Types, Inv, Parked
<1>1. CASE Start
  BY <1>0, <1>1 DEF Start, Counted, Numbered
<1>2. CASE Pause
  <2>1. /\ calls < MaxCalls /\ calls' = calls + 1 /\ caller = "idle"
        /\ UNCHANGED <<moves, jobs, done, holders, caller, serial, held>>
    BY <1>2, Zenon DEF Pause, Call
  <2> QED  BY <1>0, <2>1 DEF Counted, Typed, Numbered
<1>18. CASE Resume
  BY <1>0, <1>18 DEF Resume, Call, Counted, Typed, Numbered
<1>3. CASE Tell
  BY <1>0, <1>3 DEF Tell, Call, Counted, Typed, Numbered
<1>4. ASSUME NEW frame \in Targets, Seek(frame) PROVE Counted'
  BY <1>0, <1>4 DEF Seek, Call, Counted, Typed, Numbered
<1>5. ASSUME NEW then \in {"joining", "retracking"}, Stop(then) PROVE Counted'
  BY <1>0, <1>5 DEF Stop, Call, Counted, Typed, Numbered
<1>6. CASE SeekHolds
  BY <1>0, <1>6 DEF SeekHolds, Counted, Typed, Numbered
<1>7. CASE SeekIsNumbered
  BY <1>0, <1>7 DEF SeekIsNumbered, Counted, Typed, Numbered
<1>8. CASE SeekAwaits \/ SeekWakes \/ SeekTimesOut
  BY <1>0, <1>8 DEF SeekAwaits, SeekWakes, SeekTimesOut, Counted, Numbered
<1>9. CASE SeekMoves
  <2>1. moves' \in {moves, moves + 1}
    BY <1>9 DEF SeekMoves
  <2> QED  BY <1>0, <1>9, <2>1 DEF SeekMoves, Counted, Numbered
<1>10. CASE SeekRewinds \/ SeekMovesClock \/ SeekFlags
  BY <1>0, <1>10 DEF SeekRewinds, SeekMovesClock, SeekFlags, Counted, Numbered
<1>11. CASE SeekReleases
  BY <1>0, <1>11 DEF SeekReleases, Counted, Numbered
<1>12. CASE TellIsAnswered \/ TellTimesOut \/ TellGivesUp
  BY <1>0, <1>12 DEF TellIsAnswered, TellTimesOut, TellGivesUp, Answered, ToldSo,
     Counted, Numbered
<1>13. CASE TellWorksHere
  <2>1. done = 0
    BY <1>13 DEF TellWorksHere, Whole, Inv, Outcome
  <2> QED  BY <1>0, <1>13, <2>1 DEF TellWorksHere, ToldSo, Counted, Numbered
<1>14. CASE StopJoins
  BY <1>0, <1>14 DEF StopJoins, ClosePosts, Counted, Numbered
<1>15. CASE Retrack
  BY <1>0, <1>15, Retracked DEF Counted, Numbered
<1>16. CASE JobWorks
  <2>1. done = 0
    BY <1>16 DEF JobWorks, Whole, Inv, Attended, Outcome
  <2> QED  BY <1>0, <1>16, <2>1 DEF JobWorks, Counted
<1>17. CASE UNCHANGED <<calls, moves, jobs, done, holders, serial, caller, held>>
  BY <1>0, <1>17 DEF Counted
<1> QED
  BY <1>1, <1>2, <1>3, <1>4, <1>5, <1>6, <1>7, <1>8, <1>9, <1>10, <1>11, <1>12,
     <1>13, <1>14, <1>15, <1>16, <1>17, <1>18
  DEF Next, Calls, Open, CallStep, SeekStep, LoopStep, vars, LoopGoes,
      TurnWaits, TurnIsOver, DrainTakes, JobBegins, JobIsAnswered,
      TurnLooksForHold, TurnSays, TurnIsHeld, TurnReadsClock, PumpFeeds,
      PumpTakes, PumpFinishes, PumpRepeats, PumpDrops, PumpShows, PumpFails,
      AfterLooks, AfterArrives, AfterLowers, AfterResumes, TurnCloses,
      LoopEnds, LoopLeaves, Tick

LEMMA NamedStep == ASSUME Whole, [Next]_vars PROVE Named'
<1> USE DEF file, graph, clock, hold, post, path, turn, seek, count, outcome
<1>0. Named
  BY DEF Whole, Types
<1>1. CASE Start \/ Pause \/ Resume \/ Tick
  BY <1>0, <1>1 DEF Start, Pause, Resume, Call, Tick, Named, LoopLabels
<1>2. CASE Tell
  BY <1>0, <1>2 DEF Tell, Named, CallerLabels, SeekLabels
<1>3. ASSUME NEW frame \in Targets, Seek(frame) PROVE Named'
  BY <1>0, <1>3 DEF Seek, Named, CallerLabels, SeekLabels
<1>4. ASSUME NEW then \in {"joining", "retracking"}, Stop(then) PROVE Named'
  BY <1>0, <1>4 DEF Stop, Named, CallerLabels, SeekLabels
<1>5. CASE SeekHolds \/ SeekIsNumbered \/ SeekAwaits \/ SeekWakes \/ SeekTimesOut
  BY <1>0, <1>5 DEF SeekHolds, SeekIsNumbered, SeekAwaits, SeekWakes, SeekTimesOut,
     Named, CallerLabels, SeekLabels
<1>6. CASE SeekMoves \/ SeekRewinds \/ SeekMovesClock \/ SeekFlags
  BY <1>0, <1>6 DEF SeekMoves, SeekRewinds, SeekMovesClock, SeekFlags,
     Named, CallerLabels, SeekLabels
<1>7. CASE SeekReleases
  BY <1>0, <1>7 DEF SeekReleases, Named, CallerLabels, SeekLabels
<1>8. CASE TellIsAnswered \/ TellTimesOut \/ TellGivesUp \/ TellWorksHere
  BY <1>0, <1>8 DEF TellIsAnswered, TellTimesOut, TellGivesUp, TellWorksHere,
     Answered, ToldSo, Named, CallerLabels, SeekLabels
<1>9. CASE StopJoins
  BY <1>0, <1>9 DEF StopJoins, ClosePosts, Named, LoopLabels, CallerLabels, SeekLabels
<1>10. CASE Retrack
  BY <1>0, <1>10 DEF Retrack, Named, CallerLabels, SeekLabels
<1>11. CASE JobIsAnswered
  BY <1>0, <1>11 DEF JobIsAnswered, Named, LoopLabels
<1>12. CASE TurnCloses
  BY <1>0, <1>12 DEF TurnCloses, ClosePosts, Named, LoopLabels
<1>13. CASE UNCHANGED <<promise, told, caller, target>> /\ loop' \in LoopLabels
  BY <1>0, <1>13 DEF Named
<1>14. CASE LoopStep
  <2> USE <1>0 DEF LoopGoes, Named, LoopLabels
  <2>1. CASE TurnWaits \/ TurnIsOver \/ DrainTakes \/ JobBegins \/ JobWorks
    BY <1>13, <2>1 DEF TurnWaits, TurnIsOver, DrainTakes, JobBegins, JobWorks
  <2>2. CASE TurnLooksForHold \/ TurnSays \/ TurnIsHeld \/ TurnReadsClock
    BY <1>13, <2>2 DEF TurnLooksForHold, TurnSays, TurnIsHeld, TurnReadsClock
  <2>3. CASE PumpFeeds \/ PumpTakes \/ PumpFinishes \/ PumpRepeats \/ PumpDrops
    BY <1>13, <2>3 DEF PumpFeeds, PumpTakes, PumpFinishes, PumpRepeats, PumpDrops
  <2>4. CASE PumpShows \/ PumpFails \/ AfterLooks \/ AfterArrives
    BY <1>13, <2>4 DEF PumpShows, PumpFails, AfterLooks, AfterArrives
  <2>5. CASE AfterLowers \/ AfterResumes \/ LoopEnds \/ LoopLeaves
    BY <1>13, <2>5 DEF AfterLowers, AfterResumes, LoopEnds, LoopLeaves
  <2> QED  BY <1>11, <1>12, <1>14, <2>1, <2>2, <2>3, <2>4, <2>5 DEF LoopStep
<1>15. CASE UNCHANGED vars
  BY <1>0, <1>15 DEF vars, Named
<1>16. CASE Open
  BY <1>0, <1>16, Opened DEF Named
<1> QED
  BY <1>1, <1>2, <1>3, <1>4, <1>5, <1>6, <1>7, <1>8, <1>9, <1>10, <1>14, <1>15, <1>16
  DEF Next, Calls, CallStep, SeekStep

LEMMA RenewedStep == ASSUME Whole, [Next]_vars PROVE Renewed'
<1> USE DEF file, graph, clock, hold, post, path, turn, seek, count, outcome
<1>0. Renewed
  BY DEF Whole
<1>1. CASE Start
  BY <1>0, <1>1 DEF Start, Renewed, SeekLabels
<1>2. CASE Tell
  BY <1>0, <1>2 DEF Tell, Call, Renewed, SeekLabels
<1>3. ASSUME NEW frame \in Targets, Seek(frame) PROVE Renewed'
  BY <1>0, <1>3 DEF Seek, Call, Running, Renewed
<1>4. ASSUME NEW then \in {"joining", "retracking"}, Stop(then) PROVE Renewed'
  BY <1>0, <1>4 DEF Stop, Call, Running, Renewed, SeekLabels
<1>5. CASE SeekHolds \/ SeekIsNumbered \/ SeekAwaits \/ SeekWakes \/ SeekTimesOut
  BY <1>0, <1>5 DEF SeekHolds, SeekIsNumbered, SeekAwaits, SeekWakes, SeekTimesOut,
     Renewed, SeekLabels
<1>6. CASE SeekMoves
  BY <1>0, <1>6 DEF SeekMoves, Renewed, SeekLabels
<1>7. CASE SeekRewinds \/ SeekMovesClock \/ SeekFlags \/ SeekReleases
  BY <1>0, <1>7 DEF SeekRewinds, SeekMovesClock, SeekFlags, SeekReleases, Renewed,
     SeekLabels
<1>8. CASE TellIsAnswered \/ TellTimesOut \/ TellGivesUp \/ TellWorksHere
  BY <1>0, <1>8 DEF TellIsAnswered, TellTimesOut, TellGivesUp, TellWorksHere,
     Answered, ToldSo, Renewed, SeekLabels
<1>9. CASE StopJoins
  BY <1>0, <1>9 DEF StopJoins, Renewed, SeekLabels
<1>10. CASE Retrack
  BY <1>0, <1>10 DEF Retrack, Renewed, SeekLabels
<1>11. CASE /\ UNCHANGED <<caller, moved, target, goal, cancelled>>
            /\ loop # "none" \/ loop' = loop
            /\ loop' # "none" \/ loop' = loop
  BY <1>0, <1>11 DEF Renewed
<1>12. CASE LoopStep
  <2> USE DEF LoopGoes
  <2>1. CASE TurnWaits \/ TurnIsOver \/ DrainTakes \/ JobBegins \/ JobWorks
    BY <1>11, <2>1 DEF TurnWaits, TurnIsOver, DrainTakes, JobBegins, JobWorks
  <2>2. CASE JobIsAnswered \/ TurnLooksForHold \/ TurnSays \/ TurnIsHeld
    BY <1>11, <2>2 DEF JobIsAnswered, TurnLooksForHold, TurnSays, TurnIsHeld
  <2>3. CASE TurnReadsClock \/ PumpFeeds \/ PumpTakes \/ PumpFinishes \/ PumpRepeats
    BY <1>11, <2>3 DEF TurnReadsClock, PumpFeeds, PumpTakes, PumpFinishes,
       PumpRepeats, Pumping
  <2>4. CASE PumpDrops \/ PumpShows \/ PumpFails \/ AfterLooks \/ AfterArrives
    BY <1>11, <2>4 DEF PumpDrops, PumpShows, PumpFails, AfterLooks, AfterArrives,
       Pumping
  <2>5. CASE AfterLowers \/ AfterResumes \/ TurnCloses \/ LoopEnds \/ LoopLeaves
    BY <1>11, <2>5 DEF AfterLowers, AfterResumes, TurnCloses, LoopEnds, LoopLeaves
  <2> QED  BY <1>12, <2>1, <2>2, <2>3, <2>4, <2>5 DEF LoopStep
<1>13. CASE Pause \/ Resume \/ Tick \/ UNCHANGED vars
  BY <1>11, <1>13 DEF Pause, Resume, Call, Tick, vars
<1>14. CASE Open
  BY <1>11, <1>14, Opened
<1> QED
  BY <1>1, <1>2, <1>3, <1>4, <1>5, <1>6, <1>7, <1>8, <1>9, <1>10, <1>12, <1>13, <1>14
  DEF Next, Calls, CallStep, SeekStep

-----------------------------------------------------------------------------
(* What is shown, over every step. *)

LEMMA LoopKeepsOff == ASSUME Whole PROVE NoMoveUnderAPump
BY DEF Whole, Inv, Parked, NoMoveUnderAPump, Over, Numbered

LEMMA FramesAre ==
    ASSUME Whole
    PROVE  /\ at \in Nat /\ Length \in Nat /\ moves \in Nat
           /\ target \in Nat /\ goal \in Nat /\ time \in Nat /\ seen \in Nat
           /\ inside \in Seq(Frames) /\ shown \in Seq(Frames)
           /\ hand \in Frames \cup {Nothing}
BY PathAssumption DEF Whole, Types, FileOK, GraphOK, Counted

Seeing == ~late => ClockIsThere /\ (loop = "pump" => seen >= goal)

LEMMA SeeingStep == ASSUME Whole, [Next]_vars PROVE Seeing'
<1> USE DEF file, graph, clock, hold, post, path, turn, seek, count, outcome
<1>0. /\ Seeing /\ Renewed /\ NoMoveUnderAPump
      /\ target \in Nat /\ goal \in Nat /\ time \in Nat /\ seen \in Nat
  BY LoopKeepsOff, FramesAre DEF Whole, There, Seeing
<1>1. CASE Start
  BY <1>0, <1>1 DEF Start, Running, Renewed, Seeing, ClockIsThere
<1>2. CASE Tell \/ Pause \/ Resume
  BY <1>0, <1>2 DEF Tell, Pause, Resume, Call, Seeing, ClockIsThere
<1>3. ASSUME NEW frame \in Targets, Seek(frame) PROVE Seeing'
  BY <1>0, <1>3 DEF Seek, Call, Seeing, ClockIsThere
<1>4. ASSUME NEW then \in {"joining", "retracking"}, Stop(then) PROVE Seeing'
  BY <1>0, <1>4 DEF Stop, Call, Seeing, ClockIsThere
<1>5. CASE SeekHolds \/ SeekIsNumbered \/ SeekAwaits \/ SeekWakes \/ SeekTimesOut
  BY <1>0, <1>5 DEF SeekHolds, SeekIsNumbered, SeekAwaits, SeekWakes, SeekTimesOut,
     Seeing, ClockIsThere
<1>6. CASE SeekMoves
  BY <1>0, <1>6 DEF SeekMoves, NoMoveUnderAPump, Seeing, ClockIsThere
<1>7. CASE SeekRewinds
  BY <1>0, <1>7 DEF SeekRewinds, Seeing, ClockIsThere
<1>8. CASE SeekMovesClock
  BY <1>0, <1>8 DEF SeekMovesClock, NoMoveUnderAPump, Renewed, Seeing, ClockIsThere
<1>9. CASE SeekFlags \/ SeekReleases
  BY <1>0, <1>9 DEF SeekFlags, SeekReleases, Seeing, ClockIsThere
<1>10. CASE TellIsAnswered \/ TellTimesOut \/ TellGivesUp \/ TellWorksHere
  BY <1>0, <1>10 DEF TellIsAnswered, TellTimesOut, TellGivesUp, TellWorksHere,
     Answered, ToldSo, Seeing, ClockIsThere
<1>11. CASE StopJoins
  BY <1>0, <1>11 DEF StopJoins, Seeing, ClockIsThere
<1>12. CASE Retrack
  BY <1>0, <1>12, Retracked DEF Renewed, Seeing, ClockIsThere
<1>13. CASE Tick
  BY <1>0, <1>13 DEF Tick, Seeing, ClockIsThere
<1>14. CASE TurnReadsClock
  BY <1>0, <1>14 DEF TurnReadsClock, NoMoveUnderAPump, Seeing, ClockIsThere
<1>15. CASE AfterLooks
  BY <1>0, <1>15 DEF AfterLooks, Seeing, ClockIsThere
<1>16. CASE /\ UNCHANGED <<caller, moved, goal, cancelled, time, seen, late>>
            /\ ~cancelled \/ loop' \in {"wait", "closing", "ending", "leaving", "done"}
               \/ loop \notin {"wait", "closing", "ending", "leaving", "done", "none"}
               \/ loop' = loop
            /\ loop' = "pump" => loop = "pump"
  BY <1>0, <1>16 DEF Seeing, ClockIsThere
<1>17. CASE LoopStep
  <2> USE DEF LoopGoes
  <2>1. CASE TurnWaits \/ TurnIsOver \/ DrainTakes \/ JobBegins \/ JobWorks
    BY <1>16, <2>1 DEF TurnWaits, TurnIsOver, DrainTakes, JobBegins, JobWorks
  <2>2. CASE JobIsAnswered \/ TurnLooksForHold \/ TurnSays \/ TurnIsHeld
    BY <1>16, <2>2 DEF JobIsAnswered, TurnLooksForHold, TurnSays, TurnIsHeld
  <2>3. CASE PumpFeeds \/ PumpTakes \/ PumpFinishes \/ PumpRepeats
    BY <1>16, <2>3 DEF PumpFeeds, PumpTakes, PumpFinishes, PumpRepeats, Pumping
  <2>4. CASE PumpDrops \/ PumpShows \/ PumpFails \/ AfterArrives
    BY <1>16, <2>4, SMTT(30) DEF PumpDrops, PumpShows, PumpFails, AfterArrives, Pumping
  <2>5. CASE AfterLowers \/ AfterResumes \/ TurnCloses \/ LoopEnds \/ LoopLeaves
    BY <1>16, <2>5, SMTT(30) DEF AfterLowers, AfterResumes, TurnCloses, LoopEnds, LoopLeaves
  <2> QED  BY <1>14, <1>15, <1>17, <2>1, <2>2, <2>3, <2>4, <2>5 DEF LoopStep
<1>18. CASE UNCHANGED vars
  BY <1>16, <1>18, SMTT(30) DEF vars
<1>19. CASE Open
  BY <1>16, <1>19, Opened, SMTT(30)
<1> QED
  BY <1>1, <1>2, <1>3, <1>4, <1>5, <1>6, <1>7, <1>8, <1>9, <1>10, <1>11, <1>12,
     <1>13, <1>17, <1>18, <1>19
  DEF Next, Calls, CallStep, SeekStep

Showing == ~late => OfThisMove /\ Shown

LEMMA ShowingStep == ASSUME Whole, [Next]_vars PROVE Showing'
<1> USE DEF file, graph, clock, hold, post, path, turn, seek, count, outcome
<1>0. /\ Seeing /\ Showing /\ Renewed /\ NoMoveUnderAPump
      /\ at \in Nat /\ moves \in Nat /\ goal \in Nat /\ seen \in Nat
      /\ inside \in Seq(Frames) /\ shown \in Seq(Frames)
      /\ hand \in Frames \cup {Nothing}
  BY LoopKeepsOff, FramesAre DEF Whole, There, Seeing, Showing
<1>1. /\ DOMAIN inside = 1..Len(inside) /\ DOMAIN shown = 1..Len(shown)
      /\ Len(inside) \in Nat /\ Len(shown) \in Nat
      /\ \A i \in DOMAIN shown : shown[i] \in Frames
  BY <1>0
<1>2. \A f \in Frames : f.number \in Nat
  BY PathAssumption DEF Frames
<1>3. ~late /\ loop = "pump" => Decoded /\ InHand /\ Shown /\ seen >= goal
  BY <1>0 DEF Seeing, Showing, OfThisMove, NoMoveUnderAPump
<1>4. CASE PumpFeeds
  <2> SUFFICES ASSUME ~late' PROVE OfThisMove' /\ Shown'
    BY DEF Showing
  <2>1. ~late /\ Decoded /\ InHand /\ Shown
    BY <1>3, <1>4 DEF PumpFeeds, Pumping
  <2>2. UNCHANGED <<hand, shown, moves, goal>>
    BY <1>4 DEF PumpFeeds
  <2>3. CASE at < Length
    <3>1. inside' = Append(inside, Frame(at)) /\ at' = at + 1
      BY <1>4, <2>3 DEF PumpFeeds
    <3> DEFINE F == Frames \cup {Frame(at)}
    <3>2. inside \in Seq(F) /\ Frame(at) \in F
      BY <1>0
    <3>3. /\ Len(inside') = Len(inside) + 1
          /\ DOMAIN inside' = 1..(Len(inside) + 1)
          /\ \A i \in 1..Len(inside) : inside'[i] = inside[i]
          /\ inside'[Len(inside) + 1] = Frame(at)
      BY <3>1, <3>2, Pushed
    <3>4. at' - Len(inside') = at - Len(inside)
      BY <1>0, <1>1, <3>1, <3>3
    <3>5. Decoded'
      <4>1. Len(inside') <= at'
        BY <1>0, <1>1, <2>1, <3>1, <3>3 DEF Decoded
      <4>2. ASSUME NEW i \in DOMAIN inside'
            PROVE  inside'[i] = Frame(at - Len(inside) + i - 1)
        <5>1. CASE i \in 1..Len(inside)
          BY <1>1, <2>1, <3>3, <5>1 DEF Decoded
        <5>2. CASE i = Len(inside) + 1
          <6>1. at - Len(inside) + i - 1 = at
            BY <1>0, <1>1, <5>2
          <6> QED  BY <3>3, <5>2, <6>1
        <5> QED  BY <1>1, <3>3, <5>1, <5>2
      <4> QED  BY <2>2, <3>4, <4>1, <4>2 DEF Decoded, Frame
    <3>6. InHand'
      BY <2>1, <2>2, <3>4 DEF InHand, Before
    <3> QED  BY <2>1, <2>2, <3>5, <3>6 DEF OfThisMove, Shown
  <2>4. CASE ~(at < Length)
    <3>1. UNCHANGED <<inside, at>>
      BY <1>4, <2>4 DEF PumpFeeds
    <3> QED
      BY <2>1, <2>2, <3>1 DEF OfThisMove, Decoded, Frame, InHand, Before, Shown
  <2> QED  BY <2>3, <2>4
<1>5. CASE PumpTakes
  <2> SUFFICES ASSUME ~late' PROVE OfThisMove' /\ Shown'
    BY DEF Showing
  <2>1. ~late /\ Decoded /\ InHand /\ Shown
    BY <1>3, <1>5 DEF PumpTakes, Pumping
  <2>2. /\ UNCHANGED <<at, shown, moves, goal>> /\ inside' = Tail(inside)
        /\ hand = Nothing /\ hand' \in {Nothing, Head(inside)}
    BY <1>5 DEF PumpTakes
  <2>3. inside # <<>>
    BY <1>5, NoFrames, PathAssumption DEF PumpTakes
  <2>4. /\ Len(inside) > 0 /\ Head(inside) = inside[1] /\ Head(inside) \in Frames
        /\ Len(inside') = Len(inside) - 1 /\ DOMAIN inside' = 1..(Len(inside) - 1)
        /\ \A i \in 1..(Len(inside) - 1) : inside'[i] = inside[i + 1]
    BY <1>0, <2>2, <2>3, Popped
  <2>5. at - Len(inside) \in Nat /\ at' - Len(inside') = at - Len(inside) + 1
    <3>1. Len(inside) <= at /\ at \in Nat /\ Len(inside) \in Nat
      BY <1>0, <1>1, <2>1 DEF Decoded
    <3>2. at' = at /\ Len(inside') = Len(inside) - 1
      BY <2>2, <2>4
    <3>3. at - (Len(inside) - 1) = at - Len(inside) + 1
      BY <3>1
    <3>4. at - Len(inside) \in Nat
      BY <3>1
    <3> QED  BY <3>2, <3>3, <3>4
  <2>6. Head(inside) = Frame(at - Len(inside))
    <3>1. 1 \in DOMAIN inside /\ at - Len(inside) + 1 - 1 = at - Len(inside)
      BY <1>0, <1>1, <2>4
    <3> QED  BY <2>1, <2>4, <3>1 DEF Decoded
  <2>7. Decoded'
    <3>1. Len(inside') <= at'
      BY <1>0, <1>1, <2>1, <2>2, <2>4 DEF Decoded
    <3>2. ASSUME NEW i \in DOMAIN inside'
          PROVE  inside'[i] = Frame(at' - Len(inside') + i - 1)
      <4>1. i \in 1..(Len(inside) - 1) /\ i + 1 \in DOMAIN inside
        BY <1>1, <2>4
      <4>2. at' - Len(inside') + i - 1 = at - Len(inside) + (i + 1) - 1
        BY <1>0, <1>1, <2>5, <4>1, SMTT(30)
      <4> QED  BY <2>1, <2>4, <4>1, <4>2 DEF Decoded
    <3> QED  BY <2>2, <3>1, <3>2 DEF Decoded, Frame
  <2>8. InHand'
    <3>1. Before(at - Len(inside))'
      <4>1. \A i \in DOMAIN shown : shown[i].number \in Nat
        BY <1>1, <1>2
      <4> QED  BY <2>1, <2>2, <2>5, <4>1 DEF InHand, Before
    <3>2. ASSUME hand' # Nothing'
          PROVE  /\ hand'.move = moves' /\ hand'.number < at' - Len(inside')
                 /\ Before(hand.number)'
      <4>1. hand' = Frame(at - Len(inside))
        BY <2>2, <2>6, <3>2 DEF Nothing
      <4>2. hand'.move = moves /\ hand'.number = at - Len(inside)
        BY <4>1 DEF Frame
      <4> QED  BY <2>1, <2>2, <2>5, <4>2 DEF InHand, Before
    <3> QED  BY <3>1, <3>2 DEF InHand
  <2> QED  BY <2>1, <2>2, <2>7, <2>8 DEF OfThisMove, Shown
<1>6. CASE PumpDrops
  BY <1>0, <1>3, <1>6 DEF PumpDrops, Pumping, Showing, OfThisMove, Decoded, Frame,
     InHand, Before, Shown, Nothing
<1>7. CASE PumpShows
  <2> SUFFICES ASSUME ~late' PROVE OfThisMove' /\ Shown'
    BY DEF Showing
  <2>1. ~late /\ Decoded /\ InHand /\ Shown /\ seen >= goal
    BY <1>3, <1>7 DEF PumpShows, Pumping
  <2>2. /\ UNCHANGED <<at, inside, moves, goal>>
        /\ hand \in Frames /\ hand # Nothing /\ hand.number = seen
        /\ shown' = Append(shown, hand) /\ hand' = Nothing
    BY <1>0, <1>7 DEF PumpShows
  <2>3. /\ DOMAIN shown' = 1..(Len(shown) + 1) /\ Len(shown) \in Nat
        /\ \A i \in 1..Len(shown) : shown'[i] = shown[i]
        /\ shown'[Len(shown) + 1] = hand
    BY <1>0, <2>2, Pushed
  <2>4. /\ hand.move = moves /\ hand.number < at - Len(inside) /\ hand.number >= goal
        /\ \A i \in 1..Len(shown) : shown[i].number < hand.number
    BY <1>1, <2>1, <2>2 DEF InHand, Before
  <2>5. \A i \in DOMAIN shown' : i \in DOMAIN shown \/ i = Len(shown) + 1
    BY <1>1, <2>3
  <2>6. Shown'
    <3>1. \A i \in DOMAIN shown' : shown'[i].move = moves /\ shown'[i].number >= goal
      BY <1>1, <2>1, <2>3, <2>4, <2>5 DEF Shown
    <3>2. ASSUME NEW i \in DOMAIN shown', NEW k \in DOMAIN shown', i < k
          PROVE  shown'[i].number < shown'[k].number
      <4>1. i \in 1..Len(shown)
        BY <2>3, <3>2
      <4>2. CASE k \in 1..Len(shown)
        BY <1>1, <2>1, <2>3, <3>2, <4>1, <4>2 DEF Shown
      <4>3. CASE k = Len(shown) + 1
        BY <2>3, <2>4, <4>1, <4>3
      <4> QED  BY <2>3, <4>2, <4>3
    <3> QED  BY <2>2, <3>1, <3>2 DEF Shown
  <2>7. Decoded'
    BY <2>1, <2>2 DEF Decoded, Frame
  <2>8. InHand'
    <3>1. \A i \in DOMAIN shown' : shown'[i].number < at - Len(inside)
      BY <1>1, <2>1, <2>3, <2>4, <2>5 DEF InHand, Before
    <3> QED  BY <2>2, <3>1 DEF InHand, Before, Nothing
  <2> QED  BY <2>6, <2>7, <2>8 DEF OfThisMove
<1>8. CASE SeekMoves
  <2>1. CASE shown' = <<>>
    BY <1>8, <2>1, NoFrames DEF SeekMoves, Showing, OfThisMove, Shown
  <2>2. CASE UNCHANGED <<at, moves, goal, shown>>
    BY <1>0, <1>8, <2>2 DEF SeekMoves, Showing, OfThisMove, Decoded, Frame, InHand,
       Before, Shown
  <2> QED  BY <1>8, <2>1, <2>2 DEF SeekMoves
<1>9. CASE SeekRewinds
  <2> SUFFICES ASSUME ~late' PROVE OfThisMove' /\ Shown'
    BY DEF Showing
  <2>1. /\ inside' = <<>> /\ hand' = Nothing /\ Shown /\ OfThisMove
        /\ UNCHANGED <<at, shown, moves, goal>>
    BY <1>0, <1>9 DEF SeekRewinds, Showing
  <2>2. Decoded'
    BY <1>0, <2>1, NoFrames DEF Decoded
  <2>3. \A i \in DOMAIN shown : shown[i].number < at
    <3>1. CASE shown = <<>>
      BY <3>1, NoFrames
    <3>2. CASE Decoded /\ InHand
      <4>1. at - Len(inside) <= at /\ at - Len(inside) \in Int
        BY <1>0, <1>1
      <4> QED  BY <1>0, <1>1, <1>2, <3>2, <4>1 DEF InHand, Before
    <3> QED  BY <2>1, <3>1, <3>2 DEF OfThisMove
  <2>4. at' - Len(inside') = at
    BY <1>0, <2>1, NoFrames
  <2> QED  BY <2>1, <2>2, <2>3, <2>4 DEF OfThisMove, InHand, Before, Shown, Nothing
<1>10. CASE Retrack
  <2>1. Decoded' /\ InHand' /\ Shown'
    BY <1>10, Retracked, NoFrames DEF Decoded, InHand, Before, Shown, Nothing
  <2> QED  BY <2>1 DEF Showing, OfThisMove
<1>11. CASE SeekTimesOut
  BY <1>11 DEF SeekTimesOut, Showing
<1>12. CASE /\ caller # "rewind" \/ caller' = caller
            /\ UNCHANGED <<at, inside, hand, shown, moves, goal, late>>
  BY <1>0, <1>12 DEF Showing, OfThisMove, Decoded, Frame, InHand, Before, Shown,
     Nothing
<1> QED
  BY <1>4, <1>5, <1>6, <1>7, <1>8, <1>9, <1>10, <1>11, <1>12
  DEF Next, Calls, Open, CallStep, SeekStep, LoopStep, vars, LoopGoes, Call,
      Start, Pause, Resume, Seek, Tell, Stop, SeekHolds, SeekIsNumbered, SeekAwaits,
      SeekWakes, SeekMovesClock, SeekFlags, SeekReleases,
      TellIsAnswered, TellTimesOut, TellGivesUp, TellWorksHere, StopJoins,
      TurnWaits, TurnIsOver, DrainTakes, JobBegins, JobWorks, JobIsAnswered,
      TurnLooksForHold, TurnSays, TurnIsHeld, TurnReadsClock, PumpFinishes,
      PumpRepeats, PumpFails, AfterLooks, AfterArrives, AfterLowers,
      AfterResumes, TurnCloses, LoopEnds, LoopLeaves, Tick

-----------------------------------------------------------------------------
(* The types and what is shown, of every behaviour. *)

LEMMA WholeInit == Init => Whole
<1> SUFFICES ASSUME Init PROVE Whole
  OBVIOUS
<1>1. /\ Length \in Nat \ {0} /\ Delay \in Nat /\ MaxCalls \in Nat
      /\ <<>> \in Seq(Frames) /\ DOMAIN <<>> = {} /\ Len(<<>>) = 0
  BY PathAssumption, NoFrames
<1>2. Inv
  BY InvInit
<1>3. FileOK
  BY <1>1 DEF Init, FileOK
<1>4. GraphOK
  BY <1>1 DEF Init, FreshGraph, GraphOK
<1>5. FlagsOK
  BY DEF Init, FreshGraph, FlagsOK, Wishes
<1>6. Counted
  BY <1>1 DEF Init, Counted, Numbered
<1>7. Named
  BY DEF Init, Named, LoopLabels, CallerLabels, SeekLabels
<1>8. Renewed
  BY DEF Init, Renewed, SeekLabels
<1>9. There
  BY <1>1 DEF Init, FreshGraph, There, ClockIsThere, OfThisMove, Decoded, InHand,
     Before, Shown
<1> QED  BY <1>2, <1>3, <1>4, <1>5, <1>6, <1>7, <1>8, <1>9 DEF Whole, Types

LEMMA WholeStep == Whole /\ [Next]_vars => Whole'
<1> SUFFICES ASSUME Whole, [Next]_vars PROVE Whole'
  OBVIOUS
<1>1. Inv'
  BY InvStep DEF Whole
<1>2. Types'
  BY FileStep, GraphStep, FlagsStep, CountedStep, NamedStep DEF Types
<1>3. Renewed'
  BY RenewedStep
<1>4. There'
  BY SeeingStep, ShowingStep DEF Seeing, Showing, There
<1> QED  BY <1>1, <1>2, <1>3, <1>4 DEF Whole

LEMMA WholeAlways == Spec => []Whole
BY WholeInit, WholeStep, PTL DEF Spec

(* The variables of video_path.cpp, display.cpp and video.cpp keep their     *)
(* types, in every reachable state: the decoder holds one frame more than it *)
(* must at most, one seek holds the loop, a job is done once.                *)
THEOREM PathTyped == Spec => []TypeOK
<1>1. Whole => TypeOK
  <2> SUFFICES ASSUME Whole PROVE TypeOK
    OBVIOUS
  <2>0. MaxCalls \in Nat
    BY PathAssumption
  <2>1. FileOK /\ GraphOK /\ FlagsOK /\ loop \in LoopLabels /\ caller \in CallerLabels
    BY DEF Whole, Types, Named
  <2>2. HoldOK
    <3>1. holders \in 0..1 /\ calls \in 0..MaxCalls /\ moves \in 0..(2 * MaxCalls)
      BY <2>0 DEF Whole, Types, Counted
    <3>2. serial \in 0..MaxCalls
      BY <2>0 DEF Whole, Types, Counted, Inv, Typed
    <3>3. parkedSerial \in 0..MaxCalls /\ held \in 0..MaxCalls
      BY <2>0, <3>2 DEF Whole, Types, Counted, Inv, Typed, Parked
    <3> QED  BY <3>1, <3>2, <3>3 DEF HoldOK
  <2>3. PostOK
    <3>1. jobs \in 0..MaxCalls /\ done \in 0..1
      BY <2>0 DEF Whole, Types, Counted, Inv, Typed
    <3>2. job \in 0..MaxCalls
      BY <2>0, <3>1 DEF Whole, Inv, Typed, Tickets
    <3>3. abandoned \subseteq Jobs
      BY <2>0, <3>1 DEF Whole, Inv, Typed, Tickets, Jobs
    <3>4. posts \in Seq(Jobs)
      <4>1. \A i \in 1..Len(posts) : posts[i] \in Jobs
        BY <2>0, <3>1 DEF Whole, Inv, Typed, Tickets, Jobs
      <4>2. Len(posts) \in Nat /\ posts = [i \in 1..Len(posts) |-> posts[i]]
        BY DEF Whole, Inv, Typed
      <4> QED  BY <4>1, <4>2, IsASeq
    <3> QED  BY <3>1, <3>2, <3>3, <3>4 DEF PostOK, Whole, Types, Named
  <2> QED  BY <2>1, <2>2, <2>3 DEF TypeOK
<1> QED  BY <1>1, WholeAlways, PTL

(* video.hpp:200-228: what is shown after a move is of the place the file    *)
(* was moved to, at or past the target, each frame after the one before.     *)
THEOREM PathShowsWhereItIs == Spec => []ShowsWhereItIs
<1>1. Whole => ShowsWhereItIs
  BY DEF Whole, There, Shown, ShowsWhereItIs
<1> QED  BY <1>1, WholeAlways, PTL

-----------------------------------------------------------------------------
(* The pre-roll of a seek that crossed no other: until its first frame was   *)
(* shown the clock stands at the target, and the decoder has yet to give the *)
(* target's frame or just gave it to a turn that saw the clock there.        *)

BeforeMove == {"hold", "number", "await", "sleep", "move"}
Unsettled == {"rewind", "reclock"}
InTurn == {"pump", "closing", "ending", "leaving", "done", "none"}

(* No arrival is under way when a seek begins to move the file. *)
Quiet ==
    caller \in BeforeMove \cup Unsettled \cup {"flag"} /\ ~crossed =>
        /\ paused /\ ~resumeOnArrival /\ loop \notin Arriving

TargetIsAhead == hand = Nothing /\ preroll = goal /\ at - Len(inside) <= goal
TargetIsInHand == hand.number = goal /\ loop \in InTurn

Awaited ==
    /\ paused /\ loop \notin {"lowering", "resuming"}
    /\ IF caller = "rewind" THEN at <= goal ELSE TargetIsAhead \/ TargetIsInHand
    /\ caller \in Unsettled => moved
    /\ caller \notin Unsettled => time = goal
    /\ loop = "pump" => seen = goal

Waiting == fresh => /\ ~late /\ ~crossed /\ caller \notin BeforeMove
                    /\ shown = <<>> => Awaited

LEMMA QuietStep == ASSUME Whole, Quiet, [Next]_vars PROVE Quiet'
<1> USE DEF file, graph, clock, hold, post, path, turn, seek, count, outcome,
            BeforeMove, Unsettled, Arriving
<1>1. CASE Start \/ Pause \/ Resume \/ Tell
  BY <1>1 DEF Start, Pause, Resume, Tell, Call, Quiet
<1>2. ASSUME NEW frame \in Targets, Seek(frame) PROVE Quiet'
  <2>1. crossed' \/ (~resumeOnArrival /\ loop \notin Arriving)
    BY <1>2, Zenon DEF Seek, Prerolling
  <2>2. paused' = TRUE /\ UNCHANGED <<resumeOnArrival, loop>>
    BY <1>2 DEF Seek
  <2> QED  BY <2>1, <2>2 DEF Quiet
<1>3. ASSUME NEW then \in {"joining", "retracking"}, Stop(then) PROVE Quiet'
  BY <1>3 DEF Stop, Quiet
<1>4. CASE SeekHolds \/ SeekIsNumbered \/ SeekAwaits \/ SeekWakes \/ SeekTimesOut
  BY <1>4 DEF SeekHolds, SeekIsNumbered, SeekAwaits, SeekWakes, SeekTimesOut, Quiet
<1>5. CASE SeekMoves \/ SeekRewinds \/ SeekMovesClock
  BY <1>5 DEF SeekMoves, SeekRewinds, SeekMovesClock, Quiet
<1>6. CASE caller' \notin BeforeMove \cup Unsettled \cup {"flag"}
  BY <1>6 DEF Quiet
<1>7. CASE /\ UNCHANGED <<caller, crossed>>
           /\ paused' = paused \/ loop = "resuming"
           /\ resumeOnArrival' = resumeOnArrival \/ loop = "lowering"
           /\ loop' \in Arriving => loop \in Arriving \/ resumeOnArrival
  BY <1>7 DEF Quiet
<1>8. CASE LoopStep
  <2> USE DEF LoopGoes
  <2>1. CASE TurnWaits \/ TurnIsOver \/ DrainTakes \/ JobBegins \/ JobWorks
    BY <1>7, <2>1 DEF TurnWaits, TurnIsOver, DrainTakes, JobBegins, JobWorks
  <2>2. CASE JobIsAnswered \/ TurnLooksForHold \/ TurnSays \/ TurnIsHeld
    BY <1>7, <2>2 DEF JobIsAnswered, TurnLooksForHold, TurnSays, TurnIsHeld
  <2>3. CASE TurnReadsClock \/ PumpFeeds \/ PumpTakes \/ PumpFinishes \/ PumpRepeats
    BY <1>7, <2>3 DEF TurnReadsClock, PumpFeeds, PumpTakes, PumpFinishes,
       PumpRepeats, Pumping
  <2>4. CASE PumpDrops \/ PumpShows \/ PumpFails \/ AfterLooks \/ AfterArrives
    BY <1>7, <2>4 DEF PumpDrops, PumpShows, PumpFails, AfterLooks, AfterArrives,
       Pumping
  <2>5. CASE AfterLowers \/ AfterResumes \/ TurnCloses \/ LoopEnds \/ LoopLeaves
    BY <1>7, <2>5 DEF AfterLowers, AfterResumes, TurnCloses, LoopEnds, LoopLeaves
  <2> QED  BY <1>8, <2>1, <2>2, <2>3, <2>4, <2>5 DEF LoopStep
<1>9. CASE Tick \/ UNCHANGED vars
  BY <1>7, <1>9 DEF Tick, vars
<1> QED
  BY <1>1, <1>2, <1>3, <1>4, <1>5, <1>6, <1>8, <1>9
  DEF Next, Calls, Open, CallStep, SeekStep, SeekFlags, SeekReleases, TellIsAnswered,
      TellTimesOut, TellGivesUp, TellWorksHere, ToldSo, Answered, StopJoins, Retrack

LEMMA WaitingInPump ==
    ASSUME Whole, Waiting, fresh, shown = <<>>, loop = "pump"
    PROVE  /\ ~late /\ ~crossed /\ paused /\ time = goal /\ seen = goal
           /\ caller \notin BeforeMove \cup Unsettled
           /\ TargetIsAhead \/ TargetIsInHand
           /\ hand # Nothing => hand.number = seen
BY LoopKeepsOff, NoFrames, FramesAre
DEF Waiting, Awaited, NoMoveUnderAPump, Unsettled, TargetIsAhead, TargetIsInHand

LEMMA WaitingStepOfPump ==
    ASSUME Whole, Waiting, LoopStep, loop = "pump"
    PROVE  Waiting'
<1> USE DEF file, graph, clock, hold, post, path, turn, seek, count, outcome,
            BeforeMove, Unsettled, InTurn
<1>0. /\ at \in Nat /\ target \in Nat /\ goal \in Nat /\ seen \in Nat
      /\ inside \in Seq(Frames) /\ Len(inside) \in Nat
      /\ hand \in Frames \cup {Nothing} /\ shown \in Seq(Frames)
      /\ Nothing.number = -1
  BY FramesAre, NoFrames
<1>1. PumpFeeds \/ PumpTakes \/ PumpFinishes \/ PumpRepeats \/ PumpDrops
         \/ PumpShows \/ PumpFails
  BY DEF LoopStep, TurnWaits, TurnIsOver, DrainTakes, JobBegins, JobWorks,
     JobIsAnswered, TurnLooksForHold, TurnSays, TurnIsHeld, TurnReadsClock,
     AfterLooks, AfterArrives, AfterLowers, AfterResumes, TurnCloses, LoopEnds,
     LoopLeaves
<1>2. UNCHANGED <<caller, fresh, late, crossed, goal, moved, paused, time, seen>>
  BY <1>1 DEF PumpFeeds, PumpTakes, PumpFinishes, PumpRepeats, PumpDrops, PumpShows,
     PumpFails, LoopGoes
<1>3. shown' = shown \/ shown' # <<>>
  <2>1. ASSUME PumpShows PROVE shown' # <<>>
    <3>1. hand \in Frames /\ shown' = Append(shown, hand)
      BY <1>0, <2>1 DEF PumpShows
    <3> QED  BY <1>0, <3>1, Pushed, NoFrames
  <2> QED
    BY <1>1, <2>1 DEF PumpFeeds, PumpTakes, PumpFinishes, PumpRepeats, PumpDrops,
       PumpFails, LoopGoes
<1>4. CASE ~fresh \/ shown # <<>>
  BY <1>2, <1>3, <1>4 DEF Waiting
<1>5. CASE fresh /\ shown = <<>>
  <2>1. /\ ~late /\ ~crossed /\ paused /\ time = goal /\ seen = goal
        /\ caller \notin BeforeMove \cup Unsettled
        /\ TargetIsAhead \/ TargetIsInHand
        /\ hand # Nothing => hand.number = seen
    BY <1>5, WaitingInPump
  <2>2. Decoded
    BY <2>1 DEF Whole, There, OfThisMove
  <2>3. SUFFICES ASSUME shown' = shown
                 PROVE  (TargetIsAhead \/ TargetIsInHand)' /\ loop' \in InTurn
    BY <1>2, <1>3, <2>1 DEF Waiting, Awaited
  <2>4. CASE PumpFeeds
    <3>1. hand = Nothing /\ TargetIsAhead
      BY <1>0, <2>1, <2>4 DEF PumpFeeds, TargetIsInHand
    <3>2. at' - Len(inside') = at - Len(inside)
      <4>1. CASE at < Length
        <5> DEFINE F == Frames \cup {Frame(at)}
        <5>1. Frame(at) \in F /\ inside \in Seq(F)
          BY <1>0
        <5>2. Len(Append(inside, Frame(at))) = Len(inside) + 1
          BY <5>1, Pushed
        <5>3. inside' = Append(inside, Frame(at)) /\ at' = at + 1
          BY <2>4, <4>1 DEF PumpFeeds
        <5> QED  BY <1>0, <5>2, <5>3
      <4>2. CASE ~(at < Length)
        BY <2>4, <4>2 DEF PumpFeeds
      <4> QED  BY <4>1, <4>2
    <3> QED  BY <1>2, <2>4, <3>1, <3>2 DEF PumpFeeds, Pumping, TargetIsAhead, Nothing
  <2>5. CASE PumpTakes
    <3>1. hand = Nothing /\ TargetIsAhead
      BY <1>0, <2>1, <2>5 DEF PumpTakes, TargetIsInHand
    <3>2. inside # <<>>
      BY <2>5, NoFrames, PathAssumption DEF PumpTakes
    <3>3. /\ inside' = Tail(inside) /\ Len(inside') = Len(inside) - 1
          /\ Head(inside) = inside[1] /\ 1 \in DOMAIN inside
      BY <1>0, <2>5, <3>2, Popped DEF PumpTakes
    <3>4. Head(inside).number = at - Len(inside)
      <4>1. at - Len(inside) + 1 - 1 = at - Len(inside)
        BY <1>0
      <4> QED  BY <2>2, <3>3, <4>1 DEF Decoded, Frame
    <3>5. at' = at /\ preroll = goal /\ at - Len(inside) <= goal /\ loop' = loop
      BY <2>5, <3>1 DEF PumpTakes, TargetIsAhead
    <3>6. CASE Head(inside).number < preroll
      <4>1. at' - Len(inside') <= goal
        BY <1>0, <3>3, <3>4, <3>5, <3>6
      <4> QED
        BY <1>2, <2>5, <3>1, <3>5, <3>6, <4>1 DEF PumpTakes, TargetIsAhead, Nothing
    <3>7. CASE ~(Head(inside).number < preroll)
      <4>1. Head(inside).number = goal
        BY <1>0, <3>4, <3>5, <3>7
      <4> QED  BY <1>2, <2>5, <3>5, <3>7, <4>1 DEF PumpTakes, TargetIsInHand
    <3> QED  BY <3>6, <3>7
  <2>6. CASE PumpRepeats \/ PumpDrops
    <3>1. hand # Nothing /\ (hand.number > seen \/ hand.number < seen)
      BY <2>6 DEF PumpRepeats, PumpDrops
    <3> QED  BY <1>0, <2>1, <3>1
  <2>7. CASE PumpShows
    <3>1. hand \in Frames /\ shown' = Append(shown, hand)
      BY <1>0, <2>7 DEF PumpShows
    <3>2. shown' # <<>>
      BY <1>0, <3>1, Pushed, NoFrames
    <3> QED  BY <1>5, <2>3, <3>2
  <2>8. CASE PumpFinishes \/ PumpFails
    BY <1>2, <2>1, <2>8 DEF PumpFinishes, PumpFails, TargetIsAhead, TargetIsInHand,
       Nothing
  <2> QED  BY <1>1, <2>4, <2>5, <2>6, <2>7, <2>8
<1> QED  BY <1>4, <1>5

LEMMA WaitingStep == ASSUME Whole, Quiet, Waiting, [Next]_vars PROVE Waiting'
<1> USE DEF file, graph, clock, hold, post, path, turn, seek, count, outcome,
            BeforeMove, Unsettled, InTurn
<1>0. /\ Renewed /\ NoMoveUnderAPump
      /\ at \in Nat /\ target \in 0..Length /\ goal \in Nat /\ time \in Nat
      /\ inside \in Seq(Frames) /\ Len(inside) \in Nat
      /\ Nothing.number = -1 /\ None = -1
  BY LoopKeepsOff, FramesAre, NoFrames, PathAssumption
     DEF Whole, Types, FileOK, None
<1>1. CASE ~fresh'
  BY <1>1 DEF Waiting
<1>2. CASE Start \/ Pause \/ Resume \/ Retrack \/ \E frame \in Targets : Seek(frame)
  BY <1>1, <1>2 DEF Start, Pause, Resume, Retrack, Seek
<1>3. CASE SeekHolds \/ SeekIsNumbered \/ SeekAwaits \/ SeekWakes \/ SeekTimesOut
  BY <1>1, <1>3 DEF SeekHolds, SeekIsNumbered, SeekAwaits, SeekWakes, SeekTimesOut,
     Waiting
<1>4. CASE SeekMoves
  <2> SUFFICES ASSUME fresh' PROVE Waiting'
    BY <1>1
  <2>1. caller = "move" /\ caller' = "rewind" /\ ~fresh
    BY <1>4 DEF SeekMoves, Waiting
  <2>2. /\ at' = Max({n \in Syncs : n <= target}) /\ goal' = target
        /\ moved' = TRUE /\ shown' = <<>>
    BY <1>4, <2>1 DEF SeekMoves
  <2>3. ~late /\ ~crossed /\ UNCHANGED <<late, crossed, paused, loop>>
    BY <1>4, <2>1 DEF SeekMoves
  <2>4. paused /\ loop \notin Arriving /\ loop # "pump"
    BY <1>0, <2>1, <2>3 DEF Quiet, NoMoveUnderAPump
  <2>5. at' <= goal'
    BY <1>0, <2>2, Landing
  <2> QED  BY <2>1, <2>2, <2>3, <2>4, <2>5 DEF Waiting, Awaited, Arriving
<1>5. CASE SeekRewinds
  <2>1. /\ inside' = <<>> /\ hand' = Nothing /\ caller = "rewind" /\ caller' = "reclock"
        /\ preroll' = (IF moved THEN target ELSE None)
        /\ UNCHANGED <<fresh, late, crossed, shown, paused, loop, moved, at, goal, seen>>
    BY <1>5 DEF SeekRewinds
  <2> SUFFICES ASSUME fresh, shown = <<>> PROVE Waiting'
    BY <2>1 DEF Waiting
  <2>2. Awaited /\ ~late /\ ~crossed
    BY DEF Waiting
  <2>3. loop # "pump"
    BY <1>0, <2>1, <2>2 DEF NoMoveUnderAPump
  <2>4. moved /\ goal = target
    BY <1>0, <2>1, <2>2 DEF Awaited, Renewed
  <2>5. at <= goal
    BY <2>1, <2>2 DEF Awaited
  <2>6. TargetIsAhead'
    <3>1. Len(inside') = 0
      BY <2>1, NoFrames
    <3>2. at' - Len(inside') <= goal'
      BY <1>0, <2>1, <2>5, <3>1
    <3> QED  BY <2>1, <2>4, <3>2 DEF TargetIsAhead, Nothing
  <2> QED  BY <2>1, <2>2, <2>3, <2>4, <2>6 DEF Waiting, Awaited
<1>6. CASE SeekMovesClock
  <2>1. /\ caller = "reclock" /\ caller' = "flag" /\ time' = IF moved THEN target ELSE time
        /\ UNCHANGED <<fresh, late, crossed, shown, paused, loop, moved, at, inside, hand,
                       preroll, goal, seen>>
    BY <1>6 DEF SeekMovesClock
  <2> SUFFICES ASSUME fresh, shown = <<>> PROVE Waiting'
    BY <2>1 DEF Waiting
  <2>2. Awaited /\ ~late /\ ~crossed
    BY DEF Waiting
  <2>3. time' = goal
    BY <1>0, <2>1, <2>2 DEF Awaited, Renewed
  <2> QED
    BY <2>1, <2>2, <2>3 DEF Waiting, Awaited, TargetIsAhead, TargetIsInHand, Nothing
<1>7. CASE /\ caller \notin BeforeMove \cup Unsettled
           /\ caller' \notin BeforeMove \cup Unsettled /\ loop' \in {loop, "none"}
           /\ UNCHANGED <<fresh, late, crossed, shown, paused, at, inside, hand, preroll,
                          time, goal, seen>>
  BY <1>0, <1>7 DEF Waiting, Awaited, TargetIsAhead, TargetIsInHand, Nothing
<1>8. CASE Tell \/ SeekFlags \/ SeekReleases
           \/ \E then \in {"joining", "retracking"} : Stop(then)
  BY <1>7, <1>8 DEF Tell, SeekFlags, SeekReleases, Stop, Call
<1>9. CASE TellIsAnswered \/ TellTimesOut \/ TellGivesUp \/ TellWorksHere \/ StopJoins
  BY <1>7, <1>9 DEF TellIsAnswered, TellTimesOut, TellGivesUp, TellWorksHere, StopJoins,
     Answered, ToldSo
<1>10. CASE Tick
  BY <1>10 DEF Tick, Waiting, Awaited
<1>11. CASE /\ UNCHANGED <<caller, fresh, late, crossed, shown, paused, moved, at, inside,
                           hand, preroll, time, goal>>
            /\ loop' \notin {"lowering", "resuming", "pump"}
            /\ loop \in InTurn => loop' \in InTurn
  BY <1>0, <1>11 DEF Waiting, Awaited, TargetIsAhead, TargetIsInHand, Nothing
<1>12. CASE LoopStep /\ loop # "pump"
  <2> USE DEF LoopGoes
  <2>1. CASE TurnWaits \/ TurnIsOver \/ DrainTakes \/ JobBegins \/ JobWorks
    BY <1>11, <2>1 DEF TurnWaits, TurnIsOver, DrainTakes, JobBegins, JobWorks
  <2>2. CASE JobIsAnswered \/ TurnLooksForHold \/ TurnSays \/ TurnIsHeld
    BY <1>11, <2>2 DEF JobIsAnswered, TurnLooksForHold, TurnSays, TurnIsHeld
  <2>3. CASE AfterLooks \/ TurnCloses \/ LoopEnds \/ LoopLeaves
    BY <1>11, <2>3 DEF AfterLooks, TurnCloses, LoopEnds, LoopLeaves
  <2>4. CASE TurnReadsClock
    <3>1. /\ loop = "look" /\ loop' = "pump" /\ seen' = time
          /\ UNCHANGED <<caller, fresh, late, crossed, shown, paused, moved, at, inside,
                         hand, preroll, time, goal>>
      BY <2>4 DEF TurnReadsClock
    <3> SUFFICES ASSUME fresh, shown = <<>> PROVE Waiting'
      BY <3>1 DEF Waiting
    <3>2. Awaited /\ ~late /\ ~crossed /\ caller \notin BeforeMove
      BY DEF Waiting
    <3>3. caller \notin Unsettled /\ TargetIsAhead
      BY <1>0, <3>1, <3>2 DEF Awaited, NoMoveUnderAPump, TargetIsInHand
    <3> QED  BY <3>1, <3>2, <3>3 DEF Waiting, Awaited, TargetIsAhead, Nothing
  <2>5. CASE AfterArrives
    <3>1. /\ loop = "arriving" /\ loop' = IF preroll = None THEN "lowering" ELSE "wait"
          /\ UNCHANGED <<caller, fresh, late, crossed, shown, paused, moved, at, inside,
                         hand, preroll, time, goal>>
      BY <2>5 DEF AfterArrives
    <3> SUFFICES ASSUME fresh, shown = <<>> PROVE Waiting'
      BY <3>1 DEF Waiting
    <3>2. Awaited /\ ~late /\ ~crossed /\ caller \notin BeforeMove
      BY DEF Waiting
    <3>3. caller # "rewind" /\ TargetIsAhead
      BY <3>1, <3>2 DEF Quiet, Awaited, TargetIsInHand, Arriving
    <3>4. loop' = "wait"
      BY <1>0, <3>1, <3>3 DEF TargetIsAhead
    <3> QED  BY <3>1, <3>2, <3>3, <3>4 DEF Waiting, Awaited, TargetIsAhead, Nothing
  <2>6. CASE AfterLowers \/ AfterResumes
    BY <2>6 DEF AfterLowers, AfterResumes, Waiting, Awaited
  <2> QED
    BY <1>12, <2>1, <2>2, <2>3, <2>4, <2>5, <2>6
    DEF LoopStep, PumpFeeds, PumpTakes, PumpFinishes, PumpRepeats, PumpDrops, PumpShows,
        PumpFails, Pumping
<1>13. CASE LoopStep /\ loop = "pump"
  BY <1>13, WaitingStepOfPump
<1>14. CASE UNCHANGED vars
  BY <1>0, <1>14 DEF vars, Waiting, Awaited, TargetIsAhead, TargetIsInHand, Nothing
<1>15. CASE Open
  BY <1>0, <1>15, Opened DEF Waiting, Awaited, TargetIsAhead, TargetIsInHand, Nothing
<1> QED
  BY <1>2, <1>3, <1>4, <1>5, <1>6, <1>8, <1>9, <1>10, <1>12, <1>13, <1>14, <1>15
  DEF Next, Calls, CallStep, SeekStep

(* video_path.hpp:201-209: the clock is held until the pre-roll is over, so  *)
(* after a seek that crossed no other and that no deadline let through, no   *)
(* frame is dropped before one was shown.                                    *)
THEOREM PathTargetIsShown == Spec => TargetIsShown
<1> USE DEF file, graph, clock, hold, post, path, turn, seek, count, outcome
<1>1. Init => Whole /\ Quiet /\ Waiting
  BY WholeInit DEF Init, Quiet, Waiting, BeforeMove, Unsettled
<1>2. Whole /\ Quiet /\ Waiting /\ [Next]_vars => (Whole /\ Quiet /\ Waiting)'
  BY WholeStep, QuietStep, WaitingStep, SMTT(30)
<1>3. Whole /\ Waiting /\ [Next]_vars => [Drop /\ fresh => shown # <<>>]_vars
  <2> SUFFICES ASSUME Whole, Waiting, [Next]_vars, Drop, fresh, shown = <<>> PROVE FALSE
    OBVIOUS
  <2>1. /\ loop = "pump" /\ hand # Nothing /\ hand' = Nothing /\ shown' = shown
    BY DEF Drop
  <2>2. /\ ~late /\ caller \notin BeforeMove \cup Unsettled
        /\ hand.number = seen /\ seen \in Nat /\ shown \in Seq(Frames)
        /\ hand \in Frames
    BY <2>1, WaitingInPump, FramesAre
  <2>3. caller # "renewing"
    BY <2>1 DEF Whole, Renewed
  <2>4. hand' # hand
    BY <2>1
  <2>5. ~PumpDrops
    <3>1. ~(hand.number < seen)
      BY <2>2
    <3> QED  BY <3>1 DEF PumpDrops
  <2>6. ~PumpShows
    <3>1. Append(shown, hand) # shown
      BY <2>2, Pushed
    <3> QED  BY <2>1, <3>1 DEF PumpShows
  <2>7. ~PumpTakes
    BY <2>1 DEF PumpTakes
  <2>8. ~SeekRewinds /\ ~Retrack
    BY <2>2, <2>3 DEF SeekRewinds, Retrack, Unsettled
  <2> QED
    BY <2>4, <2>5, <2>6, <2>7, <2>8
    DEF Next, Calls, Open, CallStep, SeekStep, LoopStep, vars, LoopGoes, Start, Pause,
        Resume, Seek, Tell, Stop, SeekHolds, SeekIsNumbered, SeekAwaits, SeekWakes,
        SeekTimesOut, SeekMoves, SeekMovesClock, SeekFlags, SeekReleases,
        TellIsAnswered, TellTimesOut, TellGivesUp, TellWorksHere, StopJoins, TurnWaits,
        TurnIsOver, DrainTakes, JobBegins, JobWorks, JobIsAnswered, TurnLooksForHold,
        TurnSays, TurnIsHeld, TurnReadsClock, PumpFeeds, PumpFinishes, PumpRepeats,
        PumpFails, AfterLooks, AfterArrives, AfterLowers, AfterResumes, TurnCloses,
        LoopEnds, LoopLeaves, Tick
<1> QED  BY <1>1, <1>2, <1>3, PTL DEF Spec, TargetIsShown

-----------------------------------------------------------------------------
(* A pause that came in no pre-roll: the clock is paused, no arrival is      *)
(* under way that would resume it, and every seek finds it paused.           *)
Kept ==
    asked = "yes" =>
        /\ paused /\ ~Prerolling
        /\ caller \in SeekLabels => wasPaused

LEMMA KeptStep == ASSUME Kept, [Next]_vars PROVE Kept'
<1> USE DEF file, graph, clock, hold, post, path, turn, seek, count, outcome,
            Prerolling, Arriving, SeekLabels
<1>1. CASE Start \/ Resume
  BY <1>1 DEF Start, Resume, Call, Kept
<1>2. CASE Pause
  <2>1. /\ paused' = TRUE /\ caller' = "idle"
        /\ UNCHANGED <<resumeOnArrival, loop>>
    BY <1>2 DEF Pause, Call
  <2>2. asked' = "yes" => ~Prerolling
    BY <1>2 DEF Pause
  <2> QED  BY <2>1, <2>2 DEF Kept
<1>3. CASE Tell \/ Open
  BY <1>3 DEF Tell, Open, Call, Kept
<1>4. ASSUME NEW frame \in Targets, Seek(frame) PROVE Kept'
  <2>1. /\ wasPaused' = paused /\ paused' = TRUE
        /\ UNCHANGED <<resumeOnArrival, loop, asked>>
    BY <1>4 DEF Seek
  <2> QED  BY <2>1 DEF Kept
<1>5. ASSUME NEW then \in {"joining", "retracking"}, Stop(then) PROVE Kept'
  BY <1>5 DEF Stop, Call, Kept
<1>6. CASE SeekHolds \/ SeekIsNumbered \/ SeekAwaits \/ SeekWakes \/ SeekTimesOut
  BY <1>6 DEF SeekHolds, SeekIsNumbered, SeekAwaits, SeekWakes, SeekTimesOut, Kept
<1>7. CASE SeekMoves \/ SeekRewinds \/ SeekMovesClock
  BY <1>7 DEF SeekMoves, SeekRewinds, SeekMovesClock, Kept
<1>8. CASE SeekFlags \/ SeekReleases
  BY <1>8 DEF SeekFlags, SeekReleases, Kept
<1>9. CASE TellIsAnswered \/ TellTimesOut \/ TellGivesUp \/ TellWorksHere
  BY <1>9 DEF TellIsAnswered, TellTimesOut, TellGivesUp, TellWorksHere, ToldSo,
     Answered, Kept
<1>10. CASE StopJoins \/ Retrack
  <2>1. CASE StopJoins
    BY <2>1 DEF StopJoins, Kept
  <2>2. CASE Retrack
    BY <2>2, Retracked DEF Kept
  <2> QED  BY <1>10, <2>1, <2>2
<1>11. CASE /\ UNCHANGED <<caller, asked, wasPaused>>
            /\ paused' = paused \/ loop = "resuming"
            /\ resumeOnArrival' = resumeOnArrival \/ loop = "lowering"
            /\ loop' \in Arriving => loop \in Arriving \/ resumeOnArrival
  <2> SUFFICES ASSUME asked = "yes"
               PROVE  /\ paused' /\ ~Prerolling'
                      /\ caller' \in SeekLabels => wasPaused'
    BY <1>11 DEF Kept
  <2>1. /\ paused /\ ~resumeOnArrival /\ loop \notin Arriving
        /\ caller \in SeekLabels => wasPaused
    BY DEF Kept
  <2>2. /\ paused' = paused /\ resumeOnArrival' = resumeOnArrival
        /\ loop' \notin Arriving
    BY <1>11, <2>1
  <2> QED  BY <1>11, <2>1, <2>2, Zenon
<1>12. CASE LoopStep
  <2> USE DEF LoopGoes
  <2>1. CASE TurnWaits \/ TurnIsOver \/ DrainTakes \/ JobBegins \/ JobWorks
    BY <1>11, <2>1 DEF TurnWaits, TurnIsOver, DrainTakes, JobBegins, JobWorks
  <2>2. CASE JobIsAnswered \/ TurnLooksForHold \/ TurnSays \/ TurnIsHeld
    BY <1>11, <2>2 DEF JobIsAnswered, TurnLooksForHold, TurnSays, TurnIsHeld
  <2>3. CASE TurnReadsClock \/ PumpFeeds \/ PumpTakes \/ PumpFinishes \/ PumpRepeats
    BY <1>11, <2>3 DEF TurnReadsClock, PumpFeeds, PumpTakes, PumpFinishes,
       PumpRepeats, Pumping
  <2>4. CASE PumpDrops \/ PumpShows \/ PumpFails \/ AfterLooks \/ AfterArrives
    BY <1>11, <2>4 DEF PumpDrops, PumpShows, PumpFails, AfterLooks, AfterArrives,
       Pumping
  <2>5. CASE AfterLowers \/ AfterResumes \/ TurnCloses \/ LoopEnds \/ LoopLeaves
    BY <1>11, <2>5 DEF AfterLowers, AfterResumes, TurnCloses, LoopEnds, LoopLeaves
  <2> QED  BY <1>12, <2>1, <2>2, <2>3, <2>4, <2>5 DEF LoopStep
<1>13. CASE Tick \/ UNCHANGED vars
  BY <1>11, <1>13 DEF Tick, vars
<1> QED
  BY <1>1, <1>2, <1>3, <1>4, <1>5, <1>6, <1>7, <1>8, <1>9, <1>10, <1>12, <1>13
  DEF Next, Calls, CallStep, SeekStep

(* video_path.hpp:208-209: a clock somebody paused, in no pre-roll, stays    *)
(* paused until they resume it or the loop is started anew, through whatever *)
(* seeks find it paused.                                                     *)
THEOREM PathPauseStays == Spec => PauseStays
<1> USE DEF file, graph, clock, hold, post, path, turn, seek, count, outcome
<1>1. Init => Kept
  BY DEF Init, Kept
<1>2. Kept /\ [Next]_vars => Kept'
  BY KeptStep
<1>3. Kept' /\ [Next]_vars => [paused /\ asked = "yes" => paused' \/ asked' = "no"]_vars
  <2> SUFFICES ASSUME Kept', [Next]_vars, asked = "yes", asked' # "no" PROVE paused'
    OBVIOUS
  <2>1. CASE asked' = asked
    BY <2>1 DEF Kept
  <2>2. CASE Start \/ Pause \/ Resume
    BY <2>2 DEF Start, Pause, Resume
  <2>3. CASE Tell \/ Open \/ Tick \/ UNCHANGED vars
    BY <2>1, <2>3 DEF Tell, Open, Tick, vars
  <2>4. CASE \E frame \in Targets : Seek(frame)
    BY <2>1, <2>4 DEF Seek
  <2>5. CASE \E then \in {"joining", "retracking"} : Stop(then)
    BY <2>1, <2>5 DEF Stop
  <2>6. CASE SeekStep
    BY <2>1, <2>6
    DEF SeekStep, SeekHolds, SeekIsNumbered, SeekAwaits, SeekWakes, SeekTimesOut,
        SeekMoves, SeekRewinds, SeekMovesClock, SeekFlags, SeekReleases
  <2>7. CASE TellIsAnswered \/ TellTimesOut \/ TellGivesUp \/ TellWorksHere
    BY <2>1, <2>7 DEF TellIsAnswered, TellTimesOut, TellGivesUp, TellWorksHere
  <2>8. CASE StopJoins \/ Retrack
    BY <2>1, <2>8, Retracked DEF StopJoins
  <2>9. CASE LoopStep
    BY <2>1, <2>9
    DEF LoopStep, LoopGoes, TurnWaits, TurnIsOver, DrainTakes, JobBegins, JobWorks,
        JobIsAnswered, TurnLooksForHold, TurnSays, TurnIsHeld, TurnReadsClock,
        PumpFeeds, PumpTakes, PumpFinishes, PumpRepeats, PumpDrops, PumpShows,
        PumpFails, AfterLooks, AfterArrives, AfterLowers, AfterResumes, TurnCloses,
        LoopEnds, LoopLeaves
  <2> QED
    BY <2>2, <2>3, <2>4, <2>5, <2>6, <2>7, <2>8, <2>9 DEF Next, Calls, CallStep
<1> QED  BY <1>1, <1>2, <1>3, PTL DEF Spec, PauseStays
=============================================================================
