----------------------------- MODULE PlayerProofs -----------------------------
(***************************************************************************)
(* For every set of shells, files, playlists and commands, however many:   *)
(* what a shell is shown of a run is there, what is configured is what     *)
(* plays, no command misses the run it waits for, and a request that  *)
(* nobody stopped ends at the end of its list.                             *)
(*                                                                         *)
(* None of them is inductive.  A player with nothing to run says so from   *)
(* the step that takes a request on (Published); a run ends as asked only  *)
(* if whoever raised a flag meant this run (Meant); and of settings the    *)
(* invariant says who still stands in the way of what plays being what is  *)
(* configured: a shell that is about to raise the flag, or one that tries  *)
(* a key and will take it out again, with what it wrote over (WireIsDue,   *)
(* ChainIsDue).  A request ends at the end of its list because the queue's *)
(* word is about the list as it stands, which a move may still reorder     *)
(* behind the queue (Placed, Reached), and because a graph that ended by   *)
(* itself had been given that word (PlayedOut).                            *)
(***************************************************************************)
EXTENDS Player, SequenceTheorems, FiniteSetTheorems, WellFoundedInduction, TLAPS

Typed ==
    /\ public \in [queue : BOOLEAN, list : BOOLEAN, graph : BOOLEAN,
                   alone : BOOLEAN, opening : BOOLEAN]
    /\ config \in Configs /\ applied \in Configs /\ running \in Configs
    /\ built \in {"plain", "set"}
    /\ DOMAIN cmd = Shells /\ DOMAIN copied = Shells
    /\ \A s \in Shells : "over" \in DOMAIN copied[s]
    /\ "error" \in DOMAIN q /\ q.error \in {"none", "lost", "failed"}

Published ==
    /\ PublishedIsAlive
    /\ pc = "begins" => state = "stopped"

Meant == end = "stopped" \/ stop \/ quit => wanted

Raising(s) == cmd[s] = "raise"
Trying(s) == cmd[s] \in {"try", "take back"}

Uses == Making \cup {"builds", "alone says", "alone opens", "alone turns"}

WireIsDue ==
    ~rebuild /\ pc \in Uses /\ running.wire # config.wire =>
        \E s \in Shells : Raising(s)

ChainIsDue ==
    ~rebuild /\ ~erased /\ pc \in Making /\ built # config.chain =>
        \E s \in Shells :
          \/ Raising(s)
          \/ Trying(s) /\ (built = "set" => copied[s].over = "set")

Inv == Typed /\ Published /\ Meant /\ WaiterIsTold /\ WireIsDue /\ ChainIsDue

-----------------------------------------------------------------------------
LEMMA AtFirst == Init => Inv
<1> SUFFICES ASSUME Init PROVE Inv
  OBVIOUS
<1>1. Typed
  BY DEF Init, Typed, Nobody, Plain, Configs, Wires, Chains, NoCopy, NoRun
<1>2. Published /\ Meant /\ WaiterIsTold
  BY DEF Init, Published, PublishedIsAlive, Nobody, Meant, WaiterIsTold
<1>3. WireIsDue /\ ChainIsDue
  BY DEF Init, WireIsDue, ChainIsDue, Uses, Making
<1> QED BY <1>1, <1>2, <1>3 DEF Inv

-----------------------------------------------------------------------------
(* What a command does to the run and to the flags. *)

Command(s) == Commanded(s) \/ Continues(s) \/ WaitsOut(s)

(* A pause and a resume say something of a run only while there is one. *)
LEMMA CommandDoes ==
    ASSUME NEW what \in Transports, Does(what)
    PROVE  state' = state \/ public.graph \/ public.alone
BY DEF Does, Seeks, StepsOn, StepsBack, MovesTo, Transports

LEMMA CommandLeavesTheRun ==
    ASSUME NEW s \in Shells, Command(s)
    PROVE  /\ UNCHANGED <<pc, public, running, built, end, applied, measured>>
           /\ state' = state \/ public.graph \/ public.alone
<1>1. CASE Play(s) \/ PlayAtReads(s) \/ MoveEntry(s) \/ Enqueue(s) \/ Clear(s) \/ Stop(s)
  BY <1>1 DEF Play, PlayAtReads, MoveEntry, Enqueue, Clear, Stop, Says, SaysNothing,
              run, settings
<1>2. CASE Calibrate(s) \/ Shutdown(s) \/ SetWrites(s) \/ NodeWrites(s)
  BY <1>2 DEF Calibrate, Shutdown, SetWrites, NodeWrites, Says, SaysNothing, run, settings
<1>3. ASSUME NEW what \in Transports, Transport(s, what)
      PROVE  /\ UNCHANGED <<pc, public, running, built, end, applied, measured>>
             /\ state' = state \/ public.graph \/ public.alone
  <2>1. UNCHANGED <<pc, public, running, built, end, applied, measured>>
    BY <1>3 DEF Transport, SaysNothing, run, settings
  <2>2. state' = state \/ Does(what)
    BY <1>3 DEF Transport
  <2> QED BY <2>1, <2>2, CommandDoes
<1>4. CASE PlayAtAsks(s) \/ NodeTries(s) \/ NodeTakesBack(s) \/ Raises(s)
  BY <1>4 DEF PlayAtAsks, NodeTries, NodeTakesBack, Raises, Says, run, settings, history
<1>5. CASE Wakes(s) \/ WaitsOut(s)
  <2>1. UNCHANGED <<pc, public, running, built, end, applied, measured>>
    BY <1>5 DEF Wakes, WaitsOut, run, settings, history
  <2>2. cmd[s] \in Transports /\ (state' = state \/ Does(cmd[s]))
    BY <1>5 DEF Wakes, WaitsOut
  <2> QED BY <2>1, <2>2, CommandDoes
<1> QED BY <1>1, <1>2, <1>3, <1>4, <1>5 DEF Command, Commanded, Continues

(* A flag that ends a run is raised for the run or the end that is asked for. *)
LEMMA CommandMeansIt ==
    ASSUME NEW s \in Shells, Command(s)
    PROVE  UNCHANGED <<stop, quit, wanted>> \/ wanted'
<1>1. CASE Play(s) \/ Clear(s) \/ Stop(s) \/ Calibrate(s) \/ Shutdown(s) \/ PlayAtAsks(s)
  BY <1>1 DEF Play, Clear, Stop, Calibrate, Shutdown, PlayAtAsks, Says
<1>2. CASE PlayAtReads(s) \/ MoveEntry(s) \/ Enqueue(s) \/ SetWrites(s) \/ NodeWrites(s)
  BY <1>2 DEF PlayAtReads, MoveEntry, Enqueue, SetWrites, NodeWrites, SaysNothing, flags
<1>3. ASSUME NEW what \in Transports, Transport(s, what)
      PROVE  UNCHANGED <<stop, quit, wanted>>
  BY <1>3 DEF Transport, SaysNothing
<1>4. CASE NodeTries(s) \/ NodeTakesBack(s) \/ Raises(s) \/ Wakes(s) \/ WaitsOut(s)
  BY <1>4 DEF NodeTries, NodeTakesBack, Raises, Wakes, WaitsOut, flags, history
<1> QED BY <1>1, <1>2, <1>3, <1>4 DEF Command, Commanded, Continues

(* Nobody goes to sleep with something to move. *)
LEMMA CommandSleeps ==
    ASSUME NEW s \in Shells, Command(s)
    PROVE  asleep' \subseteq asleep \/ (~CanMove /\ state' = state)
<1>1. CASE Play(s) \/ PlayAtReads(s) \/ MoveEntry(s) \/ Enqueue(s) \/ Clear(s) \/ Stop(s)
  BY <1>1 DEF Play, PlayAtReads, MoveEntry, Enqueue, Clear, Stop, shells
<1>2. CASE Calibrate(s) \/ Shutdown(s) \/ SetWrites(s) \/ NodeWrites(s)
  BY <1>2 DEF Calibrate, Shutdown, SetWrites, NodeWrites, shells
<1>3. ASSUME NEW what \in Transports, Transport(s, what)
      PROVE  asleep' \subseteq asleep \/ (~CanMove /\ state' = state)
  BY <1>3 DEF Transport
<1>4. CASE PlayAtAsks(s) \/ NodeTries(s) \/ NodeTakesBack(s) \/ Raises(s)
  BY <1>4 DEF PlayAtAsks, NodeTries, NodeTakesBack, Raises
<1>5. CASE Wakes(s) \/ WaitsOut(s)
  BY <1>5 DEF Wakes, WaitsOut
<1> QED BY <1>1, <1>2, <1>3, <1>4, <1>5 DEF Command, Commanded, Continues

-----------------------------------------------------------------------------
(* What the engine thread and the graph leave alone. *)

LEMMA EngineLeavesTheShells ==
    ASSUME Engine
    PROVE  UNCHANGED <<quit, cmd, copied, erased>>
<1>1. CASE \/ Leaves \/ TakesSweep \/ Measures
           \/ Takes \/ Begins \/ Chooses
  BY <1>1 DEF Leaves, TakesSweep, Goes, Consumes, shells, settings, Measures, Takes,
              Begins, Chooses, TellEveryone, ShellsStay
<1>2. CASE \/ Copies \/ Builds \/ Wired
           \/ Unwired \/ OpensPicture \/ Starts \/ Publishes
  BY <1>2 DEF Copies, Goes, Copy, Builds, Takeable, Wired, Applies, Unwired, Fault,
              OpensPicture, Starts, Publishes, TellEveryone, ShellsStay
<1>3. CASE Turn \/ TakesBack \/ Clears \/ GoesOn \/ Awaits
  BY <1>3 DEF Turn, Goes, TurnEnds, TurnStops, TurnRebuilds, TurnFollows, TurnShows,
              TakesBack, WithdrawsGraph, TellEveryone, Clears, GoesOn, Resumes,
              Walks, Breaks, Stops, OfTheQueue, Fault, Awaits, ShellsStay
<1>4. CASE \/ AloneCopies \/ AloneSays \/ AloneOpens
           \/ AloneTurns \/ AloneTakesBack \/ AloneGoesOn
  BY <1>4 DEF AloneCopies, Goes, AloneSays, AloneOpens, Fault, Stops, TellEveryone,
              AloneTurns, AloneTakesBack, AloneGoesOn, Walks, ShellsStay
<1> QED BY <1>1, <1>2, <1>3, <1>4 DEF Engine

LEMMA EngineTells ==
    ASSUME Engine
    PROVE  asleep' = asleep \/ asleep' = {}
<1>1. CASE \/ Leaves \/ TakesSweep \/ Measures
           \/ Takes \/ Begins \/ Chooses
  BY <1>1 DEF Leaves, TakesSweep, Goes, Consumes, shells, settings, Measures, Takes,
              Begins, Chooses, TellEveryone, ShellsStay
<1>2. CASE \/ Copies \/ Builds \/ Wired
           \/ Unwired \/ OpensPicture \/ Starts \/ Publishes
  BY <1>2 DEF Copies, Goes, Copy, Builds, Takeable, Wired, Applies, Unwired, Fault,
              OpensPicture, Starts, Publishes, TellEveryone, ShellsStay
<1>3. CASE Turn \/ TakesBack \/ Clears \/ GoesOn \/ Awaits
  BY <1>3 DEF Turn, Goes, TurnEnds, TurnStops, TurnRebuilds, TurnFollows, TurnShows,
              TakesBack, WithdrawsGraph, TellEveryone, Clears, GoesOn, Resumes,
              Walks, Breaks, Stops, OfTheQueue, Fault, Awaits, ShellsStay
<1>4. CASE \/ AloneCopies \/ AloneSays \/ AloneOpens
           \/ AloneTurns \/ AloneTakesBack \/ AloneGoesOn
  BY <1>4 DEF AloneCopies, Goes, AloneSays, AloneOpens, Fault, Stops, TellEveryone,
              AloneTurns, AloneTakesBack, AloneGoesOn, Walks, ShellsStay
<1> QED BY <1>1, <1>2, <1>3, <1>4 DEF Engine

LEMMA GraphLeavesTheRest ==
    ASSUME Graph \/ GoesWrong
    PROVE  /\ UNCHANGED <<state, public, stop, rebuild, quit, config, applied, pc, running,
                          built, end, cmd, copied, asleep, wanted, erased, measured>>
BY DEF Graph, Decodes, Hears, PlaysOut, GoesWrong, GraphSteps, flags, settings, run, shells

-----------------------------------------------------------------------------
(* What a shell is shown. *)

LEMMA EngineShowsWhatIsThere ==
    ASSUME Typed, Published, Engine
    PROVE  Published'
<1>1. CASE Leaves
  BY <1>1 DEF Leaves, ShellsStay, run, Typed, Published, PublishedIsAlive, Runs
<1>2. CASE TakesSweep
  BY <1>2 DEF TakesSweep, Goes, Consumes, shells, settings, Typed, Published,
              PublishedIsAlive, Runs
<1>3. CASE Measures
  BY <1>3 DEF Measures, ShellsStay, run, Typed, Published, PublishedIsAlive, Runs
<1>4. CASE Takes
  BY <1>4 DEF Takes, Goes, Consumes, ShellsStay, Typed, Published, PublishedIsAlive,
              Runs
<1>5. CASE Begins
  BY <1>5 DEF Begins, ShellsStay, run, Typed, Published, PublishedIsAlive, Runs
<1>6. CASE Chooses
  BY <1>6 DEF Chooses, TellEveryone, ShellsStay, Typed, Published, PublishedIsAlive,
              Runs
<1>7. CASE Copies
  BY <1>7 DEF Copies, Goes, Copy, ShellsStay, Typed, Published, PublishedIsAlive,
              Runs
<1>8. CASE Builds
  BY <1>8 DEF Builds, Takeable, ShellsStay, Typed, Published, PublishedIsAlive, Runs
<1>9. CASE Wired
  BY <1>9 DEF Wired, Goes, Applies, ShellsStay, run, Typed, Published,
              PublishedIsAlive, Runs
<1>10. CASE Unwired
  BY <1>10 DEF Unwired, Goes, Fault, ShellsStay, Typed, Published, PublishedIsAlive,
               Runs
<1>11. CASE OpensPicture
  BY <1>11 DEF OpensPicture, Goes, ShellsStay, run, Typed, Published,
               PublishedIsAlive, Runs
<1>12. CASE Starts
  BY <1>12 DEF Starts, Fault, ShellsStay, Typed, Published, PublishedIsAlive, Runs
<1>13. CASE Publishes
  BY <1>13 DEF Publishes, Goes, TellEveryone, ShellsStay, Typed, Published,
               PublishedIsAlive, Runs
<1>14. CASE Turn
  BY <1>14 DEF Turn, Goes, TurnEnds, TurnStops, TurnRebuilds, TurnFollows, TurnShows,
               ShellsStay, Typed, Published, PublishedIsAlive, Runs
<1>15. CASE TakesBack
  BY <1>15 DEF TakesBack, Goes, WithdrawsGraph, TellEveryone, ShellsStay, run, Typed,
               Published, PublishedIsAlive, Runs
<1>16. CASE Clears
  BY <1>16 DEF Clears, Goes, ShellsStay, Typed, Published, PublishedIsAlive, Runs
<1>17. CASE GoesOn
  BY <1>17 DEF GoesOn, Resumes, Walks, Breaks, Stops, TellEveryone, OfTheQueue,
               Fault, ShellsStay, Typed, Published, PublishedIsAlive, Runs
<1>18. CASE Awaits
  BY <1>18 DEF Awaits, Resumes, Walks, Breaks, Stops, TellEveryone, ShellsStay,
               Typed, Published, PublishedIsAlive, Runs
<1>19. CASE AloneCopies
  BY <1>19 DEF AloneCopies, Goes, ShellsStay, Typed, Published, PublishedIsAlive,
               Runs
<1>20. CASE AloneSays
  BY <1>20 DEF AloneSays, Goes, ShellsStay, run, Typed, Published, PublishedIsAlive,
               Runs
<1>21. CASE AloneOpens
  BY <1>21 DEF AloneOpens, Fault, Stops, TellEveryone, ShellsStay, Typed, Published,
               PublishedIsAlive, Runs
<1>22. CASE AloneTurns
  BY <1>22 DEF AloneTurns, Goes, ShellsStay, Typed, Published, PublishedIsAlive, Runs
<1>23. CASE AloneTakesBack
  BY <1>23 DEF AloneTakesBack, Goes, TellEveryone, ShellsStay, run, Typed, Published,
               PublishedIsAlive, Runs
<1>24. CASE AloneGoesOn
  BY <1>24 DEF AloneGoesOn, Stops, Walks, TellEveryone, ShellsStay, run, Typed,
               Published, PublishedIsAlive, Runs
<1> QED BY <1>1, <1>2, <1>3, <1>4, <1>5, <1>6, <1>7, <1>8, <1>9, <1>10, <1>11, <1>12,
           <1>13, <1>14, <1>15, <1>16, <1>17, <1>18, <1>19, <1>20, <1>21, <1>22,
           <1>23, <1>24 DEF Engine

-----------------------------------------------------------------------------
(* What a flag means, and who is told. *)

LEMMA EngineStopsAsMeant ==
    ASSUME Typed, Meant, Engine
    PROVE  Meant'
<1>1. CASE Leaves
  BY <1>1 DEF Leaves, ShellsStay, run, Typed, Meant
<1>2. CASE TakesSweep
  BY <1>2 DEF TakesSweep, Goes, Consumes, shells, settings, Typed, Meant
<1>3. CASE Measures
  BY <1>3 DEF Measures, ShellsStay, run, Typed, Meant
<1>4. CASE Takes
  BY <1>4 DEF Takes, Goes, Consumes, ShellsStay, Typed, Meant
<1>5. CASE Begins
  BY <1>5 DEF Begins, ShellsStay, run, Typed, Meant
<1>6. CASE Chooses
  BY <1>6 DEF Chooses, TellEveryone, ShellsStay, Typed, Meant
<1>7. CASE Copies
  BY <1>7 DEF Copies, Goes, Copy, ShellsStay, Typed, Meant
<1>8. CASE Builds
  BY <1>8 DEF Builds, Takeable, ShellsStay, Typed, Meant
<1>9. CASE Wired
  BY <1>9 DEF Wired, Goes, Applies, ShellsStay, run, Typed, Meant
<1>10. CASE Unwired
  BY <1>10 DEF Unwired, Goes, Fault, ShellsStay, Typed, Meant
<1>11. CASE OpensPicture
  BY <1>11 DEF OpensPicture, Goes, ShellsStay, run, Typed, Meant
<1>12. CASE Starts
  BY <1>12 DEF Starts, Fault, ShellsStay, Typed, Meant
<1>13. CASE Publishes
  BY <1>13 DEF Publishes, Goes, TellEveryone, ShellsStay, Typed, Meant
<1>14. CASE Turn
  BY <1>14 DEF Turn, Goes, TurnEnds, TurnStops, TurnRebuilds, TurnFollows, TurnShows,
               ShellsStay, Typed, Meant
<1>15. CASE TakesBack
  BY <1>15 DEF TakesBack, Goes, WithdrawsGraph, TellEveryone, ShellsStay, run, Typed,
               Meant
<1>16. CASE Clears
  BY <1>16 DEF Clears, Goes, ShellsStay, Typed, Meant
<1>17. CASE GoesOn
  BY <1>17 DEF GoesOn, Resumes, Walks, Breaks, Stops, TellEveryone, OfTheQueue,
               Fault, ShellsStay, Typed, Meant
<1>18. CASE Awaits
  BY <1>18 DEF Awaits, Resumes, Walks, Breaks, Stops, TellEveryone, ShellsStay,
               Typed, Meant
<1>19. CASE AloneCopies
  BY <1>19 DEF AloneCopies, Goes, ShellsStay, Typed, Meant
<1>20. CASE AloneSays
  BY <1>20 DEF AloneSays, Goes, ShellsStay, run, Typed, Meant
<1>21. CASE AloneOpens
  BY <1>21 DEF AloneOpens, Fault, Stops, TellEveryone, ShellsStay, Typed, Meant
<1>22. CASE AloneTurns
  BY <1>22 DEF AloneTurns, Goes, ShellsStay, Typed, Meant
<1>23. CASE AloneTakesBack
  BY <1>23 DEF AloneTakesBack, Goes, TellEveryone, ShellsStay, run, Typed, Meant
<1>24. CASE AloneGoesOn
  BY <1>24 DEF AloneGoesOn, Stops, Walks, TellEveryone, ShellsStay, run, Typed, Meant
<1> QED BY <1>1, <1>2, <1>3, <1>4, <1>5, <1>6, <1>7, <1>8, <1>9, <1>10, <1>11, <1>12,
           <1>13, <1>14, <1>15, <1>16, <1>17, <1>18, <1>19, <1>20, <1>21, <1>22,
           <1>23, <1>24 DEF Engine

(* Whatever gives a command something to move tells who waits for it; a      *)
(* calibration, which does not, is left out by measured.                     *)
LEMMA EngineTellsWhoWaits ==
    ASSUME Typed, Published, WaiterIsTold, Engine
    PROVE  WaiterIsTold'
<1>1. CASE Leaves
  BY <1>1 DEF Leaves, ShellsStay, Typed, Published, PublishedIsAlive, WaiterIsTold,
              CanMove
<1>2. CASE TakesSweep
  BY <1>2 DEF TakesSweep, Goes, Consumes, shells, settings, Typed, Published,
              PublishedIsAlive, WaiterIsTold, CanMove
<1>3. CASE Measures
  BY <1>3 DEF Measures, ShellsStay, Typed, Published, PublishedIsAlive, WaiterIsTold,
              CanMove
<1>4. CASE Takes
  BY <1>4 DEF Takes, Goes, Consumes, ShellsStay, Typed, Published, PublishedIsAlive,
              WaiterIsTold, CanMove
<1>5. CASE Begins
  BY <1>5 DEF Begins, ShellsStay, Typed, Published, PublishedIsAlive, WaiterIsTold,
              CanMove
<1>6. CASE Chooses
  BY <1>6 DEF Chooses, TellEveryone, ShellsStay, Typed, Published, PublishedIsAlive,
              WaiterIsTold, CanMove
<1>7. CASE Copies
  BY <1>7 DEF Copies, Goes, Copy, ShellsStay, Typed, Published, PublishedIsAlive,
              WaiterIsTold, CanMove
<1>8. CASE Builds
  BY <1>8 DEF Builds, Takeable, ShellsStay, Typed, Published, PublishedIsAlive,
              WaiterIsTold, CanMove
<1>9. CASE Wired
  BY <1>9 DEF Wired, Goes, Applies, ShellsStay, Typed, Published, PublishedIsAlive,
              WaiterIsTold, CanMove
<1>10. CASE Unwired
  BY <1>10 DEF Unwired, Goes, Fault, ShellsStay, Typed, Published, PublishedIsAlive,
               WaiterIsTold, CanMove
<1>11. CASE OpensPicture
  BY <1>11 DEF OpensPicture, Goes, ShellsStay, Typed, Published, PublishedIsAlive,
               WaiterIsTold, CanMove
<1>12. CASE Starts
  BY <1>12 DEF Starts, Fault, ShellsStay, Typed, Published, PublishedIsAlive,
               WaiterIsTold, CanMove
<1>13. CASE Publishes
  BY <1>13 DEF Publishes, Goes, TellEveryone, ShellsStay, Typed, Published,
               PublishedIsAlive, WaiterIsTold, CanMove
<1>14. CASE Turn
  BY <1>14 DEF Turn, Goes, TurnEnds, TurnStops, TurnRebuilds, TurnFollows, TurnShows,
               ShellsStay, Typed, Published, PublishedIsAlive, WaiterIsTold, CanMove
<1>15. CASE TakesBack
  BY <1>15 DEF TakesBack, Goes, WithdrawsGraph, TellEveryone, ShellsStay, Typed,
               Published, PublishedIsAlive, WaiterIsTold, CanMove
<1>16. CASE Clears
  BY <1>16 DEF Clears, Goes, ShellsStay, Typed, Published, PublishedIsAlive,
               WaiterIsTold, CanMove
<1>17. CASE GoesOn
  BY <1>17 DEF GoesOn, Resumes, Walks, Breaks, Stops, TellEveryone, OfTheQueue,
               Fault, ShellsStay, Typed, Published, PublishedIsAlive, WaiterIsTold,
               CanMove
<1>18. CASE Awaits
  BY <1>18 DEF Awaits, Resumes, Walks, Breaks, Stops, TellEveryone, ShellsStay,
               Typed, Published, PublishedIsAlive, WaiterIsTold, CanMove
<1>19. CASE AloneCopies
  BY <1>19 DEF AloneCopies, Goes, ShellsStay, Typed, Published, PublishedIsAlive,
               WaiterIsTold, CanMove
<1>20. CASE AloneSays
  BY <1>20 DEF AloneSays, Goes, ShellsStay, Typed, Published, PublishedIsAlive,
               WaiterIsTold, CanMove
<1>21. CASE AloneOpens
  BY <1>21 DEF AloneOpens, Fault, Stops, TellEveryone, ShellsStay, Typed, Published,
               PublishedIsAlive, WaiterIsTold, CanMove
<1>22. CASE AloneTurns
  BY <1>22 DEF AloneTurns, Goes, ShellsStay, Typed, Published, PublishedIsAlive,
               WaiterIsTold, CanMove
<1>23. CASE AloneTakesBack
  BY <1>23 DEF AloneTakesBack, Goes, TellEveryone, ShellsStay, Typed, Published,
               PublishedIsAlive, WaiterIsTold, CanMove
<1>24. CASE AloneGoesOn
  BY <1>24 DEF AloneGoesOn, Stops, Walks, TellEveryone, ShellsStay, Typed, Published,
               PublishedIsAlive, WaiterIsTold, CanMove
<1> QED BY <1>1, <1>2, <1>3, <1>4, <1>5, <1>6, <1>7, <1>8, <1>9, <1>10, <1>11, <1>12,
           <1>13, <1>14, <1>15, <1>16, <1>17, <1>18, <1>19, <1>20, <1>21, <1>22,
           <1>23, <1>24 DEF Engine

-----------------------------------------------------------------------------
(* Types. *)

RunTyped == "error" \in DOMAIN q /\ q.error \in {"none", "lost", "failed"}

LEMMA AdvancingTyped ==
    ASSUME RunTyped, NEW i
    PROVE  "error" \in DOMAIN Advanced(i) /\ Advanced(i).error = q.error
BY DEF RunTyped, Advanced

LEMMA CommandDoesTyped ==
    ASSUME RunTyped, NEW what \in Transports, Does(what)
    PROVE  RunTyped'
<1>1. CASE what \in {"pause", "resume"}
  BY <1>1 DEF Does, RunTyped
<1>2. ASSUME NEW entries, MovesTo(entries) PROVE RunTyped'
  BY <1>2 DEF MovesTo, RunTyped
<1>3. ASSUME StepsOn PROVE RunTyped'
  <2>1. CASE q' = [Advanced(q.heard) EXCEPT !.heard = Advanced(q.heard).dec]
    BY <2>1, AdvancingTyped DEF RunTyped
  <2>2. CASE UNCHANGED q
    BY <2>2 DEF RunTyped
  <2> QED BY <1>3, <2>1, <2>2 DEF StepsOn
<1>4. CASE what = "seek"
  BY <1>2, <1>4 DEF Does, Seeks
<1>5. CASE what = "next"
  BY <1>3, <1>5 DEF Does, RunTyped
<1>6. CASE what = "previous"
  BY <1>2, <1>6 DEF Does, StepsBack, RunTyped
<1> QED BY <1>1, <1>4, <1>5, <1>6 DEF Transports

LEMMA NoCopyTyped == "over" \in DOMAIN NoCopy /\ NoCopy.over = "plain"
BY DEF NoCopy

LEMMA CommandKeepsTypes ==
    ASSUME Typed, NEW s \in Shells, Command(s)
    PROVE  Typed'
<1>1. CASE \/ Play(s) \/ MoveEntry(s) \/ Enqueue(s) \/ Clear(s) \/ Stop(s)
           \/ Calibrate(s) \/ Shutdown(s)
  BY <1>1 DEF Play, MoveEntry, Enqueue, Clear, Stop, Calibrate, Shutdown, Typed, settings,
              run, shells
<1>2. CASE PlayAtReads(s)
  BY <1>2 DEF PlayAtReads, Typed, settings, run
<1>4. CASE PlayAtAsks(s) \/ Raises(s) \/ NodeTries(s)
  BY <1>4, NoCopyTyped DEF PlayAtAsks, Raises, NodeTries, Typed, settings, run
<1>5. CASE SetWrites(s)
  BY <1>5 DEF SetWrites, Typed, Configs, Wires, Chains, run
<1>6. CASE NodeWrites(s)
  BY <1>6 DEF NodeWrites, Typed, Configs, Wires, Chains, run
<1>7. CASE NodeTakesBack(s)
  <2>1. /\ config' = [config EXCEPT !.chain = "plain"]
        /\ cmd' = [cmd EXCEPT ![s] = "idle"] /\ copied' = [copied EXCEPT ![s] = NoCopy]
        /\ UNCHANGED <<public, applied, running, built, q>>
    BY <1>7 DEF NodeTakesBack, run
  <2> QED BY <2>1, NoCopyTyped DEF Typed, Configs, Wires, Chains
<1>3. ASSUME NEW what \in Transports, Transport(s, what) \/ Wakes(s) \/ WaitsOut(s)
      PROVE  Typed'
  <2>1. RunTyped'
    <3>1. RunTyped
      BY DEF Typed, RunTyped
    <3>2. CASE UNCHANGED q
      BY <3>1, <3>2 DEF RunTyped
    <3>3. CASE Does(what)
      BY <3>1, <3>3, CommandDoesTyped
    <3>4. CASE cmd[s] \in Transports /\ Does(cmd[s])
      BY <3>1, <3>4, CommandDoesTyped
    <3> QED BY <1>3, <3>2, <3>3, <3>4 DEF Transport, Wakes, WaitsOut
  <2>2. /\ UNCHANGED <<public, config, applied, running, built, copied>>
        /\ DOMAIN cmd' = DOMAIN cmd
    BY <1>3 DEF Transport, Wakes, WaitsOut, settings, run
  <2> QED BY <2>1, <2>2 DEF Typed, RunTyped
<1> QED BY <1>1, <1>2, <1>3, <1>4, <1>5, <1>6, <1>7
      DEF Command, Commanded, Continues, Transports

LEMMA GraphKeepsTypes ==
    ASSUME Typed, Graph \/ GoesWrong
    PROVE  Typed'
<1>1. RunTyped /\ UNCHANGED <<public, config, applied, running, built, cmd, copied>>
  BY GraphLeavesTheRest DEF Typed, RunTyped
<1>2. RunTyped'
  <2>1. CASE Decodes
    BY <1>1, <2>1, AdvancingTyped DEF Decodes, RunTyped
  <2>2. CASE Hears \/ PlaysOut \/ GoesWrong
    BY <1>1, <2>2 DEF Hears, PlaysOut, GoesWrong, RunTyped
  <2> QED BY <2>1, <2>2 DEF Graph
<1> QED BY <1>1, <1>2 DEF Typed, RunTyped

PublicTyped ==
    public \in [queue : BOOLEAN, list : BOOLEAN, graph : BOOLEAN,
                alone : BOOLEAN, opening : BOOLEAN]

SettingsTyped ==
    /\ config \in Configs /\ applied \in Configs /\ running \in Configs
    /\ built \in {"plain", "set"}

LEMMA EnginePublishes ==
    ASSUME PublicTyped, Engine
    PROVE  PublicTyped'
<1>1. CASE \/ Leaves \/ TakesSweep \/ Measures \/ Takes \/ Begins \/ Chooses
           \/ Copies \/ Builds \/ Unwired
  <2>1. UNCHANGED public
    BY <1>1 DEF Leaves, TakesSweep, Measures, Takes, Begins, Chooses, Copies, Builds, Unwired
  <2> QED BY <2>1 DEF PublicTyped
<1>2. CASE \/ OpensPicture \/ Starts \/ Turn \/ GoesOn \/ Awaits
           \/ AloneCopies \/ AloneTurns
  <2>1. UNCHANGED public
    BY <1>2 DEF OpensPicture, Starts, Turn, GoesOn, Awaits, AloneCopies, AloneTurns
  <2> QED BY <2>1 DEF PublicTyped
<1>3. CASE Wired
  BY <1>3 DEF Wired, PublicTyped
<1>4. CASE Publishes
  BY <1>4 DEF Publishes, PublicTyped
<1>5. CASE TakesBack
  BY <1>5 DEF TakesBack, WithdrawsGraph, PublicTyped
<1>6. CASE Clears
  BY <1>6 DEF Clears, PublicTyped
<1>7. CASE AloneSays
  BY <1>7 DEF AloneSays, PublicTyped
<1>8. CASE AloneOpens
  BY <1>8 DEF AloneOpens, PublicTyped
<1>9. CASE AloneTakesBack
  BY <1>9 DEF AloneTakesBack, PublicTyped
<1>10. CASE AloneGoesOn
  BY <1>10 DEF AloneGoesOn, PublicTyped
<1> QED BY <1>1, <1>2, <1>3, <1>4, <1>5, <1>6, <1>7, <1>8, <1>9, <1>10 DEF Engine

LEMMA EngineSets ==
    ASSUME SettingsTyped, Engine
    PROVE  SettingsTyped'
<1>1. CASE \/ Leaves \/ TakesSweep \/ Measures \/ Takes \/ Begins \/ Chooses
           \/ Unwired \/ OpensPicture
  <2>1. UNCHANGED <<config, applied, running, built>>
    BY <1>1 DEF Leaves, TakesSweep, Measures, Takes, Begins, Chooses, Unwired,
                OpensPicture, run, settings
  <2> QED BY <2>1 DEF SettingsTyped
<1>2. CASE \/ Starts \/ Publishes \/ Turn \/ TakesBack \/ Clears \/ Awaits
  <2>1. UNCHANGED <<config, applied, running, built>>
    BY <1>2 DEF Starts, Publishes, Turn, TakesBack, Clears, Awaits, run, settings
  <2> QED BY <2>1 DEF SettingsTyped
<1>3. CASE \/ AloneOpens \/ AloneTurns \/ AloneTakesBack \/ AloneGoesOn
  <2>1. UNCHANGED <<config, applied, running, built>>
    BY <1>3 DEF AloneOpens, AloneTurns, AloneTakesBack, AloneGoesOn, run, settings
  <2> QED BY <2>1 DEF SettingsTyped
<1>4. CASE Copies \/ AloneCopies
  <2>1. running' = config /\ UNCHANGED <<config, applied, built>>
    BY <1>4 DEF Copies, Copy, AloneCopies, settings
  <2> QED BY <2>1 DEF SettingsTyped
<1>5. CASE Builds
  <2>1. /\ built' = built \/ (config.chain # "bad" /\ built' = config.chain)
        /\ UNCHANGED <<config, applied, running>>
    BY <1>5 DEF Builds, Takeable, settings
  <2> QED BY <2>1 DEF SettingsTyped, Configs, Chains
<1>6. CASE Wired \/ AloneSays
  <2>1. applied' = running /\ UNCHANGED <<config, running, built>>
    BY <1>6 DEF Wired, Applies, AloneSays, run
  <2> QED BY <2>1 DEF SettingsTyped
<1>7. CASE GoesOn
  <2>1. config' \in {applied, config} /\ UNCHANGED <<applied, running, built>>
    BY <1>7 DEF GoesOn
  <2> QED BY <2>1 DEF SettingsTyped
<1> QED BY <1>1, <1>2, <1>3, <1>4, <1>5, <1>6, <1>7 DEF Engine

LEMMA EngineRuns ==
    ASSUME RunTyped, Engine
    PROVE  RunTyped'
<1>1. CASE \/ Leaves \/ TakesSweep \/ Measures \/ Begins \/ Copies \/ Builds \/ Wired
           \/ Unwired \/ OpensPicture
  <2>1. UNCHANGED q
    BY <1>1 DEF Leaves, TakesSweep, Measures, Begins, Copies, Builds, Wired, Unwired,
                OpensPicture
  <2> QED BY <2>1 DEF RunTyped
<1>2. CASE \/ Publishes \/ Turn \/ TakesBack \/ AloneCopies \/ AloneSays \/ AloneOpens
           \/ AloneTurns \/ AloneTakesBack \/ AloneGoesOn
  <2>1. UNCHANGED q
    BY <1>2 DEF Publishes, Turn, TakesBack, AloneCopies, AloneSays, AloneOpens,
                AloneTurns, AloneTakesBack, AloneGoesOn
  <2> QED BY <2>1 DEF RunTyped
<1>3. CASE Takes
  BY <1>3 DEF Takes, RunTyped, NoRun
<1>4. CASE Chooses
  <2>1. UNCHANGED q \/ q' = [NoRun EXCEPT !.dec = first, !.heard = first, !.why = "none"]
    BY <1>4 DEF Chooses
  <2> QED BY <2>1 DEF RunTyped, NoRun
<1>5. CASE Starts
  <2>1. UNCHANGED q \/ q' = [q EXCEPT !.up = TRUE, !.error = "none"]
    BY <1>5 DEF Starts
  <2> QED BY <2>1 DEF RunTyped
<1>6. CASE Clears
  BY <1>6 DEF Clears, RunTyped
<1>7. CASE GoesOn \/ Awaits
  <2>1. UNCHANGED q \/ Resumes
    BY <1>7 DEF GoesOn, Awaits, Breaks
  <2> QED BY <2>1 DEF RunTyped, Resumes
<1> QED BY <1>1, <1>2, <1>3, <1>4, <1>5, <1>6, <1>7 DEF Engine

LEMMA EngineKeepsTypes ==
    ASSUME Typed, Engine
    PROVE  Typed'
<1>1. PublicTyped /\ SettingsTyped /\ RunTyped
  BY DEF Typed, PublicTyped, SettingsTyped, RunTyped
<1>2. PublicTyped' /\ SettingsTyped' /\ RunTyped'
  BY <1>1, EnginePublishes, EngineSets, EngineRuns
<1>3. UNCHANGED <<cmd, copied>>
  BY EngineLeavesTheShells
<1> QED BY <1>2, <1>3 DEF Typed, PublicTyped, SettingsTyped, RunTyped

-----------------------------------------------------------------------------
(* Settings: whoever stands between what is configured and what plays goes  *)
(* on standing there, or raises the flag.                                    *)

LEMMA CommandSets ==
    ASSUME Typed, NEW s \in Shells, Command(s)
    PROVE  \/ rebuild' \/ Raising(s)' \/ NodeWrites(s) \/ NodeTakesBack(s)
           \/ /\ UNCHANGED <<rebuild, erased, config>>
              /\ \A t \in Shells :
                   /\ Raising(t) => Raising(t)'
                   /\ Trying(t) => \/ Raising(t)'
                                   \/ Trying(t)' /\ copied'[t].over = copied[t].over
<1> DEFINE Stays ==
      /\ UNCHANGED <<rebuild, erased, config>>
      /\ \A t \in Shells :
           /\ Raising(t) => Raising(t)'
           /\ Trying(t) => Raising(t)' \/ (Trying(t)' /\ copied'[t].over = copied[t].over)
<1>1. CASE \/ Play(s) \/ MoveEntry(s) \/ Enqueue(s) \/ Clear(s) \/ Stop(s)
           \/ Calibrate(s) \/ Shutdown(s)
  BY <1>1 DEF Play, MoveEntry, Enqueue, Clear, Stop, Calibrate, Shutdown, settings, shells,
              flags, Says, SaysNothing, Raising, Trying
<1>2. CASE PlayAtReads(s) \/ PlayAtAsks(s)
  <2>1. /\ UNCHANGED <<rebuild, erased, config>> /\ cmd[s] \in {"idle", "play_at"}
        /\ \A t \in Shells : t # s => cmd'[t] = cmd[t] /\ copied'[t] = copied[t]
    BY <1>2 DEF PlayAtReads, PlayAtAsks, Gives, Says, SaysNothing, flags, settings, Typed
  <2> QED BY <2>1 DEF Raising, Trying
<1>3. ASSUME NEW what \in Transports, Transport(s, what) \/ Wakes(s) \/ WaitsOut(s)
      PROVE  Stays
  <2>1. /\ UNCHANGED <<rebuild, erased, config, copied>>
        /\ cmd[s] \in Transports \cup {"idle"}
        /\ \A t \in Shells : t # s => cmd'[t] = cmd[t]
    BY <1>3 DEF Transport, Wakes, WaitsOut, Gives, SaysNothing, settings, history, Typed
  <2> QED BY <2>1 DEF Raising, Trying, Transports
<1>4. CASE SetWrites(s)
  BY <1>4 DEF SetWrites, Raising, Typed
<1>5. CASE NodeTries(s)
  <2>1. /\ UNCHANGED <<rebuild, erased, config, copied>>
        /\ cmd[s] = "try" /\ cmd'[s] \in {"take back", "raise"}
        /\ \A t \in Shells : t # s => cmd'[t] = cmd[t]
    BY <1>5 DEF NodeTries, flags, settings, history, Typed
  <2> QED BY <2>1 DEF Raising, Trying
<1>6. CASE Raises(s)
  BY <1>6 DEF Raises
<1> QED BY <1>1, <1>2, <1>3, <1>4, <1>5, <1>6
      DEF Command, Commanded, Continues, Transports

(* set_node's two steps that write: what it wrote over, it remembers; and a  *)
(* key that was there is not taken out unseen.                               *)
LEMMA CommandKeepsSettings ==
    ASSUME Typed, WireIsDue, ChainIsDue, NEW s \in Shells, Command(s)
    PROVE  WireIsDue' /\ ChainIsDue'
<1>1. UNCHANGED <<pc, running, built>>
  BY CommandLeavesTheRun
<1>2. CASE rebuild'
  BY <1>2 DEF WireIsDue, ChainIsDue
<1>3. CASE Raising(s)'
  BY <1>3 DEF WireIsDue, ChainIsDue
<1>4. CASE /\ UNCHANGED <<rebuild, erased, config>>
           /\ \A t \in Shells :
                /\ Raising(t) => Raising(t)'
                /\ Trying(t) => Raising(t)' \/ (Trying(t)' /\ copied'[t].over = copied[t].over)
  BY <1>1, <1>4 DEF WireIsDue, ChainIsDue
<1>5. CASE NodeWrites(s)
  <2>1. /\ cmd[s] = "idle" /\ cmd' = [cmd EXCEPT ![s] = "try"]
        /\ copied' = [copied EXCEPT ![s].over = config.chain]
        /\ UNCHANGED <<rebuild, erased>>
        /\ \E v \in {"set", "bad"} : config' = [config EXCEPT !.chain = v]
    BY <1>5 DEF NodeWrites, Gives, SaysNothing, flags
  <2>2. config'.wire = config.wire
    BY <2>1 DEF Typed, Configs
  <2>3. cmd'[s] = "try" /\ copied'[s].over = config.chain
    BY <2>1 DEF Typed
  <2>4. \A t \in Shells : t # s => cmd'[t] = cmd[t] /\ copied'[t] = copied[t]
    BY <2>1 DEF Typed
  <2>5. WireIsDue'
    BY <1>1, <2>1, <2>2, <2>4 DEF WireIsDue, Raising
  <2>6. CASE built = config.chain
    BY <1>1, <2>3, <2>5, <2>6 DEF ChainIsDue, Trying
  <2>7. CASE built # config.chain
    <3>1. SUFFICES ASSUME ~rebuild', ~erased', pc \in Making
                   PROVE  \E t \in Shells :
                            \/ Raising(t)'
                            \/ Trying(t)' /\ (built' = "set" => copied'[t].over = "set")
      BY <1>1, <2>5 DEF ChainIsDue
    <3>2. PICK t \in Shells : \/ Raising(t)
                              \/ Trying(t) /\ (built = "set" => copied[t].over = "set")
      BY <2>1, <2>7, <3>1 DEF ChainIsDue
    <3>3. t # s
      BY <2>1, <3>2 DEF Raising, Trying
    <3> QED BY <1>1, <2>4, <3>2, <3>3 DEF Raising, Trying
  <2> QED BY <2>5, <2>6, <2>7
<1>6. CASE NodeTakesBack(s)
  <2>1. /\ cmd[s] = "take back" /\ cmd' = [cmd EXCEPT ![s] = "idle"]
        /\ copied' = [copied EXCEPT ![s] = NoCopy] /\ UNCHANGED rebuild
        /\ config' = [config EXCEPT !.chain = "plain"]
    BY <1>6 DEF NodeTakesBack, flags
  <2>2. erased' <=> (erased \/ "set" \in {copied[s].over, config.chain})
    BY <1>6, Zenon DEF NodeTakesBack
  <2>3. config'.wire = config.wire /\ config'.chain = "plain"
    BY <2>1 DEF Typed, Configs
  <2>4. \A t \in Shells : t # s => cmd'[t] = cmd[t] /\ copied'[t] = copied[t]
    BY <2>1 DEF Typed
  <2>5. WireIsDue'
    BY <1>1, <2>1, <2>3, <2>4 DEF WireIsDue, Raising
  <2>6. SUFFICES ASSUME ~rebuild', ~erased', pc \in Making, built # config'.chain
                 PROVE  \E t \in Shells :
                          \/ Raising(t)'
                          \/ Trying(t)' /\ (built' = "set" => copied'[t].over = "set")
    BY <1>1, <2>5 DEF ChainIsDue
  <2>7. config.chain # "set" /\ copied[s].over # "set" /\ ~erased
    BY <2>2, <2>6
  <2>8. built = "set" /\ ~rebuild
    BY <2>1, <2>3, <2>6 DEF Typed
  <2>9. PICK t \in Shells : Raising(t) \/ (Trying(t) /\ copied[t].over = "set")
    BY <2>6, <2>7, <2>8 DEF ChainIsDue
  <2>10. t # s
    BY <2>1, <2>7, <2>9 DEF Raising
  <2> QED BY <1>1, <2>4, <2>9, <2>10 DEF Raising, Trying
<1> QED BY <1>2, <1>3, <1>4, <1>5, <1>6, CommandSets

LEMMA EngineKeepsTheWire ==
    ASSUME Typed, WireIsDue, Engine
    PROVE  WireIsDue'
<1>1. CASE Leaves
  BY <1>1, EngineLeavesTheShells DEF Leaves, ShellsStay, run, settings, Typed,
                                     WireIsDue, Uses, Making, Raising
<1>2. CASE TakesSweep
  BY <1>2, EngineLeavesTheShells DEF TakesSweep, Goes, Consumes, shells, settings,
                                     Typed, WireIsDue, Uses, Making, Raising
<1>3. CASE Measures
  BY <1>3, EngineLeavesTheShells DEF Measures, ShellsStay, run, settings, Typed,
                                     WireIsDue, Uses, Making, Raising
<1>4. CASE Takes
  BY <1>4, EngineLeavesTheShells DEF Takes, Goes, Consumes, ShellsStay, settings,
                                     Typed, WireIsDue, Uses, Making, Raising
<1>5. CASE Begins
  BY <1>5, EngineLeavesTheShells DEF Begins, ShellsStay, run, settings, Typed,
                                     WireIsDue, Uses, Making, Raising
<1>6. CASE Chooses
  BY <1>6, EngineLeavesTheShells DEF Chooses, TellEveryone, ShellsStay, settings,
                                     Typed, WireIsDue, Uses, Making, Raising
<1>7. CASE Copies
  BY <1>7, EngineLeavesTheShells DEF Copies, Goes, Copy, ShellsStay, settings, Typed,
                                     WireIsDue, Uses, Making, Raising
<1>8. CASE Builds
  BY <1>8, EngineLeavesTheShells DEF Builds, Takeable, ShellsStay, settings, Typed,
                                     WireIsDue, Uses, Making, Raising
<1>9. CASE Wired
  BY <1>9, EngineLeavesTheShells DEF Wired, Goes, Applies, ShellsStay, run, Typed,
                                     WireIsDue, Uses, Making, Raising
<1>10. CASE Unwired
  BY <1>10, EngineLeavesTheShells DEF Unwired, Goes, Fault, ShellsStay, settings,
                                      Typed, WireIsDue, Uses, Making, Raising
<1>11. CASE OpensPicture
  BY <1>11, EngineLeavesTheShells DEF OpensPicture, Goes, ShellsStay, run, settings,
                                      Typed, WireIsDue, Uses, Making, Raising
<1>12. CASE Starts
  BY <1>12, EngineLeavesTheShells DEF Starts, Fault, ShellsStay, settings, Typed,
                                      WireIsDue, Uses, Making, Raising
<1>13. CASE Publishes
  BY <1>13, EngineLeavesTheShells DEF Publishes, Goes, TellEveryone, ShellsStay,
                                      settings, Typed, WireIsDue, Uses, Making,
                                      Raising
<1>14. CASE Turn
  BY <1>14, EngineLeavesTheShells DEF Turn, Goes, TurnEnds, TurnStops, TurnRebuilds,
                                      TurnFollows, TurnShows, ShellsStay, settings,
                                      Typed, WireIsDue, Uses, Making, Raising
<1>15. CASE TakesBack
  BY <1>15, EngineLeavesTheShells DEF TakesBack, Goes, WithdrawsGraph, TellEveryone,
                                      ShellsStay, run, settings, Typed, WireIsDue,
                                      Uses, Making, Raising
<1>16. CASE Clears
  BY <1>16, EngineLeavesTheShells DEF Clears, Goes, ShellsStay, settings, Typed,
                                      WireIsDue, Uses, Making, Raising
<1>17. CASE GoesOn
  BY <1>17, EngineLeavesTheShells DEF GoesOn, Resumes, Walks, Breaks, Stops,
                                      TellEveryone, OfTheQueue, Fault, ShellsStay,
                                      Typed, WireIsDue, Uses, Making, Raising
<1>18. CASE Awaits
  BY <1>18, EngineLeavesTheShells DEF Awaits, Resumes, Walks, Breaks, Stops,
                                      TellEveryone, ShellsStay, settings, Typed,
                                      WireIsDue, Uses, Making, Raising
<1>19. CASE AloneCopies
  BY <1>19, EngineLeavesTheShells DEF AloneCopies, Goes, ShellsStay, settings, Typed,
                                      WireIsDue, Uses, Making, Raising
<1>20. CASE AloneSays
  BY <1>20, EngineLeavesTheShells DEF AloneSays, Goes, ShellsStay, run, Typed,
                                      WireIsDue, Uses, Making, Raising
<1>21. CASE AloneOpens
  BY <1>21, EngineLeavesTheShells DEF AloneOpens, Fault, Stops, TellEveryone,
                                      ShellsStay, settings, Typed, WireIsDue, Uses,
                                      Making, Raising
<1>22. CASE AloneTurns
  BY <1>22, EngineLeavesTheShells DEF AloneTurns, Goes, ShellsStay, settings, Typed,
                                      WireIsDue, Uses, Making, Raising
<1>23. CASE AloneTakesBack
  BY <1>23, EngineLeavesTheShells DEF AloneTakesBack, Goes, TellEveryone, ShellsStay,
                                      run, settings, Typed, WireIsDue, Uses, Making,
                                      Raising
<1>24. CASE AloneGoesOn
  BY <1>24, EngineLeavesTheShells DEF AloneGoesOn, Stops, Walks, TellEveryone,
                                      ShellsStay, run, settings, Typed, WireIsDue,
                                      Uses, Making, Raising
<1> QED BY <1>1, <1>2, <1>3, <1>4, <1>5, <1>6, <1>7, <1>8, <1>9, <1>10, <1>11, <1>12,
           <1>13, <1>14, <1>15, <1>16, <1>17, <1>18, <1>19, <1>20, <1>21, <1>22,
           <1>23, <1>24 DEF Engine

LEMMA EngineKeepsTheChain ==
    ASSUME Typed, ChainIsDue, Engine
    PROVE  ChainIsDue'
<1>1. CASE Leaves
  BY <1>1, EngineLeavesTheShells DEF Leaves, ShellsStay, run, settings, Typed,
                                     ChainIsDue, Making, Raising, Trying
<1>2. CASE TakesSweep
  BY <1>2, EngineLeavesTheShells DEF TakesSweep, Goes, Consumes, shells, settings,
                                     Typed, ChainIsDue, Making, Raising, Trying
<1>3. CASE Measures
  BY <1>3, EngineLeavesTheShells DEF Measures, ShellsStay, run, settings, Typed,
                                     ChainIsDue, Making, Raising, Trying
<1>4. CASE Takes
  BY <1>4, EngineLeavesTheShells DEF Takes, Goes, Consumes, ShellsStay, settings,
                                     Typed, ChainIsDue, Making, Raising, Trying
<1>5. CASE Begins
  BY <1>5, EngineLeavesTheShells DEF Begins, ShellsStay, run, settings, Typed,
                                     ChainIsDue, Making, Raising, Trying
<1>6. CASE Chooses
  BY <1>6, EngineLeavesTheShells DEF Chooses, TellEveryone, ShellsStay, settings,
                                     Typed, ChainIsDue, Making, Raising, Trying
<1>7. CASE Copies
  BY <1>7, EngineLeavesTheShells DEF Copies, Goes, Copy, ShellsStay, settings, Typed,
                                     ChainIsDue, Making, Raising, Trying
<1>8. CASE Builds
  BY <1>8, EngineLeavesTheShells DEF Builds, Takeable, ShellsStay, settings, Typed,
                                     ChainIsDue, Making, Raising, Trying
<1>9. CASE Wired
  BY <1>9, EngineLeavesTheShells DEF Wired, Goes, Applies, ShellsStay, run, Typed,
                                     ChainIsDue, Making, Raising, Trying
<1>10. CASE Unwired
  BY <1>10, EngineLeavesTheShells DEF Unwired, Goes, Fault, ShellsStay, settings,
                                      Typed, ChainIsDue, Making, Raising, Trying
<1>11. CASE OpensPicture
  BY <1>11, EngineLeavesTheShells DEF OpensPicture, Goes, ShellsStay, run, settings,
                                      Typed, ChainIsDue, Making, Raising, Trying
<1>12. CASE Starts
  BY <1>12, EngineLeavesTheShells DEF Starts, Fault, ShellsStay, settings, Typed,
                                      ChainIsDue, Making, Raising, Trying
<1>13. CASE Publishes
  BY <1>13, EngineLeavesTheShells DEF Publishes, Goes, TellEveryone, ShellsStay,
                                      settings, Typed, ChainIsDue, Making, Raising,
                                      Trying
<1>14. CASE Turn
  BY <1>14, EngineLeavesTheShells DEF Turn, Goes, TurnEnds, TurnStops, TurnRebuilds,
                                      TurnFollows, TurnShows, ShellsStay, settings,
                                      Typed, ChainIsDue, Making, Raising, Trying
<1>15. CASE TakesBack
  BY <1>15, EngineLeavesTheShells DEF TakesBack, Goes, WithdrawsGraph, TellEveryone,
                                      ShellsStay, run, settings, Typed, ChainIsDue,
                                      Making, Raising, Trying
<1>16. CASE Clears
  BY <1>16, EngineLeavesTheShells DEF Clears, Goes, ShellsStay, settings, Typed,
                                      ChainIsDue, Making, Raising, Trying
<1>17. CASE GoesOn
  BY <1>17, EngineLeavesTheShells DEF GoesOn, Resumes, Walks, Breaks, Stops,
                                      TellEveryone, OfTheQueue, Fault, ShellsStay,
                                      Typed, ChainIsDue, Making, Raising, Trying
<1>18. CASE Awaits
  BY <1>18, EngineLeavesTheShells DEF Awaits, Resumes, Walks, Breaks, Stops,
                                      TellEveryone, ShellsStay, settings, Typed,
                                      ChainIsDue, Making, Raising, Trying
<1>19. CASE AloneCopies
  BY <1>19, EngineLeavesTheShells DEF AloneCopies, Goes, ShellsStay, settings, Typed,
                                      ChainIsDue, Making, Raising, Trying
<1>20. CASE AloneSays
  BY <1>20, EngineLeavesTheShells DEF AloneSays, Goes, ShellsStay, run, Typed,
                                      ChainIsDue, Making, Raising, Trying
<1>21. CASE AloneOpens
  BY <1>21, EngineLeavesTheShells DEF AloneOpens, Fault, Stops, TellEveryone,
                                      ShellsStay, settings, Typed, ChainIsDue,
                                      Making, Raising, Trying
<1>22. CASE AloneTurns
  BY <1>22, EngineLeavesTheShells DEF AloneTurns, Goes, ShellsStay, settings, Typed,
                                      ChainIsDue, Making, Raising, Trying
<1>23. CASE AloneTakesBack
  BY <1>23, EngineLeavesTheShells DEF AloneTakesBack, Goes, TellEveryone, ShellsStay,
                                      run, settings, Typed, ChainIsDue, Making,
                                      Raising, Trying
<1>24. CASE AloneGoesOn
  BY <1>24, EngineLeavesTheShells DEF AloneGoesOn, Stops, Walks, TellEveryone,
                                      ShellsStay, run, settings, Typed, ChainIsDue,
                                      Making, Raising, Trying
<1> QED BY <1>1, <1>2, <1>3, <1>4, <1>5, <1>6, <1>7, <1>8, <1>9, <1>10, <1>11, <1>12,
           <1>13, <1>14, <1>15, <1>16, <1>17, <1>18, <1>19, <1>20, <1>21, <1>22,
           <1>23, <1>24 DEF Engine

-----------------------------------------------------------------------------
LEMMA CommandKeepsIt ==
    ASSUME Inv, NEW s \in Shells, Command(s)
    PROVE  Inv'
<1> USE DEF Inv
<1>1. /\ UNCHANGED <<pc, public, running, built, end, applied, measured>>
      /\ state' = state \/ public.graph \/ public.alone
  BY CommandLeavesTheRun
<1>2. Published'
  BY <1>1 DEF Published, PublishedIsAlive
<1>3. Meant'
  BY <1>1, CommandMeansIt DEF Meant
<1>4. WaiterIsTold'
  <2>1. CASE asleep' \subseteq asleep
    BY <1>1, <2>1 DEF WaiterIsTold, CanMove
  <2>2. CASE ~CanMove /\ state' = state
    BY <1>1, <2>2 DEF WaiterIsTold, CanMove
  <2> QED BY <2>1, <2>2, CommandSleeps
<1> QED BY <1>2, <1>3, <1>4, CommandKeepsTypes, CommandKeepsSettings

LEMMA GraphKeepsIt ==
    ASSUME Inv, Graph \/ GoesWrong
    PROVE  Inv'
<1> USE DEF Inv
<1>1. /\ UNCHANGED <<state, public, stop, rebuild, quit, config, applied, pc, running,
                     built, end, cmd, copied, asleep, wanted, erased, measured>>
  BY GraphLeavesTheRest
<1>2. Published' /\ Meant' /\ WaiterIsTold'
  BY <1>1 DEF Published, PublishedIsAlive, Meant, WaiterIsTold, CanMove
<1>3. WireIsDue' /\ ChainIsDue'
  BY <1>1 DEF WireIsDue, ChainIsDue, Raising, Trying
<1> QED BY <1>2, <1>3, GraphKeepsTypes

LEMMA EachStepKeepsIt ==
    ASSUME Inv, [Next]_vars
    PROVE  Inv'
<1>1. ASSUME NEW s \in Shells, Command(s) PROVE Inv'
  BY <1>1, CommandKeepsIt
<1>2. CASE Graph \/ GoesWrong
  BY <1>2, GraphKeepsIt
<1>3. CASE Engine
  BY <1>3, EngineKeepsTypes, EngineShowsWhatIsThere, EngineStopsAsMeant,
     EngineTellsWhoWaits, EngineKeepsTheWire, EngineKeepsTheChain DEF Inv
<1>4. CASE UNCHANGED vars
  <2>1. UNCHANGED <<state, public, stop, rebuild, quit, config, applied, pc, running, built,
                    end, q, cmd, copied, asleep, wanted, erased, measured>>
    BY <1>4 DEF vars, flags, settings, run, shells, history
  <2>2. Typed'
    BY <2>1 DEF Inv, Typed
  <2>4. Published' /\ Meant'
    BY <2>1 DEF Inv, Published, PublishedIsAlive, Meant
  <2>5. WaiterIsTold'
    BY <2>1 DEF Inv, WaiterIsTold, CanMove
  <2>3. WireIsDue' /\ ChainIsDue'
    BY <2>1 DEF Inv, WireIsDue, ChainIsDue, Raising, Trying
  <2> QED BY <2>2, <2>3, <2>4, <2>5 DEF Inv
<1> QED BY <1>1, <1>2, <1>3, <1>4 DEF Next, Command

-----------------------------------------------------------------------------
(* Where the run's queue is in its list. *)

Setting == {"copies", "builds", "wires"}
Going == {"publishes", "turns", "follows", "takes back", "clears"}
OfRun == Setting \cup Runs \cup {"ran", "awaits"}
Places == OfRun \cup Alones \cup {"idle", "gone", "measures", "begins", "chooses", "alone"}

Request == [files : Seq(Files), first : Nat \ {0}]
Copied == [files : Seq(Files), first : Nat, over : Chains]
Queue == [dec : Nat, heard : Nat, why : {"none", "end", "silent", "format"},
          up : BOOLEAN, error : {"none", "lost", "failed"}]

Flagged ==
    /\ state \in {"stopped", "playing", "paused"}
    /\ stop \in BOOLEAN /\ rebuild \in BOOLEAN /\ quit \in BOOLEAN
    /\ step \in {-1, 0, 1}
    /\ pc \in Places

Counted == asked \in 0..MaxEvents /\ sweeps \in 0..asked

Named ==
    /\ files \in Seq(Files) /\ list \in Seq(Files) /\ first \in Nat \ {0}
    /\ request = None \/ request \in Request
    /\ copied \in [Shells -> Copied]
    /\ \A s \in Shells : cmd[s] = "play_at" => copied[s].first # 0

Sleeping == asleep \subseteq Shells /\ \A s \in asleep : cmd[s] \in Transports

Pictured ==
    /\ shown \in 0..Len(list) /\ showing \in 0..Len(list)
    /\ shown # 0 => pc \in (Going \cup {"starts", "alone turns", "alone back", "alone clears"})
    /\ pc \in Alones \cup {"alone"} => first <= Len(list)

(* Where the run's queue is, and what that says of the list. *)
Placed ==
    /\ q \in Queue /\ q.heard <= q.dec /\ q.dec <= Len(list)
    /\ pc \in OfRun => q.heard >= 1
    /\ q.up => pc \in Going
    /\ pc \in Runs => public.queue
    /\ pc \in Setting \/ (pc \in {"ran", "awaits"} /\ public.list) =>
         q.heard = q.dec /\ q.why = "none"

Reached ==
    pc \in OfRun =>
      /\ q.heard < q.dec => KindAt(q.dec) # "closed"
      /\ q.why = "end" => \A i \in (q.dec + 1)..Len(list) : KindAt(i) = "closed"

(* A graph that ended by itself and without an error had played its queue.  *)
PlayedOut ==
    /\ pc \in {"publishes", "turns", "follows", "takes back"} =>
         q.up \/ q.error # "none" \/ q.why # "none"
    /\ pc \in {"takes back", "clears"} /\ end = "finished" => ~q.up
    /\ pc = "clears" /\ end = "finished" => q.error # "none" \/ q.why # "none"
    /\ pc = "ran" /\ end = "finished" => q.why # "none"

Kept == Flagged /\ Counted /\ Named /\ Sleeping /\ Pictured /\ Placed /\ Reached /\ PlayedOut

-----------------------------------------------------------------------------
(* The playlist, and the queue over it. *)

(* A set of naturals with a member has a least one. *)
LEMMA LeastMember ==
    ASSUME NEW T \in SUBSET Nat, T # {}
    PROVE  \E m \in T : \A n \in T : m <= n
<1>1. \A m, n \in Nat : n < m => <<n, m>> \in OpToRel(<, Nat)
  BY SMT DEF OpToRel
<1>2. \E m \in T : \A n \in T : <<n, m>> \notin OpToRel(<, Nat)
  BY NatLessThanWellFounded, WFMin
<1>3. PICK R : /\ \A m, n \in Nat : n < m => <<n, m>> \in R
               /\ \E m \in T : \A n \in T : <<n, m>> \notin R
  BY <1>1, <1>2, Zenon
<1>4. PICK m \in T : \A n \in T : <<n, m>> \notin R
  BY <1>3, Zenon
<1>5. \A n \in T : ~(n < m)
  BY <1>3, <1>4, Zenon
<1> QED
  BY <1>5

(* The last of some entries is one of them. *)
LEMMA LastOfThem ==
    ASSUME NEW b \in Nat, NEW T \in SUBSET (1..b), T # {}
    PROVE  Max(T) \in T
<1> DEFINE D == {b - x : x \in T}
<1>1. D \in SUBSET Nat /\ D # {}
  <2>1. PICK y \in T : TRUE
    OBVIOUS
  <2>2. b - y \in D
    BY <2>1
  <2>3. ASSUME NEW x \in T PROVE b - x \in Nat
    <3>1. x \in 1..b
      OBVIOUS
    <3> QED
      BY <3>1
  <2> QED
    BY <2>2, <2>3
<1>2. PICK d \in D : \A e \in D : d <= e
  <2> HIDE DEF D
  <2> QED
    BY <1>1, LeastMember
<1>3. PICK m \in T : d = b - m
  BY <1>2
<1>4. \A x \in T : b - m <= b - x
  BY <1>2, <1>3
<1>5. \A x \in T : m >= x
  <2> SUFFICES ASSUME NEW x \in T PROVE m >= x
    OBVIOUS
  <2>1. b - m <= b - x /\ m \in Nat /\ x \in Nat
    BY <1>4
  <2> QED
    BY <2>1
<1> QED
  BY <1>5 DEF Max

LEMMA KindIs ==
    ASSUME list \in Seq(Files), NEW i \in 1..Len(list)
    PROVE  KindAt(i) \in Kinds /\ KindAt(i) # "end"
<1>1. list[i] \in Files /\ i <= Len(list) /\ i \in Nat /\ Len(list) \in Nat
  BY LenProperties, ElementOfSeq
<1>2. Kind[list[i]] \in Kinds
  BY <1>1, PlayerAssumption
<1>3. KindAt(i) = Kind[list[i]]
  BY <1>1 DEF KindAt
<1> QED
  BY <1>2, <1>3 DEF Kinds, Formats

(* first_from: past the entries that are refused, and no further. *)
LEMMA FollowingIs ==
    ASSUME list \in Seq(Files), NEW i \in 1..(Len(list) + 1)
    PROVE  /\ Following(i) \in i..(Len(list) + 1)
           /\ KindAt(Following(i)) # "closed"
           /\ \A k \in i..(Following(i) - 1) : KindAt(k) = "closed"
<1> DEFINE n == Len(list)
           T == {j \in i..(n + 1) : KindAt(j) # "closed"}
<1>1. n \in Nat
  BY LenProperties
<1>2. KindAt(n + 1) = "end"
  BY <1>1 DEF KindAt
<1> HIDE DEF n
<1>3. T \in SUBSET Nat /\ n + 1 \in T
  BY <1>1, <1>2 DEF n
<1>4. PICK j \in T : \A k \in T : j <= k
  <2>1. T # {}
    BY <1>3
  <2> HIDE DEF T
  <2> QED
    BY <1>3, <2>1, LeastMember
<1>5. j \in i..(n + 1) /\ KindAt(j) # "closed" /\ j \in Nat /\ i \in Nat
  BY <1>1, <1>4 DEF n
<1>6. \A k \in i..(j - 1) : KindAt(k) = "closed"
  <2> SUFFICES ASSUME NEW k \in i..(j - 1), KindAt(k) # "closed" PROVE FALSE
    OBVIOUS
  <2>1. k \in T
    BY <1>1, <1>5
  <2>2. j <= k
    BY <1>4, <2>1
  <2> QED
    BY <1>5, <2>2
<1> HIDE DEF T
<1>7. Walked(i) = i..(j - 1)
  <2>1. ASSUME NEW k \in Walked(i) PROVE k \in i..(j - 1)
    <3>1. k \in i..n /\ \A m \in i..k : KindAt(m) = "closed"
      BY DEF Walked, n
    <3>2. ~(j \in i..k)
      BY <1>5, <3>1
    <3> QED
      BY <1>1, <1>5, <3>1, <3>2
  <2>2. ASSUME NEW k \in i..(j - 1) PROVE k \in Walked(i)
    <3>1. k \in i..n
      BY <1>1, <1>5
    <3>2. \A m \in i..k : m \in i..(j - 1)
      BY <1>5
    <3>3. \A m \in i..k : KindAt(m) = "closed"
      BY <1>6, <3>2
    <3> QED
      BY <3>1, <3>3 DEF Walked, n
  <2> QED
    BY <2>1, <2>2
<1>8. Cardinality(i..(j - 1)) = j - i
  <2>1. i \in Int /\ j - 1 \in Int
    BY <1>5
  <2>2. Cardinality(i..(j - 1)) = IF i > j - 1 THEN 0 ELSE (j - 1) - i + 1
    BY <2>1, FS_Interval
  <2> QED
    BY <1>5, <2>2
<1>9. Following(i) = j
  BY <1>5, <1>7, <1>8 DEF Following
<1> QED
  BY <1>5, <1>6, <1>9 DEF n

LEMMA QueueWith ==
    ASSUME q \in Queue, NEW d \in Nat, NEW v \in {"none", "end", "silent", "format"}
    PROVE  /\ [q EXCEPT !.dec = d, !.why = v] \in Queue
           /\ [q EXCEPT !.dec = d, !.why = v].dec = d
           /\ [q EXCEPT !.dec = d, !.why = v].why = v
           /\ [q EXCEPT !.dec = d, !.why = v].heard = q.heard
           /\ [q EXCEPT !.dec = d, !.why = v].up = q.up
           /\ [q EXCEPT !.dec = d, !.why = v].error = q.error
BY DEF Queue

(* advance(): the queue goes on to an entry it can join, or says what is     *)
(* next.                                                                    *)
LEMMA AdvancedIs ==
    ASSUME list \in Seq(Files), q \in Queue, NEW i \in 1..Len(list)
    PROVE  /\ Advanced(i) \in Queue
           /\ Advanced(i).heard = q.heard /\ Advanced(i).up = q.up
           /\ Advanced(i).error = q.error
           /\ Advanced(i).dec \in i..Len(list)
           /\ Advanced(i).dec > i => KindAt(Advanced(i).dec) # "closed"
           /\ Advanced(i).why = "none" => Advanced(i).dec > i
           /\ Advanced(i).why = "end" =>
                /\ Advanced(i).dec = i
                /\ \A k \in (i + 1)..Len(list) : KindAt(k) = "closed"
<1> DEFINE n == Len(list)
           j == Following(i + 1)
<1>1. n \in Nat /\ i \in Nat /\ i <= n /\ 1 <= i
  BY LenProperties
<1>2. /\ j \in (i + 1)..(n + 1) /\ KindAt(j) # "closed"
      /\ \A k \in (i + 1)..(j - 1) : KindAt(k) = "closed"
  <2>1. i + 1 \in 1..(Len(list) + 1)
    BY <1>1
  <2> QED
    BY <2>1, FollowingIs
<1>3. KindAt(i) \in Kinds /\ KindAt(i) # "end"
  BY KindIs
<1>4. KindAt(j) = "end" => j = n + 1
  BY <1>1, <1>2, KindIs
<1>5. KindAt(n + 1) = "end"
  BY <1>1 DEF KindAt
<1> HIDE DEF n, j
<1>6. CASE KindAt(j) = KindAt(i)
  <2>1. Advanced(i) = [q EXCEPT !.dec = j, !.why = "none"]
    BY <1>6 DEF Advanced, j
  <2>2. j \in (i + 1)..n
    <3>1. j # n + 1
      BY <1>3, <1>5, <1>6
    <3>2. j \in Int /\ i + 1 <= j /\ j <= n + 1
      BY <1>1, <1>2
    <3> QED
      BY <1>1, <3>1, <3>2
  <2>3. /\ Advanced(i) \in Queue /\ Advanced(i).dec = j /\ Advanced(i).why = "none"
        /\ Advanced(i).heard = q.heard /\ Advanced(i).up = q.up
        /\ Advanced(i).error = q.error
    <3>1. "none" \in {"none", "end", "silent", "format"} /\ j \in Nat
      <4>1. j \in Nat
        BY <1>1, <2>2
      <4> QED
        BY <4>1
    <3>2. /\ [q EXCEPT !.dec = j, !.why = "none"] \in Queue
          /\ [q EXCEPT !.dec = j, !.why = "none"].dec = j
          /\ [q EXCEPT !.dec = j, !.why = "none"].why = "none"
          /\ [q EXCEPT !.dec = j, !.why = "none"].heard = q.heard
          /\ [q EXCEPT !.dec = j, !.why = "none"].up = q.up
          /\ [q EXCEPT !.dec = j, !.why = "none"].error = q.error
      BY <3>1, QueueWith, ZenonT(30)
    <3> QED
      BY <2>1, <3>2
  <2> QED
    BY <1>1, <1>2, <2>2, <2>3 DEF n
<1>7. CASE KindAt(j) # KindAt(i)
  <2> DEFINE w == CASE KindAt(j) = "silent" -> "silent"
                    [] KindAt(j) = "end" -> "end"
                    [] OTHER -> "format"
  <2>1. Advanced(i) = [q EXCEPT !.dec = i, !.why = w]
    BY <1>7 DEF Advanced, j
  <2>2. w \in {"silent", "end", "format"} /\ (w = "end" => KindAt(j) = "end")
    OBVIOUS
  <2> HIDE DEF w
  <2>3. /\ Advanced(i) \in Queue /\ Advanced(i).dec = i /\ Advanced(i).why = w
        /\ Advanced(i).heard = q.heard /\ Advanced(i).up = q.up
        /\ Advanced(i).error = q.error
    <3>1. w \in {"none", "end", "silent", "format"} /\ i \in Nat
      <4>1. w \in {"none", "end", "silent", "format"}
        BY <2>2
      <4> QED
        BY <1>1, <4>1
    <3>2. /\ [q EXCEPT !.dec = i, !.why = w] \in Queue
          /\ [q EXCEPT !.dec = i, !.why = w].dec = i
          /\ [q EXCEPT !.dec = i, !.why = w].why = w
          /\ [q EXCEPT !.dec = i, !.why = w].heard = q.heard
          /\ [q EXCEPT !.dec = i, !.why = w].up = q.up
          /\ [q EXCEPT !.dec = i, !.why = w].error = q.error
      BY <3>1, QueueWith, ZenonT(30)
    <3> QED
      BY <2>1, <3>2
  <2>4. w = "end" => \A k \in (i + 1)..n : KindAt(k) = "closed"
    <3> SUFFICES ASSUME w = "end", NEW k \in (i + 1)..n PROVE KindAt(k) = "closed"
      OBVIOUS
    <3>1. k \in (i + 1)..(j - 1)
      BY <1>1, <1>4, <2>2
    <3> QED
      BY <1>2, <3>1
  <2> QED
    BY <1>1, <2>2, <2>3, <2>4 DEF n
<1> QED
  BY <1>6, <1>7

LEMMA PreviousIs ==
    ASSUME NEW i \in Nat \ {0}
    PROVE  PreviousFrom(i) \in 1..i
<1> DEFINE T == {j \in 1..(i - 1) : list[j] \notin refused}
<1>1. i - 1 \in Nat /\ T \in SUBSET (1..(i - 1))
  OBVIOUS
<1>2. CASE T = {}
  BY <1>2 DEF PreviousFrom
<1>3. CASE T # {}
  <2>1. PreviousFrom(i) = Max(T)
    BY <1>3 DEF PreviousFrom
  <2>2. Max(T) \in T
    <3> HIDE DEF T
    <3> QED
      BY <1>1, <1>3, LastOfThem
  <2> QED
    BY <2>1, <2>2
<1> QED
  BY <1>2, <1>3

(* erase() and insert() of Playlist::move. *)
LEMMA RemovedIs ==
    ASSUME NEW S, NEW s \in Seq(S), NEW i \in 1..Len(s)
    PROVE  /\ RemoveAt(s, i) \in Seq(S) /\ Len(RemoveAt(s, i)) = Len(s) - 1
           /\ \A k \in 1..(Len(s) - 1) :
                RemoveAt(s, i)[k] = IF k < i THEN s[k] ELSE s[k + 1]
<1> DEFINE n == Len(s)
           a == SubSeq(s, 1, i - 1)
           b == SubSeq(s, i + 1, n)
<1>1. n \in Nat /\ i \in Nat /\ i <= n /\ 1 <= i
  BY LenProperties
<1>2. \A k \in 1..n : s[k] \in S
  BY ElementOfSeq
<1> HIDE DEF n
<1>3. /\ a \in Seq(S) /\ Len(a) = i - 1 /\ \A k \in 1..(i - 1) : a[k] = s[k]
  <2>1. 1 \in Int /\ i - 1 \in Int /\ \A k \in 1..(i - 1) : s[k] \in S
    BY <1>1, <1>2
  <2>2. /\ a \in Seq(S) /\ Len(a) = IF 1 <= i - 1 THEN (i - 1) - 1 + 1 ELSE 0
        /\ \A k \in 1..((i - 1) - 1 + 1) : a[k] = s[1 + k - 1]
    BY <2>1, SubSeqProperties
  <2> QED
    BY <1>1, <2>2
<1>4. /\ b \in Seq(S) /\ Len(b) = n - i /\ \A k \in 1..(n - i) : b[k] = s[i + k]
  <2>1. i + 1 \in Int /\ n \in Int /\ \A k \in (i + 1)..n : s[k] \in S
    BY <1>1, <1>2
  <2>2. /\ b \in Seq(S) /\ Len(b) = IF i + 1 <= n THEN n - (i + 1) + 1 ELSE 0
        /\ \A k \in 1..(n - (i + 1) + 1) : b[k] = s[i + 1 + k - 1]
    BY <2>1, SubSeqProperties
  <2> QED
    BY <1>1, <2>2
<1>5. RemoveAt(s, i) = a \o b
  BY DEF RemoveAt, n
<1> HIDE DEF a, b
<1>6. /\ a \o b \in Seq(S) /\ Len(a \o b) = Len(a) + Len(b)
      /\ \A k \in 1..(Len(a) + Len(b)) :
           (a \o b)[k] = IF k <= Len(a) THEN a[k] ELSE b[k - Len(a)]
  BY <1>3, <1>4, ConcatProperties
<1>7. Len(a) + Len(b) = n - 1
  BY <1>1, <1>3, <1>4
<1>8. ASSUME NEW k \in 1..(n - 1)
      PROVE  (a \o b)[k] = IF k < i THEN s[k] ELSE s[k + 1]
  <2>1. CASE k < i
    <3>1. k \in 1..(i - 1) /\ k <= Len(a) /\ k \in 1..(Len(a) + Len(b))
      BY <1>1, <1>3, <1>7, <2>1
    <3> QED
      BY <1>3, <1>6, <2>1, <3>1
  <2>2. CASE ~(k < i)
    <3>1. /\ k - Len(a) \in 1..(n - i) /\ ~(k <= Len(a)) /\ k \in 1..(Len(a) + Len(b))
          /\ i + (k - Len(a)) = k + 1
      BY <1>1, <1>3, <1>7, <2>2
    <3>2. (a \o b)[k] = b[k - Len(a)]
      BY <1>6, <3>1
    <3>3. b[k - Len(a)] = s[k + 1]
      BY <1>4, <3>1
    <3> QED
      BY <2>2, <3>2, <3>3
  <2> QED
    BY <2>1, <2>2
<1> QED
  BY <1>5, <1>6, <1>7, <1>8 DEF n

LEMMA InsertedIs ==
    ASSUME NEW S, NEW s \in Seq(S), NEW i \in 1..(Len(s) + 1), NEW e \in S
    PROVE  /\ InsertAt(s, i, e) \in Seq(S) /\ Len(InsertAt(s, i, e)) = Len(s) + 1
           /\ \A k \in 1..(Len(s) + 1) :
                InsertAt(s, i, e)[k] =
                  IF k < i THEN s[k] ELSE IF k = i THEN e ELSE s[k - 1]
<1> DEFINE n == Len(s)
           a == SubSeq(s, 1, i - 1)
           c == a \o <<e>>
           b == SubSeq(s, i, n)
<1>1. n \in Nat /\ i \in Nat /\ i <= n + 1 /\ 1 <= i
  BY LenProperties
<1>2. \A k \in 1..n : s[k] \in S
  BY ElementOfSeq
<1> HIDE DEF n
<1>3. /\ a \in Seq(S) /\ Len(a) = i - 1 /\ \A k \in 1..(i - 1) : a[k] = s[k]
  <2>1. 1 \in Int /\ i - 1 \in Int /\ \A k \in 1..(i - 1) : s[k] \in S
    BY <1>1, <1>2
  <2>2. /\ a \in Seq(S) /\ Len(a) = IF 1 <= i - 1 THEN (i - 1) - 1 + 1 ELSE 0
        /\ \A k \in 1..((i - 1) - 1 + 1) : a[k] = s[1 + k - 1]
    BY <2>1, SubSeqProperties
  <2> QED
    BY <1>1, <2>2
<1>4. /\ b \in Seq(S) /\ Len(b) = n - i + 1 /\ \A k \in 1..(n - i + 1) : b[k] = s[i + k - 1]
  <2>1. i \in Int /\ n \in Int /\ \A k \in i..n : s[k] \in S
    BY <1>1, <1>2
  <2>2. /\ b \in Seq(S) /\ Len(b) = IF i <= n THEN n - i + 1 ELSE 0
        /\ \A k \in 1..(n - i + 1) : b[k] = s[i + k - 1]
    BY <2>1, SubSeqProperties
  <2> QED
    BY <1>1, <2>2
<1>5. InsertAt(s, i, e) = c \o b
  BY DEF InsertAt, n
<1> HIDE DEF a
<1>6. /\ c \in Seq(S) /\ Len(c) = i
      /\ \A k \in 1..(i - 1) : c[k] = s[k]
  <2>1. <<e>> \in Seq(S) /\ Len(<<e>>) = 1 /\ <<e>>[1] = e
    OBVIOUS
  <2>2. /\ c \in Seq(S) /\ Len(c) = Len(a) + Len(<<e>>)
        /\ \A k \in 1..(Len(a) + Len(<<e>>)) :
             c[k] = IF k <= Len(a) THEN a[k] ELSE <<e>>[k - Len(a)]
    BY <1>3, <2>1, ConcatProperties
  <2>3. Len(a) + Len(<<e>>) = i
    BY <1>1, <1>3, <2>1
  <2> QED
    BY <1>1, <1>3, <2>1, <2>2, <2>3
<1>7. c[i] = e
  <2>1. <<e>> \in Seq(S) /\ Len(<<e>>) = 1 /\ <<e>>[1] = e
    OBVIOUS
  <2>2. \A k \in 1..(Len(a) + Len(<<e>>)) :
          c[k] = IF k <= Len(a) THEN a[k] ELSE <<e>>[k - Len(a)]
    BY <1>3, <2>1, ConcatProperties
  <2>3. i \in 1..(Len(a) + Len(<<e>>)) /\ ~(i <= Len(a)) /\ i - Len(a) = 1
    BY <1>1, <1>3, <2>1
  <2>4. c[i] = <<e>>[1]
    BY <2>2, <2>3
  <2> QED
    BY <2>1, <2>4
<1> HIDE DEF b, c
<1>8. /\ c \o b \in Seq(S) /\ Len(c \o b) = Len(c) + Len(b)
      /\ \A k \in 1..(Len(c) + Len(b)) :
           (c \o b)[k] = IF k <= Len(c) THEN c[k] ELSE b[k - Len(c)]
  BY <1>4, <1>6, ConcatProperties, ZenonT(40)
<1>9. Len(c) + Len(b) = n + 1
  BY <1>1, <1>4, <1>6
<1>10. ASSUME NEW k \in 1..(n + 1)
       PROVE  (c \o b)[k] = IF k < i THEN s[k] ELSE IF k = i THEN e ELSE s[k - 1]
  <2>1. CASE k < i
    <3>1. k \in 1..(i - 1) /\ k <= Len(c) /\ k \in 1..(Len(c) + Len(b))
      BY <1>1, <1>6, <1>9, <2>1
    <3> QED
      BY <1>6, <1>8, <2>1, <3>1
  <2>2. CASE k = i
    <3>1. k <= Len(c) /\ k \in 1..(Len(c) + Len(b)) /\ ~(k < i)
      BY <1>1, <1>6, <1>9, <2>2
    <3> QED
      BY <1>7, <1>8, <2>2, <3>1
  <2>3. CASE k > i
    <3>1. /\ k - Len(c) \in 1..(n - i + 1) /\ ~(k <= Len(c)) /\ k \in 1..(Len(c) + Len(b))
          /\ i + (k - Len(c)) - 1 = k - 1 /\ ~(k < i) /\ k # i
      BY <1>1, <1>6, <1>9, <2>3
    <3>2. (c \o b)[k] = b[k - Len(c)]
      BY <1>8, <3>1
    <3>3. b[k - Len(c)] = s[k - 1]
      BY <1>4, <3>1
    <3> QED
      BY <3>1, <3>2, <3>3
  <2>4. k < i \/ k = i \/ k > i
    BY <1>1
  <2> QED
    BY <1>1, <2>1, <2>2, <2>3, <2>4
<1> QED
  BY <1>5, <1>8, <1>9, <1>10 DEF n

(* move(): nothing in front of the two places is another entry, and what     *)
(* stands behind a place in front of both stood behind it before.           *)
LEMMA MovedIs ==
    ASSUME NEW S, NEW s \in Seq(S), NEW i \in 1..Len(s), NEW j \in 1..Len(s)
    PROVE  /\ Moved(s, i, j) \in Seq(S) /\ Len(Moved(s, i, j)) = Len(s)
           /\ \A k \in 1..Len(s) : k < i /\ k < j => Moved(s, i, j)[k] = s[k]
           /\ \A d \in Nat : d < i /\ d < j =>
                \A k \in (d + 1)..Len(s) : \E m \in (d + 1)..Len(s) : Moved(s, i, j)[k] = s[m]
<1> DEFINE n == Len(s)
           r == RemoveAt(s, i)
           t == Moved(s, i, j)
<1>1. n \in Nat /\ i \in 1..n /\ j \in 1..n /\ s[i] \in S
  BY LenProperties, ElementOfSeq
<1>2. /\ r \in Seq(S) /\ Len(r) = n - 1
      /\ \A k \in 1..(n - 1) : r[k] = IF k < i THEN s[k] ELSE s[k + 1]
  BY RemovedIs
<1>3. t = InsertAt(r, j, s[i])
  BY DEF Moved
<1> HIDE DEF n, r, t
<1>4. j \in 1..(Len(r) + 1) /\ Len(r) + 1 = n
  BY <1>1, <1>2
<1>5. /\ t \in Seq(S) /\ Len(t) = n
      /\ \A k \in 1..n : t[k] = IF k < j THEN r[k] ELSE IF k = j THEN s[i] ELSE r[k - 1]
  BY <1>1, <1>2, <1>3, <1>4, InsertedIs, SMTT(30)
<1>6. ASSUME NEW k \in 1..n, k < i, k < j PROVE t[k] = s[k]
  <2>1. k \in 1..(n - 1)
    BY <1>1, <1>6
  <2> QED
    BY <1>2, <1>5, <1>6, <2>1
<1>7. ASSUME NEW d \in Nat, d < i, d < j, NEW k \in (d + 1)..n
      PROVE  \E m \in (d + 1)..n : t[k] = s[m]
  <2>0. k \in 1..n /\ i \in Nat /\ j \in Nat /\ k \in Nat /\ i <= n /\ j <= n /\ n \in Nat
    BY <1>1
  <2>1. CASE k = j
    <3>1. t[k] = s[i] /\ i \in (d + 1)..n
      BY <1>5, <1>7, <2>0, <2>1
    <3> QED
      BY <3>1
  <2>2. CASE k < j
    <3>1. t[k] = r[k] /\ k \in 1..(n - 1)
      BY <1>5, <2>0, <2>2
    <3>2. t[k] = s[k] \/ t[k] = s[k + 1]
      BY <1>2, <3>1
    <3>3. k \in (d + 1)..n /\ k + 1 \in (d + 1)..n
      BY <2>0, <3>1
    <3> QED
      BY <3>2, <3>3
  <2>3. CASE k > j
    <3>1. t[k] = r[k - 1] /\ k - 1 \in 1..(n - 1)
      <4>1. ~(k < j) /\ k # j
        BY <2>0, <2>3
      <4>2. t[k] = r[k - 1]
        BY <1>5, <2>0, <4>1
      <4>3. k - 1 \in 1..(n - 1)
        BY <1>1, <2>0, <2>3
      <4> QED
        BY <4>2, <4>3
    <3>2. t[k] = s[k - 1] \/ t[k] = s[(k - 1) + 1]
      BY <1>2, <3>1
    <3>3. (k - 1) + 1 = k /\ k \in (d + 1)..n /\ k - 1 \in (d + 1)..n
      BY <1>7, <2>0, <2>3
    <3> QED
      BY <3>2, <3>3
  <2> QED
    BY <2>0, <2>1, <2>2, <2>3
<1> QED
  BY <1>5, <1>6, <1>7 DEF n, t

-----------------------------------------------------------------------------
(* What a step keeps: flags and names. *)

LEMMA KeptAtFirst == Init => Kept
<1> SUFFICES ASSUME Init PROVE Kept
  OBVIOUS
<1>1. <<>> \in Seq(Files) /\ Len(<<>>) = 0
  BY EmptySeq
<1>2. Flagged
  BY DEF Init, Flagged, Places, OfRun, Setting, Runs, Alones
<1>7. Counted
  <2>1. MaxEvents \in Nat /\ asked = 0 /\ sweeps = 0
    BY PlayerAssumption DEF Init
  <2> QED
    BY <2>1 DEF Counted
<1>3. Named
  <2>1. NoCopy \in Copied /\ NoCopy.first = 0
    BY <1>1 DEF NoCopy, Copied, Chains
  <2> QED
    BY <1>1, <2>1 DEF Init, Named
<1>4. Sleeping /\ Pictured
  BY <1>1 DEF Init, Sleeping, Pictured, Alones
<1>5. Placed
  <2>1. NoRun \in Queue /\ NoRun.heard = 0 /\ NoRun.dec = 0 /\ ~NoRun.up
    BY DEF NoRun, Queue
  <2> QED
    BY <1>1, <2>1 DEF Init, Placed, OfRun, Setting, Runs, Going
<1>6. Reached /\ PlayedOut
  BY DEF Init, Reached, PlayedOut, OfRun, Setting, Runs
<1> QED
  BY <1>2, <1>3, <1>4, <1>5, <1>6, <1>7 DEF Kept

LEMMA EngineKeepsFlags ==
    ASSUME Flagged, Engine
    PROVE  Flagged'
<1>1. CASE Leaves
  BY <1>1 DEF Leaves, ShellsStay, run, settings, picture, Flagged, Places, OfRun,
              Setting, Runs, Alones
<1>2. CASE TakesSweep
  BY <1>2 DEF TakesSweep, Goes, Consumes, shells, settings, picture, Flagged, Places,
              OfRun, Setting, Runs, Alones
<1>3. CASE Measures
  BY <1>3 DEF Measures, ShellsStay, run, settings, picture, Flagged, Places, OfRun,
              Setting, Runs, Alones
<1>4. CASE Takes
  BY <1>4 DEF Takes, Goes, Consumes, ShellsStay, settings, Flagged, Places, OfRun,
              Setting, Runs, Alones
<1>5. CASE Begins
  BY <1>5 DEF Begins, ShellsStay, run, settings, picture, Flagged, Places, OfRun,
              Setting, Runs, Alones
<1>6. CASE Chooses
  BY <1>6 DEF Chooses, TellEveryone, ShellsStay, settings, picture, Flagged, Places,
              OfRun, Setting, Runs, Alones
<1>7. CASE Copies
  BY <1>7 DEF Copies, Goes, Copy, ShellsStay, settings, picture, Flagged, Places,
              OfRun, Setting, Runs, Alones
<1>8. CASE Builds
  BY <1>8 DEF Builds, Takeable, ShellsStay, settings, picture, Flagged, Places, OfRun,
              Setting, Runs, Alones
<1>9. CASE Wired
  BY <1>9 DEF Wired, Goes, Applies, ShellsStay, run, picture, Flagged, Places, OfRun,
              Setting, Runs, Alones
<1>10. CASE Unwired
  BY <1>10 DEF Unwired, Goes, Fault, ShellsStay, settings, picture, Flagged, Places,
               OfRun, Setting, Runs, Alones
<1>11. CASE OpensPicture
  BY <1>11 DEF OpensPicture, Goes, ShellsStay, run, settings, Flagged, Places, OfRun,
               Setting, Runs, Alones
<1>12. CASE Starts
  BY <1>12 DEF Starts, Fault, ShellsStay, settings, picture, Flagged, Places, OfRun,
               Setting, Runs, Alones
<1>13. CASE Publishes
  BY <1>13 DEF Publishes, Goes, TellEveryone, BeginsWithOpened, ShellsStay, settings,
               Flagged, Places, OfRun, Setting, Runs, Alones
<1>14. CASE Turn
  BY <1>14, ZenonT(40) DEF Turn, Goes, TurnEnds, TurnStops, TurnRebuilds, TurnFollows, TurnShows,
               ShellsStay, settings, picture, Flagged, Places, OfRun, Setting, Runs,
               Alones
<1>15. CASE TakesBack
  BY <1>15 DEF TakesBack, Goes, WithdrawsGraph, TellEveryone, ShellsStay, run,
               settings, picture, Flagged, Places, OfRun, Setting, Runs, Alones
<1>16. CASE Clears
  BY <1>16 DEF Clears, Goes, ShellsStay, settings, Flagged, Places, OfRun, Setting,
               Runs, Alones
<1>17. CASE GoesOn
  BY <1>17 DEF GoesOn, Resumes, Walks, Breaks, Stops, TellEveryone, OfTheQueue, Fault,
               ShellsStay, picture, Flagged, Places, OfRun, Setting, Runs, Alones
<1>18. CASE Awaits
  BY <1>18 DEF Awaits, Resumes, Walks, Breaks, Stops, TellEveryone, ShellsStay,
               settings, picture, Flagged, Places, OfRun, Setting, Runs, Alones
<1>19. CASE AloneCopies
  BY <1>19 DEF AloneCopies, Goes, ShellsStay, settings, picture, Flagged, Places,
               OfRun, Setting, Runs, Alones
<1>20. CASE AloneSays
  BY <1>20 DEF AloneSays, Goes, ShellsStay, run, picture, Flagged, Places, OfRun,
               Setting, Runs, Alones
<1>21. CASE AloneOpens
  BY <1>21 DEF AloneOpens, Fault, Stops, TellEveryone, ShellsStay, settings, Flagged,
               Places, OfRun, Setting, Runs, Alones
<1>22. CASE AloneTurns
  BY <1>22 DEF AloneTurns, Goes, ShellsStay, settings, picture, Flagged, Places, OfRun,
               Setting, Runs, Alones
<1>23. CASE AloneTakesBack
  BY <1>23 DEF AloneTakesBack, Goes, TellEveryone, ShellsStay, run, settings, picture,
               Flagged, Places, OfRun, Setting, Runs, Alones
<1>24. CASE AloneGoesOn
  BY <1>24 DEF AloneGoesOn, Stops, Walks, TellEveryone, ShellsStay, run, settings,
               Flagged, Places, OfRun, Setting, Runs, Alones
<1> QED BY <1>1, <1>2, <1>3, <1>4, <1>5, <1>6, <1>7, <1>8, <1>9, <1>10, <1>11, <1>12, <1>13,
           <1>14, <1>15, <1>16, <1>17, <1>18, <1>19, <1>20, <1>21, <1>22, <1>23, <1>24 DEF Engine

LEMMA EngineCounts ==
    ASSUME Engine
    PROVE  /\ asked' = asked \/ (asked < MaxEvents /\ asked' = asked + 1)
           /\ sweeps' = sweeps \/ (sweeps > 0 /\ sweeps' = sweeps - 1)
<1>1. CASE \/ Leaves \/ TakesSweep \/ Measures
           \/ Takes \/ Begins \/ Chooses
  BY <1>1 DEF Leaves, TakesSweep, Goes, Consumes, shells, settings, Measures, Takes,
              Begins, Chooses, TellEveryone, ShellsStay
<1>2. CASE \/ Copies \/ Builds \/ Wired
           \/ Unwired \/ OpensPicture \/ Starts \/ Publishes
  BY <1>2 DEF Copies, Goes, Copy, Builds, Takeable, Wired, Applies, Unwired, Fault,
              OpensPicture, Starts, Publishes, TellEveryone, ShellsStay
<1>3. CASE Turn \/ TakesBack \/ Clears \/ GoesOn \/ Awaits
  BY <1>3 DEF Turn, Goes, TurnEnds, TurnStops, TurnRebuilds, TurnFollows, TurnShows,
              TakesBack, WithdrawsGraph, TellEveryone, Clears, GoesOn, Resumes,
              Walks, Breaks, Stops, OfTheQueue, Fault, Awaits, ShellsStay
<1>4. CASE \/ AloneCopies \/ AloneSays \/ AloneOpens
           \/ AloneTurns \/ AloneTakesBack \/ AloneGoesOn
  BY <1>4 DEF AloneCopies, Goes, AloneSays, AloneOpens, Fault, Stops, TellEveryone,
              AloneTurns, AloneTakesBack, AloneGoesOn, Walks, ShellsStay
<1> QED BY <1>1, <1>2, <1>3, <1>4 DEF Engine

LEMMA EngineKeepsCounts ==
    ASSUME Counted, Engine
    PROVE  Counted'
<1>1. /\ asked' = asked \/ (asked < MaxEvents /\ asked' = asked + 1)
      /\ sweeps' = sweeps \/ (sweeps > 0 /\ sweeps' = sweeps - 1)
  BY EngineCounts
<1>2. MaxEvents \in Nat /\ asked \in 0..MaxEvents /\ sweeps \in 0..asked
  BY PlayerAssumption DEF Counted
<1> QED
  BY <1>1, <1>2 DEF Counted

LEMMA EngineKeepsNames ==
    ASSUME Named, Placed, Engine
    PROVE  Named'
<1>1. CASE Leaves
  BY <1>1 DEF Leaves, ShellsStay, run, settings, picture, Named
<1>2. CASE TakesSweep
  BY <1>2 DEF TakesSweep, Goes, Consumes, shells, settings, picture, Named
<1>3. CASE Measures
  BY <1>3 DEF Measures, ShellsStay, run, settings, picture, Named
<1>4. CASE Takes
  <2>1. request \in Request /\ list' = request.files /\ first' = request.first
    BY <1>4 DEF Takes, Named
  <2>2. list' \in Seq(Files) /\ first' \in Nat \ {0}
    BY <2>1 DEF Request
  <2>3. UNCHANGED <<files, copied, cmd>> /\ request' = None
    BY <1>4 DEF Takes, ShellsStay
  <2> QED
    BY <2>2, <2>3 DEF Named
<1>5. CASE Begins
  BY <1>5 DEF Begins, ShellsStay, run, settings, picture, Named
<1>6. CASE Chooses
  BY <1>6 DEF Chooses, TellEveryone, ShellsStay, settings, picture, Named
<1>7. CASE Copies
  BY <1>7 DEF Copies, Goes, Copy, ShellsStay, settings, picture, Named
<1>8. CASE Builds
  BY <1>8 DEF Builds, Takeable, ShellsStay, settings, picture, Named
<1>9. CASE Wired
  BY <1>9 DEF Wired, Goes, Applies, ShellsStay, run, picture, Named
<1>10. CASE Unwired
  BY <1>10 DEF Unwired, Goes, Fault, ShellsStay, settings, picture, Named
<1>11. CASE OpensPicture
  BY <1>11 DEF OpensPicture, Goes, ShellsStay, run, settings, Named
<1>12. CASE Starts
  BY <1>12 DEF Starts, Fault, ShellsStay, settings, picture, Named
<1>13. CASE Publishes
  BY <1>13 DEF Publishes, Goes, TellEveryone, BeginsWithOpened, ShellsStay, settings,
               Named
<1>14. CASE Turn
  BY <1>14 DEF Turn, Goes, TurnEnds, TurnStops, TurnRebuilds, TurnFollows, TurnShows,
               ShellsStay, settings, picture, Named
<1>15. CASE TakesBack
  BY <1>15 DEF TakesBack, Goes, WithdrawsGraph, TellEveryone, ShellsStay, run,
               settings, picture, Named
<1>16. CASE Clears
  BY <1>16 DEF Clears, Goes, ShellsStay, settings, Named
<1>17. CASE GoesOn
  <2>1. UNCHANGED <<files, list, request, copied, cmd>>
    BY <1>17 DEF GoesOn, ShellsStay
  <2>2. first' = q.dec + 1 \/ first' = first
    BY <1>17 DEF GoesOn
  <2>3. q.dec \in Nat
    BY DEF Placed, Queue
  <2> QED
    BY <2>1, <2>2, <2>3 DEF Named
<1>18. CASE Awaits
  BY <1>18 DEF Awaits, Resumes, Walks, Breaks, Stops, TellEveryone, ShellsStay,
               settings, picture, Named
<1>19. CASE AloneCopies
  BY <1>19 DEF AloneCopies, Goes, ShellsStay, settings, picture, Named
<1>20. CASE AloneSays
  BY <1>20 DEF AloneSays, Goes, ShellsStay, run, picture, Named
<1>21. CASE AloneOpens
  BY <1>21 DEF AloneOpens, Fault, Stops, TellEveryone, ShellsStay, settings, Named
<1>22. CASE AloneTurns
  BY <1>22 DEF AloneTurns, Goes, ShellsStay, settings, picture, Named
<1>23. CASE AloneTakesBack
  BY <1>23 DEF AloneTakesBack, Goes, TellEveryone, ShellsStay, run, settings, picture,
               Named
<1>24. CASE AloneGoesOn
  <2>1. UNCHANGED <<files, list, request, copied, cmd>>
    BY <1>24 DEF AloneGoesOn, ShellsStay
  <2>2. first \in Nat \ {0} /\ PreviousFrom(first) \in 1..first
    BY PreviousIs DEF Named
  <2>3. first' \in {first + 1, PreviousFrom(first), first}
    BY <1>24 DEF AloneGoesOn
  <2>4. first' \in Nat \ {0}
    BY <2>2, <2>3
  <2> QED
    BY <2>1, <2>4 DEF Named
<1> QED BY <1>1, <1>2, <1>3, <1>4, <1>5, <1>6, <1>7, <1>8, <1>9, <1>10, <1>11, <1>12, <1>13,
           <1>14, <1>15, <1>16, <1>17, <1>18, <1>19, <1>20, <1>21, <1>22, <1>23, <1>24 DEF Engine

LEMMA EngineKeepsSleepers ==
    ASSUME Sleeping, Engine
    PROVE  Sleeping'
BY EngineLeavesTheShells, EngineTells DEF Sleeping

LEMMA EngineKeepsPicture ==
    ASSUME Named, Placed, Pictured, Engine
    PROVE  Pictured'
<1>1. CASE Leaves
  BY <1>1 DEF Leaves, ShellsStay, run, settings, picture, Pictured, Going, Alones
<1>2. CASE TakesSweep
  BY <1>2 DEF TakesSweep, Goes, Consumes, shells, settings, picture, Pictured, Going,
              Alones
<1>3. CASE Measures
  BY <1>3 DEF Measures, ShellsStay, run, settings, picture, Pictured, Going, Alones
<1>4. CASE Takes
  <2>1. request \in Request /\ list' = request.files
    BY <1>4 DEF Takes, Named
  <2>2. Len(list') \in Nat
    BY <2>1, LenProperties DEF Request
  <2>3. pc = "idle" /\ shown' = shown /\ showing' = 0 /\ pc' = "begins"
    BY <1>4 DEF Takes, Goes, picture
  <2>4. shown = 0
    BY <2>3 DEF Pictured, Going
  <2>5. shown' \in 0..Len(list') /\ showing' \in 0..Len(list') /\ shown' = 0
    BY <2>2, <2>3, <2>4
  <2> QED
    BY <2>3, <2>5 DEF Pictured, Alones
<1>5. CASE Begins
  BY <1>5 DEF Begins, ShellsStay, run, settings, picture, Pictured, Going, Alones
<1>6. CASE Chooses
  <2>1. UNCHANGED <<list, shown, showing>> /\ pc = "chooses"
    BY <1>6 DEF Chooses, picture
  <2>2. pc' \in {"chooses", "alone", "copies", "idle"}
    BY <1>6 DEF Chooses
  <2>3. pc' = "alone" => first' = first /\ KindAt(first) = "silent"
    BY <1>6 DEF Chooses
  <2>4. KindAt(first) = "silent" => first <= Len(list)
    <3>1. first \in Nat /\ Len(list) \in Nat
      BY LenProperties DEF Named
    <3> QED
      BY <3>1 DEF KindAt
  <2> QED
    BY <2>1, <2>2, <2>3, <2>4 DEF Pictured, Going, Alones
<1>7. CASE Copies
  BY <1>7 DEF Copies, Goes, Copy, ShellsStay, settings, picture, Pictured, Going,
              Alones
<1>8. CASE Builds
  BY <1>8 DEF Builds, Takeable, ShellsStay, settings, picture, Pictured, Going, Alones
<1>9. CASE Wired
  BY <1>9 DEF Wired, Goes, Applies, ShellsStay, run, picture, Pictured, Going, Alones
<1>10. CASE Unwired
  BY <1>10 DEF Unwired, Goes, Fault, ShellsStay, settings, picture, Pictured, Going,
               Alones
<1>11. CASE OpensPicture
  <2>1. UNCHANGED list /\ pc' = "starts" /\ shown' = q.dec /\ showing' = q.dec
    BY <1>11 DEF OpensPicture, Goes
  <2>2. q.dec \in Nat /\ q.dec <= Len(list) /\ Len(list) \in Nat
    BY LenProperties DEF Placed, Queue, Named
  <2>3. shown' \in 0..Len(list') /\ showing' \in 0..Len(list')
    BY <2>1, <2>2
  <2> QED
    BY <2>1, <2>3 DEF Pictured, Going, Alones
<1>12. CASE Starts
  BY <1>12 DEF Starts, Fault, ShellsStay, settings, picture, Pictured, Going, Alones
<1>13. CASE Publishes
  BY <1>13 DEF Publishes, Goes, TellEveryone, BeginsWithOpened, ShellsStay, settings,
               Pictured, Going, Alones
<1>14. CASE Turn
  <2>1. UNCHANGED <<list, first>> /\ pc \in {"turns", "follows"}
        /\ pc' \in {"turns", "follows", "takes back"}
    BY <1>14 DEF Turn, Goes, TurnEnds, TurnStops, TurnRebuilds, TurnFollows, TurnShows
  <2>2. /\ shown' \in {shown, showing} /\ showing' \in {showing, q.heard}
    BY <1>14 DEF Turn, Goes, TurnEnds, TurnStops, TurnRebuilds, TurnFollows, TurnShows, picture
  <2>3. q.heard \in Nat /\ q.heard <= Len(list) /\ Len(list) \in Nat
    <3>1. q.heard \in Nat /\ q.dec \in Nat /\ q.heard <= q.dec /\ q.dec <= Len(list)
      BY DEF Placed, Queue
    <3>2. Len(list) \in Nat
      BY LenProperties DEF Named
    <3> QED
      BY <3>1, <3>2
  <2>4. shown' \in 0..Len(list') /\ showing' \in 0..Len(list')
    <3>1. shown \in 0..Len(list) /\ showing \in 0..Len(list)
      BY DEF Pictured
    <3>2. q.heard \in 0..Len(list)
      BY <2>3
    <3> QED
      BY <2>1, <2>2, <3>1, <3>2
  <2>5. pc' \in Going /\ pc' \notin Alones \cup {"alone"}
    BY <2>1 DEF Going, Alones
  <2> QED
    BY <2>4, <2>5 DEF Pictured
<1>15. CASE TakesBack
  BY <1>15 DEF TakesBack, Goes, WithdrawsGraph, TellEveryone, ShellsStay, run,
               settings, picture, Pictured, Going, Alones
<1>16. CASE Clears
  <2>1. UNCHANGED <<list, showing>> /\ pc' = "ran" /\ shown' = 0
    BY <1>16 DEF Clears, Goes
  <2>2. Len(list) \in Nat
    BY LenProperties DEF Named
  <2>3. shown' \in 0..Len(list') /\ showing' \in 0..Len(list')
    <3>1. showing \in 0..Len(list)
      BY DEF Pictured
    <3> QED
      BY <2>1, <2>2, <3>1
  <2> QED
    BY <2>1, <2>3 DEF Pictured, Alones
<1>17. CASE GoesOn
  BY <1>17 DEF GoesOn, Resumes, Walks, Breaks, Stops, TellEveryone, OfTheQueue, Fault,
               ShellsStay, picture, Pictured, Going, Alones
<1>18. CASE Awaits
  BY <1>18 DEF Awaits, Resumes, Walks, Breaks, Stops, TellEveryone, ShellsStay,
               settings, picture, Pictured, Going, Alones
<1>19. CASE AloneCopies
  BY <1>19 DEF AloneCopies, Goes, ShellsStay, settings, picture, Pictured, Going,
               Alones
<1>20. CASE AloneSays
  BY <1>20 DEF AloneSays, Goes, ShellsStay, run, picture, Pictured, Going, Alones
<1>21. CASE AloneOpens
  <2>1. UNCHANGED <<list, first, showing>> /\ pc = "alone opens"
    BY <1>21 DEF AloneOpens
  <2>2. (pc' = "alone turns" /\ shown' = first) \/ (pc' = "idle" /\ shown' = shown)
    BY <1>21 DEF AloneOpens, Stops
  <2>3. first \in Nat /\ Len(list) \in Nat /\ first <= Len(list)
    BY <2>1, LenProperties DEF Named, Pictured, Alones
  <2>4. shown' \in 0..Len(list') /\ showing' \in 0..Len(list')
    <3>1. shown \in 0..Len(list) /\ showing \in 0..Len(list)
      BY DEF Pictured
    <3>2. first \in 0..Len(list)
      BY <2>3
    <3> QED
      BY <2>1, <2>2, <3>1, <3>2
  <2>5. shown = 0
    BY <2>1 DEF Pictured, Going
  <2>6. shown' # 0 => pc' = "alone turns"
    BY <2>2, <2>5
  <2>7. pc' \in Alones \cup {"alone"} => first' <= Len(list')
    BY <2>1, <2>3
  <2> QED
    BY <2>4, <2>6, <2>7 DEF Pictured
<1>22. CASE AloneTurns
  BY <1>22 DEF AloneTurns, Goes, ShellsStay, settings, picture, Pictured, Going, Alones
<1>23. CASE AloneTakesBack
  BY <1>23 DEF AloneTakesBack, Goes, TellEveryone, ShellsStay, run, settings, picture,
               Pictured, Going, Alones
<1>24. CASE AloneGoesOn
  <2>1. UNCHANGED <<list, showing>> /\ pc' \in {"idle", "chooses"} /\ shown' = 0
    BY <1>24 DEF AloneGoesOn, Stops
  <2>2. Len(list) \in Nat
    BY LenProperties DEF Named
  <2>3. shown' \in 0..Len(list') /\ showing' \in 0..Len(list')
    <3>1. showing \in 0..Len(list)
      BY DEF Pictured
    <3> QED
      BY <2>1, <2>2, <3>1
  <2> QED
    BY <2>1, <2>3 DEF Pictured, Alones
<1> QED BY <1>1, <1>2, <1>3, <1>4, <1>5, <1>6, <1>7, <1>8, <1>9, <1>10, <1>11, <1>12, <1>13,
           <1>14, <1>15, <1>16, <1>17, <1>18, <1>19, <1>20, <1>21, <1>22, <1>23, <1>24 DEF Engine

-----------------------------------------------------------------------------
(* Where the queue is. *)

QueueAt(r, d, h, w) == r \in Queue /\ r.dec = d /\ r.heard = h /\ r.why = w

LEMMA ReachedStays ==
    ASSUME Reached, list' = list, q'.dec = q.dec, q'.heard = q.heard, q'.why = q.why,
           pc' \in OfRun => pc \in OfRun
    PROVE  Reached'
BY DEF Reached, KindAt

LEMMA ReachedFresh ==
    ASSUME q'.heard = q'.dec, q'.dec \in Nat, q'.why # "end"
    PROVE  Reached'
BY DEF Reached

LEMMA ResumedIs ==
    ASSUME q \in Queue, Resumes
    PROVE  /\ pc' = "copies" /\ q' \in Queue /\ q'.dec = q.heard /\ q'.heard = q.heard
           /\ q'.why = "none" /\ q'.up = q.up /\ q'.error = q.error
BY DEF Resumes, Queue

LEMMA EngineKeepsPlace ==
    ASSUME Typed, Named, Placed, Engine
    PROVE  Placed'
<1>1. CASE Leaves
  BY <1>1 DEF Leaves, ShellsStay, run, settings, picture, Placed, OfRun, Setting, Runs,
              Going, Typed
<1>2. CASE TakesSweep
  BY <1>2 DEF TakesSweep, Goes, Consumes, shells, settings, picture, Placed, OfRun,
              Setting, Runs, Going, Typed
<1>3. CASE Measures
  BY <1>3 DEF Measures, ShellsStay, run, settings, picture, Placed, OfRun, Setting,
              Runs, Going, Typed
<1>4. CASE Takes
  <2>1. list' = request.files /\ q' = NoRun /\ pc' = "begins"
    BY <1>4 DEF Takes, Goes
  <2>2. Len(list') \in Nat
    <3>1. request \in Request
      BY <1>4 DEF Takes, Named
    <3> QED
      BY <2>1, <3>1, LenProperties DEF Request
  <2>3. q' \in Queue /\ q'.heard = 0 /\ q'.dec = 0 /\ ~q'.up
    BY <2>1 DEF NoRun, Queue
  <2>4. q'.heard <= q'.dec /\ q'.dec <= Len(list')
    BY <2>2, <2>3
  <2> QED
    BY <2>1, <2>3, <2>4 DEF Placed, OfRun, Setting, Runs
<1>5. CASE Begins
  BY <1>5 DEF Begins, ShellsStay, run, settings, picture, Placed, OfRun, Setting, Runs,
              Going, Typed
<1>6. CASE Chooses
  <2>0. pc = "chooses" /\ UNCHANGED <<public, list>>
    BY <1>6 DEF Chooses
  <2>1. CASE KindAt(first) \in Formats
    <3>1. pc' = "copies" /\ q' = [NoRun EXCEPT !.dec = first, !.heard = first, !.why = "none"]
      BY <1>6, <2>1 DEF Chooses, Formats
    <3>2. first \in Nat /\ 1 <= first /\ Len(list) \in Nat
      BY LenProperties DEF Named
    <3>3. first <= Len(list)
      BY <2>1, <3>2 DEF KindAt, Formats
    <3>4. /\ q' \in Queue /\ q'.heard = first /\ q'.dec = first /\ q'.why = "none" /\ ~q'.up
      BY <3>1, <3>2 DEF NoRun, Queue
    <3> QED
      BY <2>0, <3>1, <3>2, <3>3, <3>4 DEF Placed, OfRun, Setting, Runs, Going
  <2>2. CASE KindAt(first) \notin Formats
    <3>1. q' = q /\ pc' \in {"chooses", "alone", "idle"}
      BY <1>6, <2>2 DEF Chooses
    <3> QED
      BY <2>0, <3>1 DEF Placed, OfRun, Setting, Runs, Going
  <2> QED
    BY <2>1, <2>2
<1>7. CASE Copies
  BY <1>7 DEF Copies, Goes, Copy, ShellsStay, settings, picture, Placed, OfRun,
              Setting, Runs, Going, Typed
<1>8. CASE Builds
  BY <1>8 DEF Builds, Takeable, ShellsStay, settings, picture, Placed, OfRun, Setting,
              Runs, Going, Typed
<1>9. CASE Wired
  BY <1>9 DEF Wired, Goes, Applies, ShellsStay, run, picture, Placed, OfRun, Setting,
              Runs, Going, Typed
<1>10. CASE Unwired
  BY <1>10 DEF Unwired, Goes, Fault, ShellsStay, settings, picture, Placed, OfRun,
               Setting, Runs, Going, Typed
<1>11. CASE OpensPicture
  BY <1>11 DEF OpensPicture, Goes, ShellsStay, run, settings, Placed, OfRun, Setting,
               Runs, Going, Typed
<1>12. CASE Starts
  <2>0. pc = "starts" /\ UNCHANGED <<public, list>>
    BY <1>12 DEF Starts
  <2>1. CASE pc' = "publishes" /\ q' = [q EXCEPT !.up = TRUE, !.error = "none"]
    <3>1. /\ q' \in Queue /\ q'.heard = q.heard /\ q'.dec = q.dec /\ q'.why = q.why
      BY <2>1 DEF Placed, Queue
    <3> QED
      BY <2>0, <2>1, <3>1 DEF Placed, OfRun, Setting, Runs, Going
  <2>2. CASE pc' = "clears" /\ q' = q
    BY <2>0, <2>2 DEF Placed, OfRun, Setting, Runs, Going
  <2> QED
    BY <1>12, <2>1, <2>2 DEF Starts
<1>13. CASE Publishes
  BY <1>13 DEF Publishes, Goes, TellEveryone, BeginsWithOpened, ShellsStay, settings,
               Placed, OfRun, Setting, Runs, Going, Typed
<1>14. CASE Turn
  BY <1>14 DEF Turn, Goes, TurnEnds, TurnStops, TurnRebuilds, TurnFollows, TurnShows,
               ShellsStay, settings, picture, Placed, OfRun, Setting, Runs, Going,
               Typed
<1>15. CASE TakesBack
  BY <1>15 DEF TakesBack, Goes, WithdrawsGraph, TellEveryone, ShellsStay, run,
               settings, picture, Placed, OfRun, Setting, Runs, Going, Typed
<1>16. CASE Clears
  <2>0. /\ pc = "clears" /\ pc' = "ran" /\ list' = list /\ q' = [q EXCEPT !.up = FALSE]
        /\ public' = [public EXCEPT !.queue = FALSE, !.list = FALSE]
    BY <1>16 DEF Clears, Goes
  <2>1. /\ q' \in Queue /\ q'.heard = q.heard /\ q'.dec = q.dec /\ ~q'.up
    BY <2>0 DEF Placed, Queue
  <2>2. ~public'.list
    BY <2>0 DEF Typed
  <2> QED
    BY <2>0, <2>1, <2>2 DEF Placed, OfRun, Setting, Runs
<1>17. CASE GoesOn
  <2>0. pc = "ran" /\ UNCHANGED <<public, list>>
    BY <1>17 DEF GoesOn
  <2>1. CASE Resumes
    <3>1. /\ pc' = "copies" /\ q' \in Queue /\ q'.dec = q.heard /\ q'.heard = q.heard
          /\ q'.why = "none" /\ q'.up = q.up
      BY <2>1, ResumedIs DEF Placed
    <3>2. q.heard \in Nat /\ q.dec \in Nat /\ Len(list) \in Nat
      BY LenProperties DEF Placed, Queue, Named
    <3> QED
      BY <2>0, <3>1, <3>2 DEF Placed, OfRun, Setting, Runs, Going
  <2>2. CASE q' = q /\ pc' \in {"awaits", "chooses", "idle"}
    BY <2>0, <2>2 DEF Placed, OfRun, Setting, Runs, Going
  <2>3. Resumes \/ (q' = q /\ pc' \in {"awaits", "chooses", "idle"})
    BY <1>17 DEF GoesOn, Breaks, Stops
  <2> QED
    BY <2>1, <2>2, <2>3
<1>18. CASE Awaits
  <2>0. pc = "awaits" /\ UNCHANGED <<public, list>>
    BY <1>18 DEF Awaits
  <2>1. CASE Resumes
    <3>1. /\ pc' = "copies" /\ q' \in Queue /\ q'.dec = q.heard /\ q'.heard = q.heard
          /\ q'.why = "none" /\ q'.up = q.up
      BY <2>1, ResumedIs DEF Placed
    <3>2. q.heard \in Nat /\ q.dec \in Nat /\ Len(list) \in Nat
      BY LenProperties DEF Placed, Queue, Named
    <3> QED
      BY <2>0, <3>1, <3>2 DEF Placed, OfRun, Setting, Runs, Going
  <2>2. CASE q' = q /\ pc' \in {"chooses", "idle"}
    BY <2>0, <2>2 DEF Placed, OfRun, Setting, Runs, Going
  <2>3. Resumes \/ (q' = q /\ pc' \in {"chooses", "idle"})
    BY <1>18 DEF Awaits, Breaks, Stops
  <2> QED
    BY <2>1, <2>2, <2>3
<1>19. CASE AloneCopies
  BY <1>19 DEF AloneCopies, Goes, ShellsStay, settings, picture, Placed, OfRun,
               Setting, Runs, Going, Typed
<1>20. CASE AloneSays
  BY <1>20 DEF AloneSays, Goes, ShellsStay, run, picture, Placed, OfRun, Setting, Runs,
               Going, Typed
<1>21. CASE AloneOpens
  BY <1>21 DEF AloneOpens, Fault, Stops, TellEveryone, ShellsStay, settings, Placed,
               OfRun, Setting, Runs, Going, Typed
<1>22. CASE AloneTurns
  BY <1>22 DEF AloneTurns, Goes, ShellsStay, settings, picture, Placed, OfRun, Setting,
               Runs, Going, Typed
<1>23. CASE AloneTakesBack
  BY <1>23 DEF AloneTakesBack, Goes, TellEveryone, ShellsStay, run, settings, picture,
               Placed, OfRun, Setting, Runs, Going, Typed
<1>24. CASE AloneGoesOn
  BY <1>24 DEF AloneGoesOn, Stops, Walks, TellEveryone, ShellsStay, run, settings,
               Placed, OfRun, Setting, Runs, Going, Typed
<1> QED BY <1>1, <1>2, <1>3, <1>4, <1>5, <1>6, <1>7, <1>8, <1>9, <1>10, <1>11, <1>12, <1>13,
           <1>14, <1>15, <1>16, <1>17, <1>18, <1>19, <1>20, <1>21, <1>22, <1>23, <1>24 DEF Engine

LEMMA EngineMoves ==
    ASSUME Typed, Named, Placed, Engine
    PROVE  \/ pc' \notin OfRun
           \/ /\ list' = list /\ q'.dec = q.dec /\ q'.heard = q.heard /\ q'.why = q.why
              /\ pc \in OfRun
           \/ q'.heard = q'.dec /\ q'.why = "none"
<1>1. CASE Leaves
  BY <1>1 DEF Leaves, ShellsStay, run, settings, picture, OfRun, Setting, Runs
<1>2. CASE TakesSweep
  BY <1>2 DEF TakesSweep, Goes, Consumes, shells, settings, picture, OfRun, Setting,
              Runs
<1>3. CASE Measures
  BY <1>3 DEF Measures, ShellsStay, run, settings, picture, OfRun, Setting, Runs
<1>4. CASE Takes
  BY <1>4 DEF Takes, Goes, Consumes, ShellsStay, settings, OfRun, Setting, Runs
<1>5. CASE Begins
  BY <1>5 DEF Begins, ShellsStay, run, settings, picture, OfRun, Setting, Runs
<1>6. CASE Chooses
  <2>1. \/ pc' \in {"chooses", "alone", "idle"}
        \/ q' = [NoRun EXCEPT !.dec = first, !.heard = first, !.why = "none"]
    BY <1>6 DEF Chooses
  <2> QED
    BY <2>1 DEF NoRun, OfRun, Setting, Runs
<1>7. CASE Copies
  BY <1>7 DEF Copies, Goes, Copy, ShellsStay, settings, picture, OfRun, Setting, Runs
<1>8. CASE Builds
  BY <1>8 DEF Builds, Takeable, ShellsStay, settings, picture, OfRun, Setting, Runs
<1>9. CASE Wired
  BY <1>9 DEF Wired, Goes, Applies, ShellsStay, run, picture, OfRun, Setting, Runs
<1>10. CASE Unwired
  BY <1>10 DEF Unwired, Goes, Fault, ShellsStay, settings, picture, OfRun, Setting,
               Runs
<1>11. CASE OpensPicture
  BY <1>11 DEF OpensPicture, Goes, ShellsStay, run, settings, OfRun, Setting, Runs
<1>12. CASE Starts
  <2>1. q' = q \/ q' = [q EXCEPT !.up = TRUE, !.error = "none"] \/ q' = [q EXCEPT !.up = FALSE]
    BY <1>12 DEF Starts
  <2>2. UNCHANGED list /\ pc \in OfRun
    BY <1>12 DEF Starts, Goes, OfRun, Runs
  <2>3. q'.dec = q.dec /\ q'.heard = q.heard /\ q'.why = q.why
    BY <2>1 DEF Placed, Queue
  <2> QED
    BY <2>2, <2>3
<1>13. CASE Publishes
  BY <1>13 DEF Publishes, Goes, TellEveryone, BeginsWithOpened, ShellsStay, settings,
               OfRun, Setting, Runs
<1>14. CASE Turn
  BY <1>14 DEF Turn, Goes, TurnEnds, TurnStops, TurnRebuilds, TurnFollows, TurnShows,
               ShellsStay, settings, picture, OfRun, Setting, Runs
<1>15. CASE TakesBack
  BY <1>15 DEF TakesBack, Goes, WithdrawsGraph, TellEveryone, ShellsStay, run,
               settings, picture, OfRun, Setting, Runs
<1>16. CASE Clears
  <2>1. q' = q \/ q' = [q EXCEPT !.up = TRUE, !.error = "none"] \/ q' = [q EXCEPT !.up = FALSE]
    BY <1>16 DEF Clears
  <2>2. UNCHANGED list /\ pc \in OfRun
    BY <1>16 DEF Clears, Goes, OfRun, Runs
  <2>3. q'.dec = q.dec /\ q'.heard = q.heard /\ q'.why = q.why
    BY <2>1 DEF Placed, Queue
  <2> QED
    BY <2>2, <2>3
<1>17. CASE GoesOn
  <2>1. Resumes \/ pc' \in {"chooses", "idle"} \/ (q' = q /\ list' = list /\ pc \in OfRun)
    BY <1>17 DEF GoesOn, Breaks, Stops, OfRun
  <2>2. ASSUME Resumes PROVE q'.heard = q'.dec /\ q'.why = "none"
    BY <2>2, ResumedIs DEF Placed
  <2>3. pc' \in {"chooses", "idle"} => pc' \notin OfRun
    BY DEF OfRun, Setting, Runs
  <2> QED
    BY <2>1, <2>2, <2>3
<1>18. CASE Awaits
  <2>1. Resumes \/ pc' \in {"chooses", "idle"} \/ (q' = q /\ list' = list /\ pc \in OfRun)
    BY <1>18 DEF Awaits, Breaks, Stops, OfRun
  <2>2. ASSUME Resumes PROVE q'.heard = q'.dec /\ q'.why = "none"
    BY <2>2, ResumedIs DEF Placed
  <2>3. pc' \in {"chooses", "idle"} => pc' \notin OfRun
    BY DEF OfRun, Setting, Runs
  <2> QED
    BY <2>1, <2>2, <2>3
<1>19. CASE AloneCopies
  BY <1>19 DEF AloneCopies, Goes, ShellsStay, settings, picture, OfRun, Setting, Runs
<1>20. CASE AloneSays
  BY <1>20 DEF AloneSays, Goes, ShellsStay, run, picture, OfRun, Setting, Runs
<1>21. CASE AloneOpens
  BY <1>21 DEF AloneOpens, Fault, Stops, TellEveryone, ShellsStay, settings, OfRun,
               Setting, Runs
<1>22. CASE AloneTurns
  BY <1>22 DEF AloneTurns, Goes, ShellsStay, settings, picture, OfRun, Setting, Runs
<1>23. CASE AloneTakesBack
  BY <1>23 DEF AloneTakesBack, Goes, TellEveryone, ShellsStay, run, settings, picture,
               OfRun, Setting, Runs
<1>24. CASE AloneGoesOn
  BY <1>24 DEF AloneGoesOn, Stops, Walks, TellEveryone, ShellsStay, run, settings,
               OfRun, Setting, Runs
<1> QED BY <1>1, <1>2, <1>3, <1>4, <1>5, <1>6, <1>7, <1>8, <1>9, <1>10, <1>11, <1>12, <1>13,
           <1>14, <1>15, <1>16, <1>17, <1>18, <1>19, <1>20, <1>21, <1>22, <1>23, <1>24 DEF Engine

LEMMA EngineKeepsReached ==
    ASSUME Typed, Named, Placed, Reached, Engine
    PROVE  Reached'
<1>1. CASE pc' \notin OfRun
  BY <1>1 DEF Reached
<1>2. CASE /\ list' = list /\ q'.dec = q.dec /\ q'.heard = q.heard /\ q'.why = q.why
           /\ pc \in OfRun
  BY <1>2, ReachedStays
<1>3. CASE q'.heard = q'.dec /\ q'.why = "none"
  <2>1. q'.dec \in Nat
    <3>1. Placed'
      BY EngineKeepsPlace
    <3> QED
      BY <3>1 DEF Placed, Queue
  <2> QED
    BY <1>3, <2>1, ReachedFresh
<1> QED
  BY <1>1, <1>2, <1>3, EngineMoves

LEMMA EngineKeepsPlayedOut ==
    ASSUME Placed, PlayedOut, Engine
    PROVE  PlayedOut'
<1>1. CASE Leaves
  BY <1>1 DEF Leaves, ShellsStay, run, settings, picture, PlayedOut
<1>2. CASE TakesSweep
  BY <1>2 DEF TakesSweep, Goes, Consumes, shells, settings, picture, PlayedOut
<1>3. CASE Measures
  BY <1>3 DEF Measures, ShellsStay, run, settings, picture, PlayedOut
<1>4. CASE Takes
  BY <1>4 DEF Takes, Goes, Consumes, ShellsStay, settings, PlayedOut
<1>5. CASE Begins
  BY <1>5 DEF Begins, ShellsStay, run, settings, picture, PlayedOut
<1>6. CASE Chooses
  <2>1. pc' \in {"copies", "alone", "chooses", "idle"}
    BY <1>6 DEF Chooses
  <2> QED
    BY <2>1 DEF PlayedOut
<1>7. CASE Copies
  BY <1>7 DEF Copies, Goes, Copy, ShellsStay, settings, picture, PlayedOut
<1>8. CASE Builds
  BY <1>8 DEF Builds, Takeable, ShellsStay, settings, picture, PlayedOut
<1>9. CASE Wired
  BY <1>9 DEF Wired, Goes, Applies, ShellsStay, run, picture, PlayedOut
<1>10. CASE Unwired
  BY <1>10 DEF Unwired, Goes, Fault, ShellsStay, settings, picture, PlayedOut
<1>11. CASE OpensPicture
  BY <1>11 DEF OpensPicture, Goes, ShellsStay, run, settings, PlayedOut
<1>12. CASE Starts
  <2>0. Placed /\ pc = "starts"
    BY <1>12 DEF Starts
  <2>1. CASE pc' = "publishes" /\ q' = [q EXCEPT !.up = TRUE, !.error = "none"]
    <3>1. q'.up
      BY <2>1 DEF Placed, Queue
    <3> QED
      BY <2>1, <3>1 DEF PlayedOut
  <2>2. CASE pc' = "clears" /\ end' \in {"lost", "failed"}
    BY <2>2 DEF PlayedOut
  <2> QED
    BY <1>12, <2>1, <2>2 DEF Starts
<1>13. CASE Publishes
  BY <1>13 DEF Publishes, Goes, TellEveryone, BeginsWithOpened, ShellsStay, settings,
               PlayedOut
<1>14. CASE Turn
  <2>0. q' = q /\ pc \in {"turns", "follows"}
    BY <1>14 DEF Turn, Goes, TurnEnds, TurnStops, TurnRebuilds, TurnFollows, TurnShows
  <2>1. \/ pc' \in {"turns", "follows"}
        \/ pc' = "takes back" /\ (~q.up \/ end' \in {"stopped", "rebuild"})
    BY <1>14 DEF Turn, Goes, TurnEnds, TurnStops, TurnRebuilds, TurnFollows, TurnShows
  <2> QED
    BY <2>0, <2>1 DEF PlayedOut
<1>15. CASE TakesBack
  BY <1>15 DEF TakesBack, Goes, WithdrawsGraph, TellEveryone, ShellsStay, run,
               settings, picture, PlayedOut
<1>16. CASE Clears
  <2>0. /\ pc = "clears" /\ pc' = "ran" /\ q' = [q EXCEPT !.up = FALSE]
        /\ end' = IF end = "finished" /\ q.error # "none" THEN q.error ELSE end
    BY <1>16 DEF Clears, Goes
  <2>1. q'.why = q.why /\ q.error \in {"none", "lost", "failed"}
    BY <2>0 DEF Placed, Queue
  <2> QED
    BY <2>0, <2>1 DEF PlayedOut
<1>17. CASE GoesOn
  <2>1. pc' \in {"copies", "awaits", "chooses", "idle"}
    BY <1>17 DEF GoesOn, Resumes, Breaks, Stops
  <2> QED
    BY <2>1 DEF PlayedOut
<1>18. CASE Awaits
  <2>1. pc' \in {"copies", "awaits", "chooses", "idle"}
    BY <1>18 DEF Awaits, Resumes, Breaks, Stops
  <2> QED
    BY <2>1 DEF PlayedOut
<1>19. CASE AloneCopies
  BY <1>19 DEF AloneCopies, Goes, ShellsStay, settings, picture, PlayedOut
<1>20. CASE AloneSays
  BY <1>20 DEF AloneSays, Goes, ShellsStay, run, picture, PlayedOut
<1>21. CASE AloneOpens
  BY <1>21 DEF AloneOpens, Fault, Stops, TellEveryone, ShellsStay, settings, PlayedOut
<1>22. CASE AloneTurns
  BY <1>22 DEF AloneTurns, Goes, ShellsStay, settings, picture, PlayedOut
<1>23. CASE AloneTakesBack
  BY <1>23 DEF AloneTakesBack, Goes, TellEveryone, ShellsStay, run, settings, picture,
               PlayedOut
<1>24. CASE AloneGoesOn
  BY <1>24 DEF AloneGoesOn, Stops, Walks, TellEveryone, ShellsStay, run, settings,
               PlayedOut
<1> QED BY <1>1, <1>2, <1>3, <1>4, <1>5, <1>6, <1>7, <1>8, <1>9, <1>10, <1>11, <1>12, <1>13,
           <1>14, <1>15, <1>16, <1>17, <1>18, <1>19, <1>20, <1>21, <1>22, <1>23, <1>24 DEF Engine

-----------------------------------------------------------------------------
(* What a command does to the queue and to the list. *)

(* Where a command may put the queue of a graph that runs. *)
PutAt(r) ==
    /\ q.up /\ r \in Queue /\ r.up /\ r.error = q.error /\ r.heard = r.dec
    /\ r.dec \in 1..Len(list)
    /\ r.why = "end" => \A k \in (r.dec + 1)..Len(list) : KindAt(k) = "closed"

(* A seek lands on an entry of the list. *)
LEMMA MovesToPuts ==
    ASSUME Placed, NEW entries \in SUBSET (1..Len(list)), MovesTo(entries)
    PROVE  q' = q \/ (public.graph /\ PutAt(q'))
<1> SUFFICES ASSUME q' # q PROVE public.graph /\ PutAt(q')
  OBVIOUS
<1>1. PICK i \in entries :
        public.graph /\ q.up /\ q' = [q EXCEPT !.dec = i, !.heard = i, !.why = "none"]
  BY DEF MovesTo
<1>2. i \in 1..Len(list) /\ i \in Nat
  OBVIOUS
<1> QED
  BY <1>1, <1>2 DEF Placed, Queue, PutAt

(* The tracks of a stretch of the list are in it. *)
LEMMA TracksAre ==
    ASSUME NEW i \in Nat \ {0}, NEW j \in Int, Len(list) \in Nat, j <= Len(list)
    PROVE  Tracks(i, j) \subseteq 1..Len(list) /\ Tracks(i, j) \subseteq 1..j
BY DEF Tracks

(* So do a skip and a step back. *)
LEMMA DoesPuts ==
    ASSUME Named, Placed, public.graph => pc \in OfRun, NEW what \in Transports, Does(what)
    PROVE  q' = q \/ (public.graph /\ PutAt(q'))
<1>1. /\ first \in Nat \ {0} /\ Len(list) \in Nat /\ list \in Seq(Files)
      /\ q.dec \in Nat /\ q.heard \in Nat /\ q.heard <= Len(list) /\ q.dec <= Len(list)
  <2>1. first \in Nat \ {0} /\ Len(list) \in Nat /\ list \in Seq(Files)
    BY LenProperties DEF Named
  <2>2. q.dec \in Nat /\ q.heard \in Nat /\ q.heard <= q.dec /\ q.dec <= Len(list)
    BY DEF Placed, Queue
  <2> QED
    BY <2>1, <2>2
<1>2. CASE ~public.graph
  BY <1>2 DEF Does, Seeks, StepsOn, StepsBack, MovesTo, Transports
<1>3. CASE public.graph
  <2>0. q.heard \in 1..Len(list)
    <3>1. q.heard >= 1
      BY <1>3 DEF Placed
    <3> QED
      BY <1>1, <3>1
  <2>1. CASE what \in {"pause", "resume"}
    BY <2>1 DEF Does
  <2>2. CASE what = "seek"
    <3>1. MovesTo(Tracks(first, q.dec))
      BY <2>2 DEF Does, Seeks
    <3>2. Tracks(first, q.dec) \subseteq 1..Len(list)
      BY <1>1, TracksAre
    <3> QED
      BY <3>1, <3>2, MovesToPuts
  <2>3. CASE what = "next"
    <3>1. q' = q \/ (q.up /\ q' = [Advanced(q.heard) EXCEPT !.heard = Advanced(q.heard).dec])
      BY <2>3 DEF Does, StepsOn
    <3>2. /\ Advanced(q.heard) \in Queue
          /\ Advanced(q.heard).up = q.up /\ Advanced(q.heard).error = q.error
          /\ Advanced(q.heard).dec \in q.heard..Len(list)
          /\ Advanced(q.heard).why = "end" =>
               /\ Advanced(q.heard).dec = q.heard
               /\ \A k \in (q.heard + 1)..Len(list) : KindAt(k) = "closed"
      <4>1. q \in Queue
        BY DEF Placed
      <4> QED
        BY <1>1, <2>0, <4>1, AdvancedIs
    <3>3. PICK r : r = Advanced(q.heard)
      OBVIOUS
    <3>4. r.dec \in 1..Len(list) /\ r.dec \in Nat
      BY <2>0, <3>2, <3>3
    <3>5. SUFFICES ASSUME q.up, q' = [r EXCEPT !.heard = r.dec] PROVE PutAt(q')
      BY <1>3, <3>1, <3>3
    <3>6. /\ q' \in Queue /\ q'.up = r.up /\ q'.error = r.error /\ q'.heard = r.dec
          /\ q'.dec = r.dec /\ q'.why = r.why
      BY <3>2, <3>3, <3>4, <3>5 DEF Queue
    <3>7. r.why = "end" => \A k \in (r.dec + 1)..Len(list) : KindAt(k) = "closed"
      BY <3>2, <3>3
    <3> QED
      BY <3>2, <3>3, <3>4, <3>5, <3>6, <3>7 DEF PutAt
  <2>4. CASE what = "previous"
    <3> DEFINE before == Tracks(first, q.heard - 1)
    <3>1. q' = q \/ MovesTo({q.heard} \cup IF before = {} THEN {} ELSE {Max(before)})
      BY <2>4 DEF Does, StepsBack
    <3>2. before \in SUBSET (1..(q.heard - 1)) /\ q.heard - 1 \in Nat
      BY <1>1, <2>0, TracksAre
    <3> HIDE DEF before
    <3>3. before # {} => Max(before) \in 1..Len(list)
      <4> SUFFICES ASSUME before # {} PROVE Max(before) \in 1..Len(list)
        OBVIOUS
      <4>1. Max(before) \in before
        BY <3>2, LastOfThem
      <4>2. Max(before) \in 1..(q.heard - 1)
        BY <3>2, <4>1
      <4> QED
        BY <1>1, <4>2
    <3>4. ({q.heard} \cup IF before = {} THEN {} ELSE {Max(before)}) \in SUBSET (1..Len(list))
      BY <2>0, <3>3
    <3> QED
      BY <3>1, <3>4, MovesToPuts
  <2> QED
    BY <2>1, <2>2, <2>3, <2>4 DEF Transports
<1> QED
  BY <1>2, <1>3

(* Only a move touches the list a run walks, behind what the run has read. *)
Reordered ==
    \E i, j \in DOMAIN list :
      /\ public.list /\ list' = Moved(list, i, j)
      /\ public.queue => i > q.dec /\ j > q.dec

(* No other command touches the list, and only the transport the queue. *)
LEMMA CommandMoves ==
    ASSUME Named, Placed, Published, NEW s \in Shells, Command(s)
    PROVE  /\ UNCHANGED <<first, shown, showing>>
           /\ \/ UNCHANGED <<list, q>>
              \/ list' = list /\ public.graph /\ PutAt(q')
              \/ q' = q /\ Reordered
<1>0. public.graph => pc \in OfRun
  BY DEF Published, PublishedIsAlive, OfRun, Runs
<1>1. CASE Play(s) \/ PlayAtReads(s) \/ Enqueue(s) \/ Clear(s) \/ Stop(s)
  BY <1>1 DEF Play, PlayAtReads, Enqueue, Clear, Stop, picture
<1>2. CASE Calibrate(s) \/ Shutdown(s) \/ SetWrites(s) \/ NodeWrites(s)
  BY <1>2 DEF Calibrate, Shutdown, SetWrites, NodeWrites, picture
<1>3. CASE MoveEntry(s)
  <2>1. UNCHANGED <<first, shown, showing, q>>
    BY <1>3 DEF MoveEntry, picture
  <2>2. PICK i, j \in DOMAIN files :
          /\ public.queue => i > q.dec /\ j > q.dec
          /\ list' = IF public.list /\ pc # "idle" /\ {i, j} \subseteq DOMAIN list
                     THEN Moved(list, i, j) ELSE list
    BY <1>3 DEF MoveEntry
  <2> QED
    BY <2>1, <2>2 DEF Reordered
<1>4. ASSUME NEW what \in Transports, Transport(s, what)
      PROVE  /\ UNCHANGED <<first, shown, showing, list>>
             /\ q' = q \/ (public.graph /\ PutAt(q'))
  <2>1. UNCHANGED <<first, shown, showing, list>>
    BY <1>4 DEF Transport, picture
  <2>2. q' = q \/ Does(what)
    BY <1>4 DEF Transport
  <2> QED
    BY <1>0, <2>1, <2>2, DoesPuts
<1>5. CASE PlayAtAsks(s) \/ NodeTries(s) \/ NodeTakesBack(s) \/ Raises(s)
  BY <1>5 DEF PlayAtAsks, NodeTries, NodeTakesBack, Raises, picture
<1>6. CASE Wakes(s) \/ WaitsOut(s)
  <2>1. UNCHANGED <<first, shown, showing, list>>
    BY <1>6 DEF Wakes, WaitsOut, picture
  <2>2. cmd[s] \in Transports /\ (q' = q \/ Does(cmd[s]))
    BY <1>6 DEF Wakes, WaitsOut
  <2> QED
    BY <1>0, <2>1, <2>2, DoesPuts
<1> QED
  BY <1>1, <1>2, <1>3, <1>4, <1>5, <1>6 DEF Command, Commanded, Continues

(* A move leaves every entry up to the decoder's where it was, and puts     *)
(* nothing new behind it.                                                    *)
LEMMA ReorderedIs ==
    ASSUME Named, Reordered
    PROVE  /\ list' \in Seq(Files) /\ Len(list') = Len(list)
           /\ public.list
           /\ public.queue /\ q.dec \in Nat =>
                \A k \in 1..Len(list) : k <= q.dec => KindAt(k)' = KindAt(k)
           /\ public.queue /\ q.dec \in Nat =>
                \A k \in (q.dec + 1)..Len(list') :
                  \E m \in (q.dec + 1)..Len(list) : KindAt(k)' = KindAt(m)
<1>1. PICK i, j \in 1..Len(list) :
        /\ public.list /\ list' = Moved(list, i, j)
        /\ public.queue => i > q.dec /\ j > q.dec
  BY LenProperties DEF Reordered, Named
<1>2. /\ Moved(list, i, j) \in Seq(Files) /\ Len(Moved(list, i, j)) = Len(list)
      /\ \A k \in 1..Len(list) : k < i /\ k < j => Moved(list, i, j)[k] = list[k]
      /\ \A d \in Nat : d < i /\ d < j =>
           \A k \in (d + 1)..Len(list) :
             \E m \in (d + 1)..Len(list) : Moved(list, i, j)[k] = list[m]
  <2>1. list \in Seq(Files)
    BY DEF Named
  <2> QED
    BY <2>1, MovedIs, ZenonT(60)
<1>3. Len(list) \in Nat
  BY LenProperties DEF Named
<1>4. \A k \in 1..Len(list) : KindAt(k)' = Kind[list'[k]] /\ KindAt(k) = Kind[list[k]]
  BY <1>1, <1>2, <1>3 DEF KindAt
<1>5. ASSUME public.queue, q.dec \in Nat, NEW k \in 1..Len(list), k <= q.dec
      PROVE  KindAt(k)' = KindAt(k)
  <2>1. k < i /\ k < j
    BY <1>1, <1>5
  <2>2. Moved(list, i, j)[k] = list[k]
    BY <1>2, <1>5, <2>1
  <2> QED
    BY <1>1, <1>4, <1>5, <2>2
<1>6. ASSUME public.queue, q.dec \in Nat, NEW k \in (q.dec + 1)..Len(list')
      PROVE  \E m \in (q.dec + 1)..Len(list) : KindAt(k)' = KindAt(m)
  <2>1. q.dec < i /\ q.dec < j /\ k \in (q.dec + 1)..Len(list)
    BY <1>1, <1>2, <1>6
  <2>2. PICK m \in (q.dec + 1)..Len(list) : Moved(list, i, j)[k] = list[m]
    BY <1>2, <1>6, <2>1
  <2>3. m \in 1..Len(list) /\ k \in 1..Len(list)
    BY <1>3, <1>6, <2>1
  <2> QED
    BY <1>1, <1>4, <2>2, <2>3
<1> QED
  BY <1>1, <1>2, <1>5, <1>6

LEMMA CommandKeepsPlace ==
    ASSUME Named, Placed, Published, NEW s \in Shells, Command(s)
    PROVE  Placed'
<1>1. UNCHANGED <<pc, public>>
  BY CommandLeavesTheRun
<1>2. CASE UNCHANGED <<list, q>>
  BY <1>1, <1>2 DEF Placed
<1>3. CASE list' = list /\ public.graph /\ PutAt(q')
  <2>1. /\ q' \in Queue /\ q'.heard <= q'.dec /\ q'.dec <= Len(list') /\ q'.heard >= 1
    BY <1>3, LenProperties DEF PutAt, Named
  <2>2. pc \in {"turns", "follows", "takes back"}
    BY <1>3 DEF Published, PublishedIsAlive
  <2> QED
    BY <1>1, <2>1, <2>2 DEF Placed, OfRun, Setting, Runs, Going
<1>4. CASE q' = q /\ Reordered
  BY <1>1, <1>4, ReorderedIs DEF Placed
<1> QED
  BY <1>2, <1>3, <1>4, CommandMoves

(* What stands behind the queue is still refused, whoever reorders it. *)
LEMMA CommandKeepsReached ==
    ASSUME Named, Placed, Reached, Published, NEW s \in Shells, Command(s)
    PROVE  Reached'
<1>1. UNCHANGED <<pc, public>>
  BY CommandLeavesTheRun
<1>2. CASE UNCHANGED <<list, q>>
  BY <1>1, <1>2, ReachedStays
<1>3. CASE list' = list /\ public.graph /\ PutAt(q')
  <2>1. q'.heard = q'.dec /\ q'.dec \in Nat
    BY <1>3 DEF PutAt, Queue
  <2>2. q'.why = "end" => \A k \in (q'.dec + 1)..Len(list) : KindAt(k) = "closed"
    BY <1>3 DEF PutAt
  <2> QED
    BY <1>3, <2>1, <2>2 DEF Reached, KindAt
<1>4. CASE q' = q /\ Reordered
  <2>1. CASE pc \notin OfRun
    BY <1>1, <2>1 DEF Reached
  <2>2. CASE pc \in OfRun /\ ~public.queue
    <3>1. pc \in Setting \cup {"ran", "awaits"} /\ public.list
      BY <1>4, <2>2, ReorderedIs DEF Placed, OfRun
    <3>2. q.heard = q.dec /\ q.why = "none" /\ q.dec \in Nat
      BY <3>1 DEF Placed, Queue
    <3> QED
      BY <1>4, <3>2, ReachedFresh
  <2>3. CASE pc \in OfRun /\ public.queue
    <3>1. /\ Len(list') = Len(list)
          /\ q.dec \in Nat => \A k \in 1..Len(list) : k <= q.dec => KindAt(k)' = KindAt(k)
          /\ q.dec \in Nat =>
               \A k \in (q.dec + 1)..Len(list') :
                 \E m \in (q.dec + 1)..Len(list) : KindAt(k)' = KindAt(m)
      BY <1>4, <2>3, ReorderedIs
    <3>2. /\ q.dec \in Nat /\ q.heard \in Nat /\ q.heard >= 1 /\ q.heard <= q.dec
          /\ q.dec <= Len(list) /\ Len(list) \in Nat
      BY <2>3, LenProperties DEF Placed, Queue, Named
    <3>3. KindAt(q.dec)' = KindAt(q.dec)
      <4>1. q.dec \in 1..Len(list) /\ q.dec <= q.dec
        BY <3>2
      <4>2. PICK d \in 1..Len(list) : d = q.dec
        BY <4>1
      <4>3. KindAt(d)' = KindAt(d)
        BY <3>1, <3>2, <4>1, <4>2
      <4> QED
        BY <1>4, <4>2, <4>3 DEF KindAt
    <3>4. /\ q.heard < q.dec => KindAt(q.dec) # "closed"
          /\ q.why = "end" => \A i \in (q.dec + 1)..Len(list) : KindAt(i) = "closed"
      BY <2>3 DEF Reached
    <3>5. q.why = "end" => \A i \in (q.dec + 1)..Len(list') : KindAt(i)' = "closed"
      BY <3>1, <3>2, <3>4
    <3> QED
      BY <1>4, <3>3, <3>4, <3>5 DEF Reached
  <2> QED
    BY <2>1, <2>2, <2>3
<1> QED
  BY <1>2, <1>3, <1>4, CommandMoves

LEMMA CommandKeepsPlayedOut ==
    ASSUME Named, Placed, PlayedOut, Published, NEW s \in Shells, Command(s)
    PROVE  PlayedOut'
<1>1. UNCHANGED <<pc, public, end>>
  BY CommandLeavesTheRun
<1>2. CASE q' = q
  BY <1>1, <1>2 DEF PlayedOut
<1>3. CASE public.graph /\ PutAt(q')
  <2>1. q.up /\ q'.up /\ pc \in {"turns", "follows", "takes back"}
    BY <1>3 DEF PutAt, Published, PublishedIsAlive
  <2> QED
    BY <1>1, <2>1 DEF PlayedOut
<1> QED
  BY <1>2, <1>3, CommandMoves

LEMMA CommandKeepsPicture ==
    ASSUME Named, Placed, Pictured, Published, NEW s \in Shells, Command(s)
    PROVE  Pictured'
<1>1. UNCHANGED <<pc, first, shown, showing>>
  BY CommandLeavesTheRun, CommandMoves
<1>2. Len(list') = Len(list)
  BY CommandMoves, ReorderedIs
<1> QED
  BY <1>1, <1>2 DEF Pictured

LEMMA CommandKeepsFlags ==
    ASSUME Flagged, NEW s \in Shells, Command(s)
    PROVE  Flagged'
<1>1. pc' = pc
  BY CommandLeavesTheRun
<1>2. ASSUME NEW what \in Transports, Does(what)
      PROVE  state' \in {state, "paused", "playing"} /\ step' \in {step, 1, -1}
  BY <1>2 DEF Does, Transports
<1>3. CASE Play(s) \/ PlayAtReads(s) \/ MoveEntry(s) \/ Enqueue(s) \/ Clear(s) \/ Stop(s)
  BY <1>1, <1>3 DEF Play, PlayAtReads, MoveEntry, Enqueue, Clear, Stop, Requests, flags,
                    Flagged
<1>4. CASE Calibrate(s) \/ Shutdown(s) \/ SetWrites(s) \/ NodeWrites(s)
  BY <1>1, <1>4 DEF Calibrate, Shutdown, SetWrites, NodeWrites, flags, Flagged
<1>5. ASSUME NEW what \in Transports, Transport(s, what)
      PROVE  Flagged'
  <2>1. UNCHANGED <<stop, rebuild, quit>>
    BY <1>5 DEF Transport
  <2>2. state' \in {state, "paused", "playing"} /\ step' \in {step, 1, -1}
    BY <1>2, <1>5 DEF Transport
  <2> QED
    BY <1>1, <2>1, <2>2 DEF Flagged
<1>6. CASE PlayAtAsks(s) \/ NodeTries(s) \/ NodeTakesBack(s) \/ Raises(s)
  BY <1>1, <1>6 DEF PlayAtAsks, NodeTries, NodeTakesBack, Raises, Requests, flags, Flagged
<1>7. CASE Wakes(s) \/ WaitsOut(s)
  <2>1. UNCHANGED <<stop, rebuild, quit>>
    BY <1>7 DEF Wakes, WaitsOut
  <2>2. state' \in {state, "paused", "playing"} /\ step' \in {step, 1, -1}
    BY <1>2, <1>7 DEF Wakes, WaitsOut
  <2> QED
    BY <1>1, <2>1, <2>2 DEF Flagged
<1> QED
  BY <1>3, <1>4, <1>5, <1>6, <1>7 DEF Command, Commanded, Continues

LEMMA CommandCounts ==
    ASSUME NEW s \in Shells, Command(s)
    PROVE  \/ UNCHANGED <<asked, sweeps>>
           \/ /\ asked < MaxEvents /\ asked' = asked + 1
              /\ sweeps' = sweeps \/ sweeps' = sweeps + 1
<1>1. CASE Play(s) \/ PlayAtReads(s) \/ MoveEntry(s) \/ Enqueue(s) \/ Clear(s) \/ Stop(s)
  BY <1>1 DEF Play, PlayAtReads, MoveEntry, Enqueue, Clear, Stop, Gives, asking
<1>2. CASE Calibrate(s) \/ Shutdown(s) \/ SetWrites(s) \/ NodeWrites(s)
  BY <1>2 DEF Calibrate, Shutdown, SetWrites, NodeWrites, Gives, asking
<1>3. ASSUME NEW what \in Transports, Transport(s, what)
      PROVE  asked < MaxEvents /\ asked' = asked + 1 /\ sweeps' = sweeps
  BY <1>3 DEF Transport, Gives, asking
<1>4. CASE PlayAtAsks(s) \/ NodeTries(s) \/ NodeTakesBack(s) \/ Raises(s)
  BY <1>4 DEF PlayAtAsks, NodeTries, NodeTakesBack, Raises, asking, history
<1>5. CASE Wakes(s) \/ WaitsOut(s)
  BY <1>5 DEF Wakes, WaitsOut, asking, history
<1> QED
  BY <1>1, <1>2, <1>3, <1>4, <1>5 DEF Command, Commanded, Continues

LEMMA CommandKeepsCounts ==
    ASSUME Counted, NEW s \in Shells, Command(s)
    PROVE  Counted'
<1>1. \/ UNCHANGED <<asked, sweeps>>
      \/ /\ asked < MaxEvents /\ asked' = asked + 1
         /\ sweeps' = sweeps \/ sweeps' = sweeps + 1
  BY CommandCounts
<1>2. MaxEvents \in Nat /\ asked \in 0..MaxEvents /\ sweeps \in 0..asked
  BY PlayerAssumption DEF Counted
<1> QED
  BY <1>1, <1>2 DEF Counted

LEMMA CommandKeepsSleepers ==
    ASSUME Sleeping, DOMAIN cmd = Shells, NEW s \in Shells, Command(s)
    PROVE  Sleeping'
<1>1. CASE Play(s) \/ MoveEntry(s) \/ Enqueue(s) \/ Clear(s) \/ Stop(s)
  BY <1>1 DEF Play, MoveEntry, Enqueue, Clear, Stop, shells, Sleeping
<1>2. CASE Calibrate(s) \/ Shutdown(s)
  BY <1>2 DEF Calibrate, Shutdown, shells, Sleeping
<1>3. CASE PlayAtReads(s) \/ SetWrites(s) \/ NodeWrites(s)
  <2>1. asleep' = asleep /\ cmd[s] = "idle"
    BY <1>3 DEF PlayAtReads, SetWrites, NodeWrites, Gives
  <2>2. \A o \in Shells : o # s => cmd'[o] = cmd[o]
    BY <1>3 DEF PlayAtReads, SetWrites, NodeWrites
  <2> QED
    BY <2>1, <2>2 DEF Sleeping, Transports
<1>4. ASSUME NEW what \in Transports, Transport(s, what)
      PROVE  Sleeping'
  <2>1. \/ UNCHANGED <<cmd, asleep>>
        \/ cmd' = [cmd EXCEPT ![s] = what] /\ asleep' = asleep \cup {s}
    BY <1>4 DEF Transport
  <2> QED
    BY <1>4, <2>1 DEF Sleeping
<1>5. CASE PlayAtAsks(s) \/ NodeTries(s) \/ NodeTakesBack(s) \/ Raises(s)
  <2>1. asleep' = asleep /\ cmd[s] \notin Transports
    BY <1>5 DEF PlayAtAsks, NodeTries, NodeTakesBack, Raises, Transports
  <2>2. \A o \in Shells : o # s => cmd'[o] = cmd[o]
    BY <1>5 DEF PlayAtAsks, NodeTries, NodeTakesBack, Raises
  <2> QED
    BY <2>1, <2>2 DEF Sleeping
<1>6. CASE Wakes(s) \/ WaitsOut(s)
  <2>1. cmd[s] \in Transports
    BY <1>6 DEF Wakes, WaitsOut
  <2>2. \/ cmd' = [cmd EXCEPT ![s] = "idle"] /\ asleep' = asleep /\ s \notin asleep
        \/ cmd' = cmd /\ asleep' = asleep \cup {s}
        \/ cmd' = [cmd EXCEPT ![s] = "idle"] /\ asleep' = asleep \ {s}
    BY <1>6 DEF Wakes, WaitsOut
  <2> QED
    BY <2>1, <2>2 DEF Sleeping
<1> QED
  BY <1>1, <1>2, <1>3, <1>4, <1>5, <1>6 DEF Command, Commanded, Continues

LEMMA CommandKeepsNames ==
    ASSUME Typed, Named, Placed, Published, NEW s \in Shells, Command(s)
    PROVE  Named'
<1>1. first' = first /\ list' \in Seq(Files)
  BY CommandMoves, ReorderedIs DEF Named
<1>2. NoCopy \in Copied
  BY EmptySeq DEF NoCopy, Copied, Chains
<1>3. CASE Play(s) \/ Clear(s) \/ Stop(s)
  <2>1. UNCHANGED <<cmd, copied>>
    BY <1>3 DEF Play, Clear, Stop, shells
  <2>2. files' \in Seq(Files)
    <3>1. files' \in Lists \/ files' = <<>> \/ files' = files
      BY <1>3 DEF Play, Clear, Stop, Requests
    <3> QED
      BY <3>1, EmptySeq, PlayerAssumption DEF Named
  <2>3. request' = None \/ request' \in Request
    <3>1. request' = None \/ \E l \in Lists : request' = [files |-> l, first |-> 1]
      BY <1>3 DEF Play, Clear, Stop, Requests
    <3> QED
      BY <3>1, PlayerAssumption DEF Request
  <2> QED
    BY <1>1, <2>1, <2>2, <2>3 DEF Named
<1>4. CASE Calibrate(s) \/ Shutdown(s)
  <2>1. UNCHANGED <<cmd, copied, files, request>>
    BY <1>4 DEF Calibrate, Shutdown, shells, asking
  <2> QED
    BY <1>1, <2>1 DEF Named
<1>5. CASE Enqueue(s)
  <2>1. UNCHANGED <<cmd, copied, request>> /\ \E f \in Files : files' = Append(files, f)
    BY <1>5 DEF Enqueue, shells
  <2>2. files' \in Seq(Files)
    BY <2>1, AppendProperties DEF Named
  <2> QED
    BY <1>1, <2>1, <2>2 DEF Named
<1>6. CASE MoveEntry(s)
  <2>1. UNCHANGED <<cmd, copied, request>> /\ \E i, j \in DOMAIN files : files' = Moved(files, i, j)
    BY <1>6 DEF MoveEntry, shells
  <2>2. files' \in Seq(Files)
    <3>1. PICK i, j \in 1..Len(files) : files' = Moved(files, i, j)
      BY <2>1, LenProperties DEF Named
    <3> QED
      BY <3>1, MovedIs DEF Named
  <2> QED
    BY <1>1, <2>1, <2>2 DEF Named
<1>7. CASE PlayAtReads(s)
  <2>1. /\ UNCHANGED <<files, request>> /\ cmd' = [cmd EXCEPT ![s] = "play_at"]
        /\ \E i \in DOMAIN files : copied' = [copied EXCEPT ![s].files = files, ![s].first = i]
    BY <1>7 DEF PlayAtReads, asking
  <2>2. PICK i \in 1..Len(files) :
          copied' = [copied EXCEPT ![s].files = files, ![s].first = i]
    BY <2>1, LenProperties DEF Named
  <2>3. PICK c \in Copied : c = copied[s]
    BY DEF Named
  <2>4. copied' = [copied EXCEPT ![s] = [c EXCEPT !.files = files, !.first = i]]
    BY <2>2, <2>3 DEF Named, Copied
  <2>5. /\ [c EXCEPT !.files = files, !.first = i] \in Copied
        /\ [c EXCEPT !.files = files, !.first = i].first # 0
    <3>1. i \in Nat /\ i # 0 /\ files \in Seq(Files)
      BY LenProperties DEF Named
    <3> QED
      BY <3>1 DEF Copied
  <2>6. copied' \in [Shells -> Copied] /\ copied'[s].first # 0
    BY <2>4, <2>5 DEF Named
  <2>7. \A o \in Shells : o # s => cmd'[o] = cmd[o] /\ copied'[o] = copied[o]
    BY <2>1, <2>4 DEF Named, Typed
  <2>8. \A o \in Shells : cmd'[o] = "play_at" => copied'[o].first # 0
    BY <2>6, <2>7 DEF Named
  <2> QED
    BY <1>1, <2>1, <2>6, <2>8 DEF Named
<1>8. CASE PlayAtAsks(s)
  <2>1. /\ files' = copied[s].files /\ cmd[s] = "play_at"
        /\ request' = [files |-> copied[s].files, first |-> copied[s].first]
        /\ cmd' = [cmd EXCEPT ![s] = "idle"] /\ copied' = [copied EXCEPT ![s] = NoCopy]
    BY <1>8 DEF PlayAtAsks, Requests
  <2>2. copied[s].files \in Seq(Files) /\ copied[s].first \in Nat \ {0}
    BY <2>1 DEF Named, Copied
  <2>3. copied' \in [Shells -> Copied]
    BY <1>2, <2>1 DEF Named
  <2>4. \A o \in Shells : cmd'[o] = "play_at" => copied'[o].first # 0
    BY <2>1 DEF Named, Typed
  <2>5. request' \in Request
    BY <2>1, <2>2 DEF Request
  <2> QED
    BY <1>1, <2>1, <2>2, <2>3, <2>4, <2>5 DEF Named
<1>9. CASE SetWrites(s) \/ NodeTries(s)
  <2>1. UNCHANGED <<files, request, copied>>
    BY <1>9 DEF SetWrites, NodeTries, asking
  <2>2. \A o \in Shells : cmd'[o] = "play_at" => cmd[o] = "play_at"
    BY <1>9 DEF SetWrites, NodeTries, Typed
  <2> QED
    BY <1>1, <2>1, <2>2 DEF Named
<1>10. CASE NodeWrites(s)
  <2>1. /\ UNCHANGED <<files, request>> /\ cmd' = [cmd EXCEPT ![s] = "try"]
        /\ copied' = [copied EXCEPT ![s].over = config.chain]
    BY <1>10 DEF NodeWrites, asking
  <2>2. PICK c \in Copied : c = copied[s]
    BY DEF Named
  <2>3. copied' = [copied EXCEPT ![s] = [c EXCEPT !.over = config.chain]]
    BY <2>1, <2>2 DEF Named, Copied
  <2>4. [c EXCEPT !.over = config.chain] \in Copied
    BY DEF Copied, Typed, Configs
  <2>5. copied' \in [Shells -> Copied]
    BY <2>3, <2>4 DEF Named
  <2>6. \A o \in Shells : cmd'[o] = "play_at" => copied'[o].first # 0
    BY <2>1, <2>3 DEF Named, Typed
  <2> QED
    BY <1>1, <2>1, <2>5, <2>6 DEF Named
<1>11. CASE NodeTakesBack(s) \/ Raises(s)
  <2>1. /\ UNCHANGED <<files, request>> /\ cmd' = [cmd EXCEPT ![s] = "idle"]
        /\ copied' = [copied EXCEPT ![s] = NoCopy]
    BY <1>11 DEF NodeTakesBack, Raises, asking
  <2>2. copied' \in [Shells -> Copied]
    BY <1>2, <2>1 DEF Named
  <2>3. \A o \in Shells : cmd'[o] = "play_at" => copied'[o].first # 0
    BY <2>1 DEF Named, Typed
  <2> QED
    BY <1>1, <2>1, <2>2, <2>3 DEF Named
<1>12. ASSUME NEW what \in Transports, Transport(s, what)
       PROVE  Named'
  <2>1. UNCHANGED <<files, request, copied>>
    BY <1>12 DEF Transport, asking
  <2>2. \A o \in Shells : cmd'[o] = "play_at" => cmd[o] = "play_at"
    BY <1>12 DEF Transport, Transports, Typed
  <2> QED
    BY <1>1, <2>1, <2>2 DEF Named
<1>13. CASE Wakes(s) \/ WaitsOut(s)
  <2>1. UNCHANGED <<files, request, copied>>
    BY <1>13 DEF Wakes, WaitsOut, asking
  <2>2. \A o \in Shells : cmd'[o] = "play_at" => cmd[o] = "play_at"
    BY <1>13 DEF Wakes, WaitsOut, Typed
  <2> QED
    BY <1>1, <2>1, <2>2 DEF Named
<1> QED
  BY <1>3, <1>4, <1>5, <1>6, <1>7, <1>8, <1>9, <1>10, <1>11, <1>12, <1>13
     DEF Command, Commanded, Continues

-----------------------------------------------------------------------------
(* What the graph does to its queue. *)

(* The decoder goes on past what does not open, the device up to the         *)
(* decoder's entry and no further.                                           *)
LEMMA GraphMovesTheQueue ==
    ASSUME Named, Placed, Reached, PlayedOut, Graph \/ GoesWrong
    PROVE  /\ q' \in Queue /\ q'.heard <= q'.dec /\ q'.dec <= Len(list) /\ q'.heard >= 1
           /\ q.up /\ pc \in Going
           /\ q'.heard < q'.dec => KindAt(q'.dec) # "closed"
           /\ q'.why = "end" => \A i \in (q'.dec + 1)..Len(list) : KindAt(i) = "closed"
           /\ q'.up \/ q'.error # "none" \/ q'.why # "none"
<1>1. q.up /\ pc \in Going /\ pc \in OfRun
  BY DEF Graph, Decodes, Hears, PlaysOut, GoesWrong, Placed, Going, OfRun, Runs
<1>2. /\ q.dec \in Nat /\ q.heard \in Nat /\ 1 <= q.heard /\ q.heard <= q.dec
      /\ q.dec <= Len(list) /\ Len(list) \in Nat /\ list \in Seq(Files) /\ q \in Queue
  BY <1>1, LenProperties DEF Placed, Queue, Named
<1>3. /\ q.heard < q.dec => KindAt(q.dec) # "closed"
      /\ q.why = "end" => \A i \in (q.dec + 1)..Len(list) : KindAt(i) = "closed"
  BY <1>1 DEF Reached
<1>4. CASE Decodes
  <2>1. q' = Advanced(q.dec) /\ q.why = "none"
    BY <1>4 DEF Decodes
  <2>2. q.dec \in 1..Len(list)
    BY <1>2
  <2>3. /\ Advanced(q.dec) \in Queue
        /\ Advanced(q.dec).heard = q.heard /\ Advanced(q.dec).up = q.up
        /\ Advanced(q.dec).dec \in q.dec..Len(list)
        /\ Advanced(q.dec).dec > q.dec => KindAt(Advanced(q.dec).dec) # "closed"
        /\ Advanced(q.dec).why = "end" =>
             /\ Advanced(q.dec).dec = q.dec
             /\ \A k \in (q.dec + 1)..Len(list) : KindAt(k) = "closed"
    BY <1>2, <2>2, AdvancedIs
  <2>4. PICK d : d = q'.dec
    OBVIOUS
  <2>5. /\ d \in q.dec..Len(list)
        /\ d > q.dec => KindAt(d) # "closed"
        /\ d = q.dec \/ d > q.dec
    BY <1>2, <2>1, <2>3, <2>4
  <2>6. q.heard < d => KindAt(d) # "closed"
    <3>1. CASE d = q.dec
      BY <1>3, <3>1
    <3>2. CASE d > q.dec
      BY <2>5, <3>2
    <3> QED
      BY <2>5, <3>1, <3>2
  <2> QED
    BY <1>1, <1>2, <2>1, <2>3, <2>4, <2>5, <2>6
<1>5. CASE Hears
  <2>1. q.heard < q.dec /\ q' = [q EXCEPT !.heard = Following(q.heard + 1)]
    BY <1>5 DEF Hears
  <2>2. PICK f : f = Following(q.heard + 1)
    OBVIOUS
  <2>3. /\ f \in (q.heard + 1)..(Len(list) + 1)
        /\ \A k \in (q.heard + 1)..(f - 1) : KindAt(k) = "closed"
    <3>1. q.heard + 1 \in 1..(Len(list) + 1)
      BY <1>2
    <3> QED
      BY <1>2, <2>2, <3>1, FollowingIs
  <2>4. f <= q.dec
    <3> SUFFICES ASSUME ~(f <= q.dec) PROVE FALSE
      OBVIOUS
    <3>1. q.dec \in (q.heard + 1)..(f - 1)
      BY <1>2, <2>1, <2>3
    <3> QED
      BY <1>3, <2>1, <2>3, <3>1
  <2>5. f \in Nat /\ f >= 1
    BY <1>2, <2>3
  <2>6. /\ q' \in Queue /\ q'.heard = f /\ q'.dec = q.dec /\ q'.why = q.why /\ q'.up = q.up
    BY <1>2, <2>1, <2>2, <2>5 DEF Queue
  <2>7. KindAt(q'.dec) # "closed"
    BY <1>3, <2>1, <2>6
  <2> QED
    BY <1>1, <1>2, <1>3, <2>4, <2>5, <2>6, <2>7
<1>6. CASE PlaysOut
  <2>1. q' = [q EXCEPT !.up = FALSE] /\ q.why # "none"
    BY <1>6 DEF PlaysOut
  <2>2. /\ q' \in Queue /\ q'.heard = q.heard /\ q'.dec = q.dec /\ q'.why = q.why
    BY <1>2, <2>1 DEF Queue
  <2> QED
    BY <1>1, <1>2, <1>3, <2>1, <2>2
<1>7. CASE GoesWrong
  <2>1. PICK e \in {"lost", "failed"} : q' = [q EXCEPT !.up = FALSE, !.error = e]
    BY <1>7 DEF GoesWrong
  <2>2. /\ q' \in Queue /\ q'.heard = q.heard /\ q'.dec = q.dec /\ q'.why = q.why
        /\ q'.error = e
    BY <1>2, <2>1 DEF Queue
  <2> QED
    BY <1>1, <1>2, <1>3, <2>2
<1> QED
  BY <1>4, <1>5, <1>6, <1>7 DEF Graph

LEMMA GraphKeeps ==
    ASSUME Kept, Graph \/ GoesWrong
    PROVE  Kept'
<1> USE DEF Kept
<1>0. /\ UNCHANGED <<files, request, sweeps, state, public, stop, rebuild, step, quit, pc,
                     list, first, end, showing, shown, cmd, copied, asleep>>
      /\ asked' = asked \/ (asked < MaxEvents /\ asked' = asked + 1)
  BY DEF Graph, Decodes, Hears, PlaysOut, GoesWrong, Fault, GraphSteps, asking, flags, run,
         picture, shells
<1>1. /\ q' \in Queue /\ q'.heard <= q'.dec /\ q'.dec <= Len(list) /\ q'.heard >= 1
      /\ q.up /\ pc \in Going
      /\ q'.heard < q'.dec => KindAt(q'.dec) # "closed"
      /\ q'.why = "end" => \A i \in (q'.dec + 1)..Len(list) : KindAt(i) = "closed"
      /\ q'.up \/ q'.error # "none" \/ q'.why # "none"
  BY GraphMovesTheQueue
<1>2. Flagged' /\ Named' /\ Sleeping' /\ Pictured'
  <2>1. Flagged' /\ Sleeping'
    BY <1>0 DEF Flagged, Sleeping
  <2>2. Named' /\ Pictured'
    BY <1>0 DEF Named, Pictured
  <2> QED
    BY <2>1, <2>2
<1>3. Counted'
  <2>1. MaxEvents \in Nat /\ asked \in 0..MaxEvents /\ sweeps \in 0..asked
    BY PlayerAssumption DEF Counted
  <2> QED
    BY <1>0, <2>1 DEF Counted
<1>4. Placed'
  BY <1>0, <1>1 DEF Placed, Going, Setting, Runs
<1>5. Reached'
  BY <1>0, <1>1 DEF Reached, KindAt
<1>6. PlayedOut'
  <2>1. pc \in {"takes back", "clears"} => end # "finished"
    BY <1>1 DEF PlayedOut
  <2> QED
    BY <1>0, <1>1, <2>1 DEF PlayedOut, Going
<1> QED
  BY <1>2, <1>3, <1>4, <1>5, <1>6

LEMMA CommandKeeps ==
    ASSUME Typed, Published, Kept, NEW s \in Shells, Command(s)
    PROVE  Kept'
<1> USE DEF Kept
<1>1. Flagged' /\ Counted' /\ Named'
  BY CommandKeepsFlags, CommandKeepsCounts, CommandKeepsNames
<1>2. Sleeping' /\ Pictured'
  BY CommandKeepsSleepers, CommandKeepsPicture DEF Typed
<1>3. Placed' /\ Reached' /\ PlayedOut'
  BY CommandKeepsPlace, CommandKeepsReached, CommandKeepsPlayedOut
<1> QED
  BY <1>1, <1>2, <1>3

LEMMA EngineKeeps ==
    ASSUME Typed, Kept, Engine
    PROVE  Kept'
<1> USE DEF Kept
<1>1. Flagged' /\ Counted' /\ Named'
  BY EngineKeepsFlags, EngineKeepsCounts, EngineKeepsNames
<1>2. Sleeping' /\ Pictured'
  BY EngineKeepsSleepers, EngineKeepsPicture
<1>3. Placed' /\ Reached' /\ PlayedOut'
  BY EngineKeepsPlace, EngineKeepsReached, EngineKeepsPlayedOut
<1> QED
  BY <1>1, <1>2, <1>3

LEMMA NothingKeeps ==
    ASSUME Kept, UNCHANGED vars
    PROVE  Kept'
<1>1. UNCHANGED <<files, request, sweeps, state, public, stop, rebuild, step, quit, pc,
                  list, first, end, q, showing, shown, cmd, copied, asleep, asked>>
  BY DEF vars, asking, flags, run, picture, shells, history
<1>2. Flagged' /\ Counted' /\ Named' /\ Sleeping' /\ Pictured'
  <2>1. Flagged' /\ Sleeping'
    BY <1>1 DEF Kept, Flagged, Sleeping
  <2>2. Counted' /\ Named' /\ Pictured'
    BY <1>1 DEF Kept, Counted, Named, Pictured
  <2> QED
    BY <2>1, <2>2
<1>3. Placed' /\ Reached' /\ PlayedOut'
  <2>1. Placed' /\ PlayedOut'
    BY <1>1 DEF Kept, Placed, PlayedOut
  <2>2. Reached'
    BY <1>1, ReachedStays DEF Kept
  <2> QED
    BY <2>1, <2>2
<1> QED
  BY <1>2, <1>3 DEF Kept

(* The inductive invariant, of which the three below are what it is for. *)
THEOREM PlayerInvariant == Spec => []Inv
<1>1. Init => Inv
  BY AtFirst
<1>2. Inv /\ [Next]_vars => Inv'
  BY EachStepKeepsIt
<1> QED BY <1>1, <1>2, PTL DEF Spec

(* player.cpp:2483-2525, 2557-2581: the graph, the queue and the picture a  *)
(* shell is shown are those of the run that is on, for as long as it is on.  *)
THEOREM PlayerShowsWhatIsThere == Spec => []PublishedIsAlive
<1>1. Inv => PublishedIsAlive
  BY DEF Inv, Published
<1> QED BY <1>1, PlayerInvariant, PTL

(* player.cpp:928-933, 2140-2206: a run is made of what config_ holds, or    *)
(* the flag is up that makes it so, whichever shells write and take back at  *)
(* whatever step of it.  What config_ comes to hold is not said.             *)
THEOREM PlayerRunsTheSettings == Spec => []RunsTheSettings
<1>1. Inv => RunsTheSettings
  <2> SUFFICES ASSUME Inv, ~rebuild,
                      \A s \in Shells : cmd[s] \notin {"raise", "try", "take back"}
               PROVE  /\ pc \in Uses => running.wire = config.wire
                      /\ pc \in Making => built = config.chain \/ erased
    BY DEF RunsTheSettings, Uses
  <2> QED BY DEF Inv, WireIsDue, ChainIsDue, Raising, Trying
<1> QED BY <1>1, PlayerInvariant, PTL

(* player.cpp:492-508, 1552-1556: a command neither misses the run that comes*)
(* up nor ends one it was not meant for.                                     *)
THEOREM PlayerMindsCommands == Spec => []CommandsAreMinded
<1>1. Inv => CommandsAreMinded
  BY DEF Inv, Meant, CommandsAreMinded, NotStoppedUnasked
<1> QED BY <1>1, PlayerInvariant, PTL

-----------------------------------------------------------------------------
(* The second inductive invariant: what every step keeps of the queue, the   *)
(* list, the picture and the flags.                                          *)
THEOREM PlayerKeeps == Spec => []Kept
<1>1. Init => Kept
  BY KeptAtFirst
<1>2. Inv /\ Kept /\ [Next]_vars => Kept'
  <2> SUFFICES ASSUME Inv, Kept, [Next]_vars PROVE Kept'
    OBVIOUS
  <2>1. Typed /\ Published
    BY DEF Inv
  <2>2. ASSUME NEW s \in Shells, Command(s) PROVE Kept'
    BY <2>1, <2>2, CommandKeeps
  <2>3. CASE Graph \/ GoesWrong
    BY <2>3, GraphKeeps
  <2>4. CASE Engine
    BY <2>1, <2>4, EngineKeeps
  <2>5. CASE UNCHANGED vars
    BY <2>5, NothingKeeps
  <2> QED
    BY <2>2, <2>3, <2>4, <2>5 DEF Next, Command
<1> QED
  BY <1>1, <1>2, PlayerInvariant, PTL DEF Spec

(* player.cpp:1527-1563, queue.cpp:98-167: in every state the queue's two    *)
(* places are in the list that is walked, in order; a picture is of one of   *)
(* its entries; who sleeps on seekable_ is a shell whose command waits.     *)
THEOREM PlayerTyped == Spec => []TypeOK
<1>1. Inv /\ Kept => TypeOK
  <2> SUFFICES ASSUME Inv, Kept PROVE TypeOK
    OBVIOUS
  <2> USE DEF Kept
  <2>1. /\ files \in Seq(Files) /\ list \in Seq(Files) /\ first \in Nat \ {0}
        /\ request = None \/ request.files \in Seq(Files)
    BY DEF Named, Request
  <2>2. sweeps \in 0..MaxEvents
    <3>1. MaxEvents \in Nat /\ asked \in 0..MaxEvents /\ sweeps \in 0..asked
      BY PlayerAssumption DEF Counted
    <3> QED
      BY <3>1
  <2>3. /\ state \in {"stopped", "playing", "paused"} /\ {stop, rebuild, quit} \subseteq BOOLEAN
        /\ step \in {-1, 0, 1}
    BY DEF Flagged
  <2>4. public \in [DOMAIN Nobody -> BOOLEAN]
    BY DEF Inv, Typed, Nobody
  <2>5. {config, applied, running} \subseteq Configs /\ built \in Chains \ {"bad"}
    BY DEF Inv, Typed, Chains
  <2>6. pc \in Runs \cup Alones \cup {"idle", "gone", "measures", "begins", "chooses",
                  "copies", "builds", "wires", "ran", "awaits", "alone"}
    BY DEF Flagged, Places, OfRun, Setting
  <2>7. q.heard <= q.dec /\ q.dec \in 0..Len(list)
    BY LenProperties DEF Placed, Queue, Named
  <2>8. shown \in 0..Len(list) /\ asleep \subseteq Shells
        /\ \A s \in asleep : cmd[s] \in Transports
    BY DEF Pictured, Sleeping
  <2> QED
    BY <2>1, <2>2, <2>3, <2>4, <2>5, <2>6, <2>7, <2>8 DEF TypeOK
<1> QED
  BY <1>1, PlayerInvariant, PlayerKeeps, PTL

(* player.cpp:1928-1969: a request that nobody stopped and that did not fail *)
(* leaves nothing that opens unplayed behind the entry it ends on, whatever  *)
(* was sought, skipped, moved or rebuilt on the way.                         *)
THEOREM PlayerEndsAtTheEnd == Spec => EndsAtTheEnd
<1>1. ASSUME Inv, Kept, [Next]_vars, pc = "ran", pc' = "idle", end' = "finished"
      PROVE  \A i \in (q.dec + 1)..Len(list) : KindAt(i) = "closed"
  <2>1. Engine
    <3>1. ~(Graph \/ GoesWrong)
      BY <1>1, GraphLeavesTheRest
    <3>2. ~(UNCHANGED vars)
      BY <1>1 DEF vars
    <3>3. ASSUME NEW s \in Shells, Command(s) PROVE FALSE
      BY <1>1, <3>3, CommandLeavesTheRun
    <3> QED
      BY <1>1, <3>1, <3>2, <3>3 DEF Next, Command
  <2>2. GoesOn
    BY <1>1, <2>1 DEF Engine, Leaves, TakesSweep, Measures, Takes, Begins, Chooses, Copies,
       Builds, Wired, Unwired, OpensPicture, Starts, Publishes, Turn, TurnEnds, TurnStops,
       TurnRebuilds, TurnFollows, TurnShows, TakesBack, Clears, Awaits, AloneCopies,
       AloneSays, AloneOpens, AloneTurns, AloneTakesBack, AloneGoesOn, Goes
  <2>3. end = "finished" /\ q.why \notin {"format", "silent"}
    BY <1>1, <2>2 DEF GoesOn, OfTheQueue, Breaks, Resumes, Stops
  <2>4. q.why # "none" /\ q.why \in {"none", "end", "silent", "format"}
    BY <1>1, <2>3 DEF Kept, PlayedOut, Placed, Queue
  <2>5. q.why = "end" /\ pc \in OfRun
    BY <1>1, <2>3, <2>4 DEF OfRun
  <2> QED
    BY <1>1, <2>5 DEF Kept, Reached
<1>2. Inv /\ Kept /\ [Next]_vars =>
        [pc = "ran" /\ pc' = "idle" /\ end' = "finished"
           => \A i \in (q.dec + 1)..Len(list) : KindAt(i) = "closed"]_vars
  BY <1>1
<1> QED
  BY <1>2, PlayerInvariant, PlayerKeeps, PTL DEF Spec, EndsAtTheEnd
=============================================================================
