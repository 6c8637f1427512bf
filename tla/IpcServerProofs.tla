--------------------------- MODULE IpcServerProofs ---------------------------
(***************************************************************************)
(* For every set of shells, every bound of a queue and of a pipe: the      *)
(* server's state is well typed, a client is let go once, whole, and by    *)
(* the one thread that has it, and its requests are answered in order.     *)
(*                                                                         *)
(* That a handle is closed once says nothing by itself of the steps before *)
(* it.  What they preserve is that a client is at one place only: the one  *)
(* the listener is making, clients_, sweep()'s finished or stop()'s own    *)
(* (Whereabouts), that these are empty when who works on them is past them *)
(* (Stages), and that a shell nobody has accepted has no threads (Unborn). *)
(*                                                                         *)
(* The answers to a shell that is there are in order because its unread    *)
(* requests end with the last one it made, the one in hand is the one      *)
(* before them, and what was said of the earlier ones - heard, in the      *)
(* pipe, in the writer's hand, queued - ends with the one before that      *)
(* until the connection closes (Line).                                     *)
(***************************************************************************)
EXTENDS IpcServer, SequenceTheorems, TLAPS

Whereabouts ==
    /\ \A s \in Shells : handle[s] = "open" <=>
         s \in clients \cup sweeping \cup leaving \cup {incoming}
    /\ clients \cap sweeping = {}
    /\ leaving \cap (clients \cup sweeping) = {}
    /\ incoming \notin clients \cup sweeping \cup leaving

Stages ==
    /\ sweeping # {} => listener = "sweeps"
    /\ stopper \in {"ends", "over"} => listener = "gone" /\ clients = {}
    /\ stopper # "ends" => leaving = {}
    /\ now # Nobody => now \in leaving

Unborn ==
    \A s \in Shells :
      /\ side[s] = "away" \/ door = s => handle[s] = "none"
      /\ door = s => side[s] # "away"
      /\ handle[s] # "open" => ~token[s]
      /\ handle[s] = "none" => reader[s] = "none" /\ writer[s] = "none"
      /\ handle[s] = "closed" => reader[s] = "gone" /\ writer[s] = "gone"

Inv == TypeOK /\ Whereabouts /\ Stages /\ Unborn

USE DEF Event

-----------------------------------------------------------------------------
(* Types. *)

LEMMA Bounds ==
  /\ Limit \in Nat /\ PipeSize \in Nat /\ Limit > 0 /\ PipeSize > 0
  /\ Attempts \in Nat /\ Attempts > 0
  /\ \A s \in Shells :
        /\ Requests[s] \in Nat /\ LoneRequests[s] \in Nat
        /\ Requests[s] <= LoneRequests[s]
  /\ Nobody \notin Shells /\ Waiting \notin Shells /\ Knock \notin Shells
<1>1. /\ Limit \in Nat \ {0} /\ PipeSize \in Nat \ {0} /\ Attempts \in Nat \ {0}
      /\ {Requests, LoneRequests} \subseteq [Shells -> Nat]
      /\ \A s \in Shells : Requests[s] <= LoneRequests[s]
  BY IpcAssumption DEF IpcAssumption
<1>2. Shells \cap {Nobody, Waiting, Knock} = {}
  BY IpcAssumption DEF IpcAssumption
<1>3. Nobody \notin Shells /\ Waiting \notin Shells /\ Knock \notin Shells
  BY <1>2
<1> QED  BY <1>1, <1>3

LEMMA Emptied == <<>> \in Seq(Nat) /\ Len(<<>>) = 0
  BY EmptySeq

LEMMA TypeInit == Init => TypeOK
<1> SUFFICES ASSUME Init PROVE TypeOK
  OBVIOUS
<1> USE Bounds, Emptied DEF Init
<1>1. <<>> \in Seq(Nat) /\ Len(<<>>) = 0
  BY Emptied
<1>2. LoopsOK
  BY DEF LoopsOK
<1>3. ThreadsOK
  BY DEF ThreadsOK, ReaderPlaces, WriterPlaces
<1>4. ClientsOK
  BY <1>1 DEF ClientsOK
<1>5. ShellsOK
  BY <1>1 DEF ShellsOK
<1> QED  BY <1>2, <1>3, <1>4, <1>5 DEF TypeOK

(* What a function of the shells is changed to at one of them. *)
LEMMA IsTyped ==
  ASSUME NEW S, NEW f \in [Shells -> S], NEW s \in Shells, NEW v \in S
  PROVE  [f EXCEPT ![s] = v] \in [Shells -> S]
  OBVIOUS

LEMMA Queued ==
  ASSUME NEW S, NEW q \in Seq(S), NEW m \in S
  PROVE  Append(q, m) \in Seq(S) /\ Len(Append(q, m)) = Len(q) + 1
  OBVIOUS

LEMMA Dequeued ==
  ASSUME NEW S, NEW q \in Seq(S), q # <<>>
  PROVE  Head(q) \in S /\ Tail(q) \in Seq(S) /\ Len(Tail(q)) = Len(q) - 1
  OBVIOUS

LEMMA LoopsTyped == ASSUME TypeOK, [Next]_vars PROVE LoopsOK'
<1> USE Bounds, Emptied DEF TypeOK, LoopsOK,
         service, loops, ending, threads, client, shell
<1>1. CASE Stop
  BY <1>1 DEF Stop
<1>2. CASE Knocks
  BY <1>2 DEF Knocks
<1>3. CASE StopSwaps
  BY <1>3 DEF StopSwaps
<1>4. CASE StopLetsGo
  BY <1>4 DEF StopLetsGo, LetGo, Joined, Is
<1>5. CASE StopReturns
  BY <1>5 DEF StopReturns
<1>6. CASE ListenerTurns
  BY <1>6 DEF ListenerTurns
<1>7. CASE ListenerEnds
  BY <1>7 DEF ListenerEnds
<1>8. CASE ListenerOpens
  BY <1>8 DEF ListenerOpens
<1>9. CASE NobodyThere
  BY <1>9 DEF NobodyThere
<1>10. CASE TurnsAway \/ ListenerGivesUp
  BY <1>10 DEF TurnsAway, ListenerGivesUp, ClosesTheDoor
<1>11. CASE Accepts
  BY <1>11 DEF Accepts, Is
<1>12. CASE Enlists
  BY <1>12 DEF Enlists
<1>13. CASE NotifierEnds
  BY <1>13 DEF NotifierEnds
<1>14. ASSUME NEW s \in Shells, StopCloses(s) PROVE LoopsOK'
  BY <1>14 DEF StopCloses, Close, Cancels, TooEarly, Is
<1>15. ASSUME NEW s \in Shells, Sweeps(s) PROVE LoopsOK'
  BY <1>15 DEF Sweeps, LetGo, Joined, Is
<1>16. ASSUME NEW s \in Shells, Attach(s) PROVE LoopsOK'
  BY <1>16 DEF Attach, Is
<1>17. CASE UNCHANGED <<running, listening, door, clients, listener, incoming, sweeping, notifier, stopper, attempt, leaving, now>>
  BY <1>17
<1>18. CASE KnocksNoMore
  BY <1>18 DEF KnocksNoMore
<1> QED
  BY <1>1, <1>2, <1>3, <1>4, <1>5, <1>6, <1>7, <1>8, <1>9, <1>10, <1>11,
     <1>12, <1>13, <1>14, <1>15, <1>16, <1>17, <1>18, ZenonT(40)
  DEF Next, Stopper, Listener, Notifier, Fails, Reader, Writer, vars,
      NotifierTells, ReaderTurns, ReaderThrows, WriterThrows, ReaderIssues, Reads, ReadsNoMore, Subscribes, Answers,
      Objects, ReaderCloses, Takes, WriterEnds, WriterIssues, Writes,
      WriteFails, WriterCloses, Logs, Ask, Hear, Leave

LEMMA ThreadsTyped == ASSUME TypeOK, [Next]_vars PROVE ThreadsOK'
<1> USE Bounds, Emptied DEF TypeOK, ThreadsOK, ReaderPlaces, WriterPlaces,
         service, loops, ending, threads, client, shell
<1>1. CASE StopLetsGo
  BY <1>1 DEF StopLetsGo, LetGo, Joined, Is
<1>2. CASE Accepts
  BY <1>2 DEF Accepts, Is
<1>3. ASSUME NEW s \in Shells, StopCloses(s) PROVE ThreadsOK'
  BY <1>3 DEF StopCloses, Close, Cancels, TooEarly, Is
<1>4. ASSUME NEW s \in Shells, Sweeps(s) PROVE ThreadsOK'
  BY <1>4 DEF Sweeps, LetGo, Joined, Is
<1>5. ASSUME NEW s \in Shells, ReaderIssues(s) PROVE ThreadsOK'
  BY <1>5 DEF ReaderIssues, Is
<1>6. ASSUME NEW s \in Shells, Reads(s) PROVE ThreadsOK'
  <2>1. Head(inbox[s]) \in Nat
    BY <1>6, Dequeued DEF Reads, ShellsOK
  <2> QED  BY <1>6, <2>1 DEF Reads, Is
<1>7. ASSUME NEW s \in Shells, ReadsNoMore(s) PROVE ThreadsOK'
  BY <1>7 DEF ReadsNoMore, Is
<1>8. ASSUME NEW s \in Shells, Answers(s) PROVE ThreadsOK'
  BY <1>8 DEF Answers, Send, Refuses, Is
<1>9. ASSUME NEW s \in Shells, Objects(s) PROVE ThreadsOK'
  BY <1>9 DEF Objects, Send, Refuses, Is
<1>10. ASSUME NEW s \in Shells, ReaderCloses(s) PROVE ThreadsOK'
  BY <1>10 DEF ReaderCloses, Close, Cancels, TooEarly, Is
<1>11. ASSUME NEW s \in Shells, Takes(s) PROVE ThreadsOK'
  <2>1. Head(out[s]) \in Nat
    BY <1>11, Dequeued DEF Takes, ClientsOK
  <2> QED  BY <1>11, <2>1 DEF Takes, Is
<1>12. ASSUME NEW s \in Shells, WriterEnds(s) PROVE ThreadsOK'
  BY <1>12 DEF WriterEnds, Is
<1>13. ASSUME NEW s \in Shells, WriterIssues(s) PROVE ThreadsOK'
  BY <1>13 DEF WriterIssues, Is
<1>14. ASSUME NEW s \in Shells, Writes(s) PROVE ThreadsOK'
  BY <1>14 DEF Writes, Is
<1>15. ASSUME NEW s \in Shells, WriteFails(s) PROVE ThreadsOK'
  BY <1>15 DEF WriteFails, Is
<1>16. ASSUME NEW s \in Shells, WriterCloses(s) PROVE ThreadsOK'
  BY <1>16 DEF WriterCloses, Close, Cancels, TooEarly, Is
<1>17. CASE UNCHANGED <<reader, writer, answering, writing, missed>>
  BY <1>17
<1>18. ASSUME NEW s \in Shells, ReaderTurns(s) PROVE ThreadsOK'
  BY <1>18 DEF ReaderTurns, Is
<1>19. ASSUME NEW s \in Shells, ReaderThrows(s) PROVE ThreadsOK'
  BY <1>19 DEF ReaderThrows, Is
<1>20. ASSUME NEW s \in Shells, WriterThrows(s) PROVE ThreadsOK'
  BY <1>20 DEF WriterThrows, Is
<1> QED
  BY <1>1, <1>2, <1>3, <1>4, <1>5, <1>6, <1>7, <1>8, <1>9, <1>10, <1>11,
     <1>12, <1>13, <1>14, <1>15, <1>16, <1>17, <1>18, <1>19, <1>20, ZenonT(40)
  DEF Next, Stopper, Listener, Notifier, Fails, Reader, Writer, vars,
      Stop, Knocks, KnocksNoMore, ListenerGivesUp, ClosesTheDoor, StopSwaps, StopReturns, ListenerTurns, ListenerEnds,
      ListenerOpens, NobodyThere, TurnsAway, Enlists, NotifierTells,
      NotifierEnds, Subscribes, Logs, Attach, Ask, Hear, Leave

LEMMA SendTyped ==
  ASSUME ClientsOK, NEW s \in Shells, NEW message \in Nat, Send(s, message)
  PROVE  /\ out' \in [Shells -> Seq(Nat)] /\ closing' \in [Shells -> BOOLEAN]
         /\ \A t \in Shells : Len(out'[t]) <= Limit
<1> USE Bounds, Emptied DEF ClientsOK
<1>1. closing' \in [Shells -> BOOLEAN]
  BY DEF Send, Refuses
<1>2. CASE Refuses(s)
  BY <1>1, <1>2 DEF Send
<1>3. CASE ~Refuses(s)
  <2>1. Append(out[s], message) \in Seq(Nat) /\ Len(Append(out[s], message)) = Len(out[s]) + 1
    BY Queued
  <2>2. Len(out[s]) < Limit
    BY <1>3 DEF Refuses
  <2>3. out' = [out EXCEPT ![s] = Append(@, message)]
    BY <1>3 DEF Send
  <2> QED  BY <1>1, <2>1, <2>2, <2>3
<1> QED  BY <1>2, <1>3

LEMMA ClientsTyped == ASSUME TypeOK, [Next]_vars PROVE ClientsOK'
<1> USE Bounds, Emptied DEF TypeOK, ClientsOK,
         service, loops, ending, threads, client, shell
<1>1. CASE StopLetsGo
  <2>1. now \in Shells /\ <<>> \in Seq(Nat) /\ Len(<<>>) = 0
    BY <1>1 DEF StopLetsGo, LoopsOK
  <2> QED  BY <1>1, <2>1 DEF StopLetsGo, LetGo, Is
<1>2. CASE Accepts
  BY <1>2 DEF Accepts, Is
<1>3. CASE NotifierTells
  <2>1. ASSUME NEW s \in Shells
        PROVE  out'[s] \in Seq(Nat) /\ Len(out'[s]) <= Limit
    <3>1. CASE s \in Told /\ ~Refuses(s)
      <4>1. out'[s] = Append(out[s], Event)
        BY <1>3, <3>1 DEF NotifierTells
      <4>2. Append(out[s], Event) \in Seq(Nat) /\ Len(Append(out[s], Event)) = Len(out[s]) + 1
        BY Queued
      <4> QED  BY <3>1, <4>1, <4>2 DEF Refuses
    <3>2. CASE ~(s \in Told /\ ~Refuses(s))
      BY <1>3, <3>2 DEF NotifierTells
    <3> QED  BY <3>1, <3>2
  <2>2. out' \in [Shells -> Seq(Nat)]
    BY <1>3, <2>1 DEF NotifierTells
  <2>3. closing' \in [Shells -> BOOLEAN]
    BY <1>3 DEF NotifierTells
  <2> QED  BY <1>3, <2>1, <2>2, <2>3 DEF NotifierTells
<1>4. ASSUME NEW s \in Shells, StopCloses(s) PROVE ClientsOK'
  BY <1>4 DEF StopCloses, Close, Cancels, TooEarly, Is
<1>5. ASSUME NEW s \in Shells, Sweeps(s) PROVE ClientsOK'
  <2>1. <<>> \in Seq(Nat) /\ Len(<<>>) = 0
    BY Emptied
  <2> QED  BY <1>5, <2>1 DEF Sweeps, LetGo, Is
<1>6. ASSUME NEW s \in Shells, Subscribes(s) PROVE ClientsOK'
  BY <1>6 DEF Subscribes, Is
<1>7. ASSUME NEW s \in Shells, Answers(s) PROVE ClientsOK'
  <2>1. Send(s, answering[s]) /\ answering[s] \in Nat
    BY <1>7 DEF Answers, ThreadsOK
  <2> QED  BY <1>7, <2>1, SendTyped DEF Answers
<1>8. ASSUME NEW s \in Shells, Objects(s) PROVE ClientsOK'
  <2>1. Send(s, answering[s]) /\ answering[s] \in Nat
    BY <1>8 DEF Objects, ThreadsOK
  <2> QED  BY <1>8, <2>1, SendTyped DEF Objects
<1>9. ASSUME NEW s \in Shells, ReaderCloses(s) PROVE ClientsOK'
  BY <1>9 DEF ReaderCloses, Close, Cancels, TooEarly, Is
<1>10. ASSUME NEW s \in Shells, Takes(s) PROVE ClientsOK'
  <2>1. Tail(out[s]) \in Seq(Nat) /\ Len(Tail(out[s])) <= Limit
    BY <1>10, Dequeued DEF Takes
  <2> QED  BY <1>10, <2>1 DEF Takes, Is
<1>11. ASSUME NEW s \in Shells, WriterCloses(s) PROVE ClientsOK'
  BY <1>11 DEF WriterCloses, Close, Cancels, TooEarly, Is
<1>12. ASSUME NEW s \in Shells, Logs(s) PROVE ClientsOK'
  <2>1. Send(s, Event) /\ Event \in Nat
    BY <1>12 DEF Logs, ThreadsOK
  <2> QED  BY <1>12, <2>1, SendTyped DEF Logs
<1>13. CASE UNCHANGED <<out, closing, subscribed, done, token, handle>>
  BY <1>13
<1>14. ASSUME NEW s \in Shells, ReaderThrows(s) PROVE ClientsOK'
  BY <1>14 DEF ReaderThrows, Is
<1> QED
  BY <1>1, <1>2, <1>3, <1>4, <1>5, <1>6, <1>7, <1>8, <1>9, <1>10, <1>11,
     <1>12, <1>13, <1>14, ZenonT(40)
  DEF Next, Stopper, Listener, Notifier, Fails, Reader, Writer, vars,
      Stop, Knocks, KnocksNoMore, ListenerGivesUp, ClosesTheDoor, StopSwaps, StopReturns, ListenerTurns, ListenerEnds,
      ListenerOpens, NobodyThere, TurnsAway, Enlists, NotifierEnds,
      ReaderTurns, WriterThrows, ReaderIssues, Reads, ReadsNoMore, WriterEnds, WriterIssues, Writes,
      WriteFails, Attach, Ask, Hear, Leave

LEMMA ShellsTyped == ASSUME TypeOK, [Next]_vars PROVE ShellsOK'
<1> USE Bounds, Emptied DEF TypeOK, ShellsOK,
         service, loops, ending, threads, client, shell
<1>1. CASE StopLetsGo
  <2>1. now \in Shells /\ <<>> \in Seq(Nat)
    BY <1>1 DEF StopLetsGo, LoopsOK
  <2> QED  BY <1>1, <2>1 DEF StopLetsGo, LetGo, Is
<1>2. CASE TurnsAway \/ ListenerGivesUp
  BY <1>2 DEF TurnsAway, ListenerGivesUp, ClosesTheDoor
<1>3. ASSUME NEW s \in Shells, Sweeps(s) PROVE ShellsOK'
  <2>1. <<>> \in Seq(Nat)
    BY Emptied
  <2> QED  BY <1>3, <2>1 DEF Sweeps, LetGo, Is
<1>4. ASSUME NEW s \in Shells, Reads(s) PROVE ShellsOK'
  <2>1. Tail(inbox[s]) \in Seq(Nat)
    BY <1>4, Dequeued DEF Reads
  <2> QED  BY <1>4, <2>1 DEF Reads, Is
<1>5. ASSUME NEW s \in Shells, Writes(s) PROVE ShellsOK'
  <2>1. writing[s] \in Nat
    BY DEF ThreadsOK
  <2>2. /\ Append(pipe[s], writing[s]) \in Seq(Nat)
        /\ Len(Append(pipe[s], writing[s])) = Len(pipe[s]) + 1
    BY <2>1, Queued
  <2>3. Len(pipe[s]) < PipeSize /\ Len(pipe[s]) \in Nat
    BY <1>5 DEF Writes
  <2> QED  BY <1>5, <2>2, <2>3 DEF Writes, Is
<1>6. ASSUME NEW s \in Shells, Attach(s) PROVE ShellsOK'
  BY <1>6 DEF Attach, Is
<1>7. ASSUME NEW s \in Shells, Ask(s) PROVE ShellsOK'
  <2>1. asked[s] + 1 \in Nat /\ asked[s] + 1 <= LoneRequests[s]
    BY <1>7 DEF Ask, MayAsk
  <2>2. asked' = [asked EXCEPT ![s] = asked[s] + 1]
    BY <1>7 DEF Ask, Is
  <2>3. Append(inbox[s], asked'[s]) \in Seq(Nat)
    BY <2>1, <2>2, Queued
  <2>4. /\ inbox' = [inbox EXCEPT ![s] = Append(inbox[s], asked'[s])]
        /\ UNCHANGED <<side, pipe, heard>>
    BY <1>7 DEF Ask, Is
  <2> QED  BY <2>1, <2>2, <2>3, <2>4
<1>8. ASSUME NEW s \in Shells, Hear(s) PROVE ShellsOK'
  <2>1. Tail(pipe[s]) \in Seq(Nat) /\ Len(Tail(pipe[s])) <= PipeSize
        /\ Head(pipe[s]) \in Nat
    BY <1>8, Dequeued DEF Hear
  <2>2. Append(heard[s], Head(pipe[s])) \in Seq(Nat)
    BY <2>1, Queued
  <2>3. heard' \in [Shells -> Seq(Nat)]
    BY <1>8, <2>2 DEF Hear
  <2> QED  BY <1>8, <2>1, <2>3 DEF Hear, Is
<1>9. ASSUME NEW s \in Shells, Leave(s) PROVE ShellsOK'
  <2>1. <<>> \in Seq(Nat) /\ Len(<<>>) = 0
    BY Emptied
  <2> QED  BY <1>9, <2>1 DEF Leave, Is
<1>10. CASE UNCHANGED <<side, asked, inbox, pipe, heard>>
  BY <1>10
<1> QED
  BY <1>1, <1>2, <1>3, <1>4, <1>5, <1>6, <1>7, <1>8, <1>9, <1>10, ZenonT(40)
  DEF Next, Stopper, Listener, Notifier, Fails, Reader, Writer, vars,
      Stop, Knocks, KnocksNoMore, StopSwaps, StopReturns, ListenerTurns, ListenerEnds,
      ListenerOpens, NobodyThere, Accepts, Enlists, NotifierTells,
      NotifierEnds, StopCloses, ReaderTurns, ReaderThrows, WriterThrows, ReaderIssues, ReadsNoMore, Subscribes,
      Answers, Objects, ReaderCloses, Takes, WriterEnds, WriterIssues,
      WriteFails, WriterCloses, Logs

-----------------------------------------------------------------------------
(* Where a client is, and what it still has. *)

LEMMA WhereaboutsStep == ASSUME Inv, [Next]_vars PROVE Whereabouts'
<1> USE DEF service, loops, ending, threads, client, shell
<1>0. /\ Whereabouts /\ Stages /\ Unborn /\ DOMAIN handle = Shells /\ Nobody \notin Shells
      /\ clients \subseteq Shells /\ sweeping \subseteq Shells /\ leaving \subseteq Shells
      /\ incoming \in IF listener = "enlists" THEN Shells ELSE {Nobody}
  BY Bounds DEF Inv, TypeOK, LoopsOK, ClientsOK
<1>1. CASE StopSwaps
  <2>1. /\ leaving = {} \/ stopper = "ends"
        /\ stopper = "joins" /\ leaving' = clients /\ clients' = {} /\ listener = "gone"
        /\ UNCHANGED <<handle, sweeping, incoming>>
    BY <1>0, <1>1 DEF StopSwaps, Stages
  <2>2. leaving = {} /\ sweeping = {} /\ incoming = Nobody
    BY <1>0, <2>1 DEF Stages
  <2> QED  BY <1>0, <2>1, <2>2 DEF Whereabouts
<1>2. CASE StopLetsGo
  <2>1. /\ now \in leaving /\ leaving' = leaving \ {now}
        /\ handle' = [handle EXCEPT ![now] = "closed"]
        /\ UNCHANGED <<clients, sweeping, incoming>>
    BY <1>0, <1>2 DEF StopLetsGo, LetGo, Is, Stages
  <2> QED  BY <1>0, <2>1 DEF Whereabouts
<1>3. CASE ListenerTurns
  <2>1. /\ sweeping = {} /\ sweeping' \subseteq clients /\ clients' = clients \ sweeping'
        /\ UNCHANGED <<handle, leaving, incoming>>
    BY <1>0, <1>3 DEF ListenerTurns, Stages
  <2> QED  BY <1>0, <2>1 DEF Whereabouts
<1>4. CASE Accepts
  <2>1. /\ door \in Shells /\ incoming = Nobody /\ incoming' = door
        /\ handle[door] = "none" /\ handle' = [handle EXCEPT ![door] = "open"]
        /\ UNCHANGED <<clients, sweeping, leaving>>
    BY <1>0, <1>4 DEF Accepts, Is, Unborn
  <2>2. /\ door \notin clients \cup sweeping \cup leaving
        /\ \A s \in Shells : handle'[s] = "open" <=> s = door \/ handle[s] = "open"
    BY <1>0, <2>1 DEF Whereabouts
  <2>3. \A s \in Shells :
           handle'[s] = "open" <=> s \in clients \cup sweeping \cup leaving \cup {door}
    BY <1>0, <2>1, <2>2 DEF Whereabouts
  <2> QED  BY <1>0, <2>1, <2>2, <2>3 DEF Whereabouts
<1>5. CASE Enlists
  <2>1. /\ clients' = clients \cup {incoming} /\ incoming' = Nobody
        /\ UNCHANGED <<handle, sweeping, leaving>> /\ incoming \in Shells
    BY <1>0, <1>5 DEF Enlists
  <2>2. Nobody \notin clients' \cup sweeping \cup leaving
    BY <1>0, <2>1
  <2>3. clients' \cap sweeping = {} /\ leaving \cap (clients' \cup sweeping) = {}
    BY <1>0, <2>1 DEF Whereabouts
  <2>4. \A s \in Shells :
           handle[s] = "open" <=> s \in clients' \cup sweeping \cup leaving \cup {Nobody}
    BY <1>0, <2>1 DEF Whereabouts
  <2> QED  BY <2>1, <2>2, <2>3, <2>4 DEF Whereabouts
<1>6. ASSUME NEW s \in Shells, Sweeps(s) PROVE Whereabouts'
  <2>1. /\ handle' = [handle EXCEPT ![s] = "closed"]
        /\ sweeping' = sweeping \ {s} /\ s \in sweeping
        /\ clients' = clients /\ leaving' = leaving /\ incoming' = incoming
    BY <1>6 DEF Sweeps, LetGo, Is
  <2>2. s \notin clients /\ s \notin leaving /\ s # incoming
    BY <1>0, <2>1 DEF Whereabouts
  <2>3. ASSUME NEW t \in Shells
        PROVE  handle'[t] = "open" <=>
                 t \in clients' \cup sweeping' \cup leaving' \cup {incoming'}
    BY <1>0, <2>1, <2>2 DEF Whereabouts
  <2> QED  BY <1>0, <2>1, <2>2, <2>3 DEF Whereabouts
<1>7. CASE UNCHANGED <<handle, clients, sweeping, leaving, incoming>>
  BY <1>0, <1>7 DEF Whereabouts
<1> QED
  BY <1>1, <1>2, <1>3, <1>4, <1>5, <1>6, <1>7, ZenonT(40)
  DEF Next, Stopper, Listener, Notifier, Fails, Reader, Writer, vars,
      Stop, Knocks, KnocksNoMore, StopReturns, ListenerEnds, ListenerOpens, NobodyThere,
      TurnsAway, ListenerGivesUp, ClosesTheDoor, NotifierTells, NotifierEnds,
      StopCloses, ReaderTurns, ReaderThrows, WriterThrows, ReaderIssues,
      Reads, ReadsNoMore, Subscribes, Answers, Objects, ReaderCloses, Takes,
      WriterEnds, WriterIssues, Writes, WriteFails, WriterCloses, Logs,
      Attach, Ask, Hear, Leave

LEMMA StagesStep == ASSUME Inv, [Next]_vars PROVE Stages'
<1> USE Bounds DEF Inv, Stages, TypeOK, service, loops, ending, threads, client, shell
<1>1. CASE Stop
  BY <1>1 DEF Stop, LoopsOK, ThreadsOK, ClientsOK, ShellsOK, Whereabouts
<1>2. CASE StopSwaps
  BY <1>2 DEF StopSwaps, LoopsOK, ThreadsOK, ClientsOK, ShellsOK, Whereabouts
<1>3. CASE StopLetsGo
  BY <1>3 DEF StopLetsGo, LetGo, Joined, Is, LoopsOK, ThreadsOK, ClientsOK, ShellsOK, Whereabouts
<1>4. CASE StopReturns
  BY <1>4 DEF StopReturns, LoopsOK, ThreadsOK, ClientsOK, ShellsOK, Whereabouts
<1>5. CASE ListenerTurns
  BY <1>5 DEF ListenerTurns, LoopsOK, ThreadsOK, ClientsOK, ShellsOK, Whereabouts
<1>6. CASE ListenerEnds
  BY <1>6 DEF ListenerEnds, LoopsOK, ThreadsOK, ClientsOK, ShellsOK, Whereabouts
<1>7. CASE ListenerOpens
  BY <1>7 DEF ListenerOpens, LoopsOK, ThreadsOK, ClientsOK, ShellsOK, Whereabouts
<1>8. CASE NobodyThere
  BY <1>8 DEF NobodyThere, LoopsOK, ThreadsOK, ClientsOK, ShellsOK, Whereabouts
<1>9. CASE TurnsAway \/ ListenerGivesUp
  BY <1>9 DEF TurnsAway, ListenerGivesUp, ClosesTheDoor, LoopsOK, ThreadsOK, ClientsOK, ShellsOK, Whereabouts
<1>10. CASE Accepts
  BY <1>10 DEF Accepts, Is, LoopsOK, ThreadsOK, ClientsOK, ShellsOK, Whereabouts
<1>11. CASE Enlists
  BY <1>11 DEF Enlists, LoopsOK, ThreadsOK, ClientsOK, ShellsOK, Whereabouts
<1>12. ASSUME NEW s \in Shells, StopCloses(s) PROVE Stages'
  BY <1>12 DEF StopCloses, Close, Cancels, TooEarly, Is, LoopsOK, ThreadsOK, ClientsOK, ShellsOK, Whereabouts
<1>13. ASSUME NEW s \in Shells, Sweeps(s) PROVE Stages'
  BY <1>13 DEF Sweeps, LetGo, Joined, Is, LoopsOK, ThreadsOK, ClientsOK, ShellsOK, Whereabouts
<1>14. CASE UNCHANGED <<sweeping, listener, stopper, clients, leaving, now>>
  BY <1>14
<1>15. CASE KnocksNoMore
  BY <1>15 DEF KnocksNoMore, LoopsOK, ThreadsOK, ClientsOK, ShellsOK, Whereabouts
<1> QED
  BY <1>1, <1>2, <1>3, <1>4, <1>5, <1>6, <1>7, <1>8, <1>9, <1>10, <1>11,
     <1>12, <1>13, <1>14, <1>15, ZenonT(40)
  DEF Next, Stopper, Listener, Notifier, Fails, Reader, Writer, vars,
      Knocks, NotifierTells, NotifierEnds, ReaderTurns, ReaderThrows,
      WriterThrows, ReaderIssues, Reads, ReadsNoMore,
      Subscribes, Answers, Objects, ReaderCloses, Takes, WriterEnds,
      WriterIssues, Writes, WriteFails, WriterCloses, Logs, Attach, Ask,
      Hear, Leave

(* A client whose handle is open may do with its threads what it likes.     *)
LEMMA OpenMayMove ==
    ASSUME Unborn, NEW s \in Shells, handle[s] = "open", UNCHANGED <<side, door, handle>>,
           \A t \in Shells : t # s =>
             reader'[t] = reader[t] /\ writer'[t] = writer[t] /\ token'[t] = token[t]
    PROVE  Unborn'
BY DEF Unborn

(* A thread that takes a step is one of a client whose handle is open.      *)
LEMMA MoversAreOpen ==
    ASSUME TypeOK, Unborn, NEW s \in Shells,
           reader[s] \notin {"none", "gone"} \/ writer[s] \notin {"none", "gone"}
    PROVE  handle[s] = "open"
<1>1. handle[s] \in {"none", "open", "closed"}
  BY DEF TypeOK, ClientsOK
<1> QED  BY <1>1 DEF Unborn

LEMMA ThreadsMoveAlone ==
    ASSUME TypeOK, Unborn, NEW s \in Shells,
           Reader(s) \/ Writer(s) \/ ReaderThrows(s) \/ WriterThrows(s)
    PROVE  Unborn'
<1> USE DEF service, client, shell
<1>1. DOMAIN reader = Shells /\ DOMAIN writer = Shells /\ DOMAIN token = Shells
  BY DEF TypeOK, ThreadsOK, ClientsOK
<1> DEFINE Alone ==
      /\ UNCHANGED <<side, door, handle>>
      /\ reader[s] \notin {"none", "gone"} \/ writer[s] \notin {"none", "gone"}
      /\ \A t \in Shells : t # s =>
           reader'[t] = reader[t] /\ writer'[t] = writer[t] /\ token'[t] = token[t]
<1> SUFFICES Alone
  <2>1. ASSUME Alone PROVE handle[s] = "open"
    BY <2>1, MoversAreOpen
  <2> QED  BY <2>1, OpenMayMove
<1>2. CASE ReaderTurns(s) \/ ReaderIssues(s) \/ ReadsNoMore(s) \/ ReaderThrows(s)
  BY <1>1, <1>2 DEF ReaderTurns, ReaderIssues, ReadsNoMore, ReaderThrows, Is
<1>3. CASE Reads(s)
  BY <1>1, <1>3 DEF Reads, Is
<1>4. CASE Subscribes(s)
  BY <1>1, <1>4 DEF Subscribes, Is, threads
<1>5. CASE Answers(s) \/ Objects(s)
  BY <1>1, <1>5 DEF Answers, Objects, Is
<1>6. CASE ReaderCloses(s)
  BY <1>1, <1>6 DEF ReaderCloses, Close, Cancels, Is
<1>7. CASE Takes(s)
  BY <1>1, <1>7 DEF Takes, Is
<1>8. CASE WriterEnds(s) \/ WriterIssues(s) \/ WriteFails(s) \/ WriterThrows(s)
  BY <1>1, <1>8 DEF WriterEnds, WriterIssues, WriteFails, WriterThrows, Is
<1>9. CASE Writes(s)
  BY <1>1, <1>9 DEF Writes, Is
<1>10. CASE WriterCloses(s)
  BY <1>1, <1>10 DEF WriterCloses, Close, Cancels, Is
<1> HIDE DEF Alone
<1> QED  BY <1>2, <1>3, <1>4, <1>5, <1>6, <1>7, <1>8, <1>9, <1>10 DEF Reader, Writer

LEMMA UnbornStep == ASSUME Inv, [Next]_vars PROVE Unborn'
<1> USE DEF service, loops, ending, threads, client, shell
<1>1. TypeOK /\ Whereabouts /\ Stages /\ Unborn
  BY DEF Inv
<1>2. /\ DOMAIN reader = Shells /\ DOMAIN writer = Shells /\ DOMAIN token = Shells
      /\ DOMAIN handle = Shells /\ DOMAIN side = Shells
  BY <1>1 DEF TypeOK, ThreadsOK, ClientsOK, ShellsOK
<1>3. Waiting \notin Shells /\ Knock \notin Shells /\ Nobody \notin Shells
  BY Bounds
<1>4. CASE Knocks \/ ListenerOpens \/ NobodyThere
  <2>1. /\ UNCHANGED <<side, handle, reader, writer, token>>
        /\ door' \in {door, Knock, Waiting, Nobody}
    BY <1>4 DEF Knocks, ListenerOpens, NobodyThere
  <2> QED  BY <1>1, <1>3, <2>1 DEF Unborn
<1>5. ASSUME NEW s \in Shells, Joined(s), LetGo(s), UNCHANGED <<side, door>>,
             s \in sweeping \cup leaving
      PROVE  Unborn'
  <2>1. /\ handle' = [handle EXCEPT ![s] = "closed"] /\ token' = [token EXCEPT ![s] = FALSE]
        /\ reader[s] = "gone" /\ writer[s] = "gone" /\ UNCHANGED <<reader, writer>>
    BY <1>5 DEF LetGo, Joined, Is
  <2>2. handle[s] = "open"
    BY <1>1, <1>5 DEF Whereabouts
  <2> QED  BY <1>1, <1>2, <1>5, <2>1, <2>2 DEF Unborn
<1>6. CASE StopLetsGo
  <2>1. now \in leaving /\ now \in Shells
    BY <1>1, <1>6 DEF StopLetsGo, Stages, TypeOK, LoopsOK
  <2>2. Joined(now) /\ LetGo(now) /\ UNCHANGED <<side, door>>
    BY <1>6 DEF StopLetsGo
  <2> QED  BY <1>5, <2>1, <2>2
<1>7. ASSUME NEW s \in Shells, Sweeps(s) PROVE Unborn'
  BY <1>5, <1>7 DEF Sweeps
<1>8. CASE TurnsAway \/ ListenerGivesUp
  <2>1. /\ side' = [s \in Shells |-> IF s = door THEN "left" ELSE side[s]]
        /\ door' = Nobody /\ UNCHANGED <<handle, reader, writer, token>>
    BY <1>8 DEF TurnsAway, ListenerGivesUp, ClosesTheDoor
  <2> QED  BY <1>1, <1>3, <2>1 DEF Unborn
<1>9. CASE Accepts
  <2>1. /\ door \in Shells /\ door' = Nobody /\ UNCHANGED <<side, token>>
        /\ handle' = [handle EXCEPT ![door] = "open"]
        /\ reader' = [reader EXCEPT ![door] = "top"]
        /\ writer' = [writer EXCEPT ![door] = "waits"]
    BY <1>9 DEF Accepts, Is
  <2> QED  BY <1>1, <1>2, <1>3, <2>1 DEF Unborn
<1>10. ASSUME NEW s \in Shells, StopCloses(s) PROVE Unborn'
  <2>1. /\ s \in leaving /\ UNCHANGED <<side, door, handle, token>>
        /\ \A t \in Shells : t # s => reader'[t] = reader[t] /\ writer'[t] = writer[t]
    BY <1>2, <1>10 DEF StopCloses, Close, Cancels, Is
  <2>2. handle[s] = "open"
    BY <1>1, <2>1 DEF Whereabouts
  <2> QED  BY <1>1, <2>1, <2>2, OpenMayMove
<1>11. ASSUME NEW s \in Shells,
              Reader(s) \/ Writer(s) \/ ReaderThrows(s) \/ WriterThrows(s)
       PROVE  Unborn'
  BY <1>1, <1>11, ThreadsMoveAlone
<1>12. ASSUME NEW s \in Shells, Attach(s) PROVE Unborn'
  <2>1. /\ side[s] = "away" /\ door' = s /\ side' = [side EXCEPT ![s] = "there"]
        /\ UNCHANGED <<handle, reader, writer, token>>
    BY <1>12 DEF Attach, Is
  <2> QED  BY <1>1, <1>2, <2>1 DEF Unborn
<1>13. ASSUME NEW s \in Shells, Leave(s) PROVE Unborn'
  <2>1. /\ side[s] = "there" /\ side' = [side EXCEPT ![s] = "left"]
        /\ UNCHANGED <<door, handle, reader, writer, token>>
    BY <1>13 DEF Leave, Is
  <2> QED  BY <1>1, <1>2, <2>1 DEF Unborn
<1>14. CASE UNCHANGED <<side, door, handle, token, reader, writer>>
  BY <1>1, <1>14 DEF Unborn
<1> QED
  BY <1>4, <1>6, <1>7, <1>8, <1>9, <1>10, <1>11, <1>12, <1>13, <1>14
  DEF Next, Stopper, Listener, Notifier, Fails, vars, Stop, KnocksNoMore, StopSwaps, StopReturns, ListenerTurns,
      ListenerEnds, Enlists, NotifierTells, NotifierEnds, Logs, Ask, Hear

-----------------------------------------------------------------------------
(* Answers in the order of the requests.                                     *)
(*                                                                           *)
(* What is still to be read ends with the last request made; what is handled *)
(* comes before it; and what is said so far ends with the one before that.   *)

Unread(s) ==
    handle[s] # "closed" =>
      /\ Len(inbox[s]) <= asked[s]
      /\ \A i \in 1..Len(inbox[s]) : inbox[s][i] = asked[s] - Len(inbox[s]) + i

(* The answers under way to shell s are of the first n requests. *)
Said(s, n) == \E a, b, c \in 0..asked[s] : InARow(s, a, b, c, n)

UpTo(s, n) ==
    ~closing[s] =>
      /\ reader[s] \in {"none", "top", "issues", "reads"} => n = asked[s] - Len(inbox[s])
      /\ reader[s] = "handles" => n + 1 = answering[s]

Line(s) ==
    /\ Unread(s)
    /\ reader[s] = "handles" => answering[s] = asked[s] - Len(inbox[s])
    /\ writer[s] \in {"none", "waits"} => writing[s] = Event
    /\ side[s] = "away" => asked[s] = 0
    /\ side[s] # "left" => \E n \in 0..asked[s] : Said(s, n) /\ UpTo(s, n)

InLine == \A s \in Shells : Line(s)

LEMMA NothingFollows ==
    ASSUME NEW a \in Nat
    PROVE  FollowOn(<<>>, a, a) /\ FollowOn(<<Event>>, a, a)
<1>1. DOMAIN <<>> = {} /\ (a + 1)..a = {}
  BY EmptySeq
<1>2. DOMAIN <<Event>> = {1} /\ <<Event>>[1] = Event
  OBVIOUS
<1> QED  BY <1>1, <1>2 DEF FollowOn

LEMMA OneFollows ==
    ASSUME NEW m \in Nat, NEW a \in Nat, NEW b \in Nat
    PROVE  /\ FollowOn(<<m>>, a, b) /\ m = Event => a = b
           /\ FollowOn(<<m>>, a, b) /\ m # Event => m = a + 1 /\ b = a + 1
           /\ m = a + 1 /\ b = a + 1 => FollowOn(<<m>>, a, b)
<1>1. DOMAIN <<m>> = {1} /\ <<m>>[1] = m
  OBVIOUS
<1>2. ASSUME FollowOn(<<m>>, a, b) PROVE \A n \in (a + 1)..b : n = m
  BY <1>1, <1>2 DEF FollowOn
<1>3. ASSUME FollowOn(<<m>>, a, b), m = Event PROVE a = b
  <2>1. ~(a < b)
    <3> SUFFICES ASSUME a < b PROVE FALSE
      OBVIOUS
    <3>1. b \in (a + 1)..b
      OBVIOUS
    <3> QED  BY <1>2, <1>3, <3>1
  <2> QED  BY <1>3, <2>1 DEF FollowOn
<1>4. ASSUME FollowOn(<<m>>, a, b), m # Event PROVE m = a + 1 /\ b = a + 1
  <2>1. m \in (a + 1)..b
    BY <1>1, <1>4 DEF FollowOn
  <2>2. a + 1 \in (a + 1)..b /\ b \in (a + 1)..b
    BY <2>1
  <2> QED  BY <1>2, <1>4, <2>2
<1>5. ASSUME m = a + 1, b = a + 1 PROVE FollowOn(<<m>>, a, b)
  BY <1>1, <1>5 DEF FollowOn
<1> QED  BY <1>3, <1>4, <1>5

LEMMA LastFollows ==
    ASSUME NEW q \in Seq(Nat), NEW a \in Nat, NEW b \in Nat, FollowOn(q, a, b)
    PROVE  FollowOn(Append(q, Event), a, b) /\ FollowOn(Append(q, b + 1), a, b + 1)
<1>0. /\ Len(q) \in Nat /\ DOMAIN q = 1..Len(q) /\ a <= b
      /\ \A i \in 1..Len(q) : q[i] \in Nat
  BY DEF FollowOn
<1>1. ASSUME NEW m \in Nat, NEW e \in {b, b + 1},
             (m = Event /\ e = b) \/ (m = b + 1 /\ e = b + 1)
      PROVE  FollowOn(Append(q, m), a, e)
  <2> DEFINE p == Append(q, m)
  <2>1. /\ DOMAIN p = 1..(Len(q) + 1) /\ p[Len(q) + 1] = m
        /\ \A i \in 1..Len(q) : p[i] = q[i]
    OBVIOUS
  <2> HIDE DEF p
  <2>2. \A i \in DOMAIN p : i \in 1..Len(q) \/ i = Len(q) + 1
    BY <1>0, <2>1
  <2>3. \A i \in DOMAIN p : p[i] = Event \/ p[i] \in (a + 1)..e
    <3>1. \A i \in 1..Len(q) : q[i] = Event \/ q[i] \in (a + 1)..b
      BY <1>0 DEF FollowOn
    <3> SUFFICES ASSUME NEW i \in DOMAIN p
                 PROVE  p[i] = Event \/ p[i] \in (a + 1)..e
      OBVIOUS
    <3>2. CASE i \in 1..Len(q)
      <4>1. q[i] = Event \/ q[i] \in (a + 1)..e
        BY <1>1, <3>1, <3>2
      <4> QED  BY <2>1, <3>2, <4>1
    <3>3. CASE i = Len(q) + 1
      <4>1. m = Event \/ m \in (a + 1)..e
        BY <1>0, <1>1
      <4> QED  BY <2>1, <3>3, <4>1
    <3> QED  BY <2>2, <3>2, <3>3
  <2>4. \A n \in (a + 1)..e : \E i \in DOMAIN p : p[i] = n
    <3> SUFFICES ASSUME NEW n \in (a + 1)..e PROVE \E i \in DOMAIN p : p[i] = n
      OBVIOUS
    <3>1. CASE n \in (a + 1)..b
      <4>1. PICK i \in 1..Len(q) : q[i] = n
        BY <1>0, <3>1 DEF FollowOn
      <4>2. i \in DOMAIN p /\ p[i] = n
        BY <1>0, <2>1, <4>1
      <4> QED  BY <4>2
    <3>2. CASE n \notin (a + 1)..b
      <4>1. n = m
        BY <1>0, <1>1, <3>2
      <4>2. Len(q) + 1 \in DOMAIN p
        BY <1>0, <2>1
      <4> QED  BY <2>1, <4>1, <4>2
    <3> QED  BY <3>1, <3>2
  <2>5. ASSUME NEW i \in DOMAIN p, NEW k \in DOMAIN p, i < k, p[i] # Event, p[k] # Event
        PROVE  p[i] < p[k]
    <3>1. i \in 1..Len(q) /\ p[i] = q[i]
      BY <1>0, <2>1, <2>5
    <3>2. CASE k \in 1..Len(q)
      BY <1>0, <2>1, <2>5, <3>1, <3>2 DEF FollowOn
    <3>3. CASE k = Len(q) + 1
      <4>1. q[i] \in (a + 1)..b /\ m = b + 1
        BY <1>0, <1>1, <2>1, <2>5, <3>1, <3>3 DEF FollowOn
      <4> QED  BY <2>1, <3>1, <3>3, <4>1
    <3> QED  BY <2>2, <3>2, <3>3
  <2>6. a <= e
    BY <1>0, <1>1
  <2>7. FollowOn(p, a, e)
    BY <2>3, <2>4, <2>5, <2>6 DEF FollowOn
  <2> QED  BY <2>7 DEF p
<1>2. FollowOn(Append(q, Event), a, b)
  <2>1. Event \in Nat /\ b \in {b, b + 1}
    OBVIOUS
  <2> QED  BY <1>1, <2>1
<1>3. FollowOn(Append(q, b + 1), a, b + 1)
  <2>1. b + 1 \in Nat /\ b + 1 \in {b, b + 1}
    OBVIOUS
  <2> QED  BY <1>1, <2>1
<1> QED  BY <1>2, <1>3

LEMMA FirstFollows ==
    ASSUME NEW q \in Seq(Nat), q # <<>>, NEW a \in Nat, NEW b \in Nat, FollowOn(q, a, b)
    PROVE  /\ Head(q) = Event => FollowOn(Tail(q), a, b)
           /\ Head(q) # Event => Head(q) = a + 1 /\ FollowOn(Tail(q), a + 1, b)
<1>0. /\ Len(q) \in Nat /\ Len(q) > 0 /\ DOMAIN q = 1..Len(q) /\ a <= b
      /\ \A i \in 1..Len(q) : q[i] \in Nat
  BY DEF FollowOn
<1> DEFINE p == Tail(q)
<1>1. /\ DOMAIN p = 1..(Len(q) - 1) /\ Head(q) = q[1]
      /\ \A i \in 1..(Len(q) - 1) : p[i] = q[i + 1]
  OBVIOUS
<1> HIDE DEF p
<1>2. \A i \in DOMAIN p : i \in Nat /\ i + 1 \in DOMAIN q /\ p[i] = q[i + 1]
  BY <1>0, <1>1
<1>3. \A k \in DOMAIN q : k = 1 \/ (k - 1 \in DOMAIN p /\ p[k - 1] = q[k] /\ 1 < k)
  <2> SUFFICES ASSUME NEW k \in DOMAIN q, k # 1
               PROVE  k - 1 \in DOMAIN p /\ p[k - 1] = q[k] /\ 1 < k
    OBVIOUS
  <2>1. k - 1 \in 1..(Len(q) - 1) /\ k - 1 + 1 = k /\ 1 < k
    BY <1>0
  <2> QED  BY <1>1, <2>1
<1>4. \A i, k \in DOMAIN p : i < k /\ p[i] # Event /\ p[k] # Event => p[i] < p[k]
  <2> SUFFICES ASSUME NEW i \in DOMAIN p, NEW k \in DOMAIN p,
                      i < k, p[i] # Event, p[k] # Event
               PROVE  p[i] < p[k]
    OBVIOUS
  <2>1. i + 1 < k + 1 /\ i + 1 \in DOMAIN q /\ k + 1 \in DOMAIN q
    BY <1>2
  <2> QED  BY <1>2, <2>1 DEF FollowOn
<1>5. 1 \in DOMAIN q
  BY <1>0
<1>6. CASE q[1] = Event
  <2>1. \A i \in DOMAIN p : p[i] = Event \/ p[i] \in (a + 1)..b
    BY <1>2 DEF FollowOn
  <2>2. \A n \in (a + 1)..b : \E i \in DOMAIN p : p[i] = n
    <3> SUFFICES ASSUME NEW n \in (a + 1)..b PROVE \E i \in DOMAIN p : p[i] = n
      OBVIOUS
    <3>1. PICK k \in DOMAIN q : q[k] = n
      BY DEF FollowOn
    <3>2. k # 1
      BY <1>6, <3>1
    <3> QED  BY <1>3, <3>1, <3>2
  <2>3. FollowOn(p, a, b)
    BY <1>0, <1>4, <2>1, <2>2 DEF FollowOn
  <2> QED  BY <1>1, <1>6, <2>3 DEF p
<1>7. CASE q[1] # Event
  <2>1. q[1] \in (a + 1)..b
    BY <1>5, <1>7 DEF FollowOn
  <2>2. \A k \in DOMAIN q : q[k] # Event /\ k # 1 => q[1] < q[k]
    BY <1>3, <1>5, <1>7 DEF FollowOn
  <2>3. q[1] = a + 1
    <3>1. a + 1 \in (a + 1)..b
      BY <2>1
    <3>2. PICK k \in DOMAIN q : q[k] = a + 1
      BY <3>1 DEF FollowOn
    <3> QED  BY <2>1, <2>2, <3>2
  <2>4. \A i \in DOMAIN p : p[i] = Event \/ p[i] \in (a + 2)..b
    <3> SUFFICES ASSUME NEW i \in DOMAIN p, p[i] # Event PROVE p[i] \in (a + 2)..b
      OBVIOUS
    <3>1. q[i + 1] \in (a + 1)..b /\ p[i] = q[i + 1]
      BY <1>2 DEF FollowOn
    <3>2. a + 1 < q[i + 1]
      <4>1. i + 1 # 1
        BY <1>1, <1>0
      <4> QED  BY <1>2, <2>2, <2>3, <4>1
    <3> QED  BY <3>1, <3>2
  <2>5. \A n \in (a + 2)..b : \E i \in DOMAIN p : p[i] = n
    <3> SUFFICES ASSUME NEW n \in (a + 2)..b PROVE \E i \in DOMAIN p : p[i] = n
      OBVIOUS
    <3>1. PICK k \in DOMAIN q : q[k] = n
      BY DEF FollowOn
    <3>2. k # 1
      BY <2>3, <3>1
    <3> QED  BY <1>3, <3>1, <3>2
  <2>6. a + 1 <= b /\ a + 1 + 1 = a + 2
    BY <2>1
  <2>7. FollowOn(p, a + 1, b)
    BY <1>4, <2>4, <2>5, <2>6 DEF FollowOn
  <2> QED  BY <1>1, <1>7, <2>3, <2>7 DEF p
<1> QED  BY <1>6, <1>7

(* A step that says nothing to shell t and reads nothing of it.  *)
Loosens(t) ==
    /\ UNCHANGED <<heard[t], pipe[t], writing[t], out[t], asked[t], inbox[t], answering[t]>>
    /\ closing[t] => closing'[t]
    /\ handle[t] = "closed" => handle'[t] = "closed"
    /\ reader'[t] = "handles" => reader[t] = "handles"
    /\ reader'[t] \in {"none", "top", "issues", "reads"} =>
         reader[t] \in {"none", "top", "issues", "reads"}
    /\ writer'[t] \in {"none", "waits"} => writer[t] \in {"none", "waits"}
    /\ side'[t] = side[t] \/ side'[t] = "left" \/ (side[t] = "away" /\ side'[t] = "there")

LEMMA LineLoosens ==
    ASSUME NEW t \in Shells, Line(t), Loosens(t)
    PROVE  Line(t)'
<1>1. Unread(t)'
  BY DEF Line, Loosens, Unread
<1>2. reader'[t] = "handles" => answering'[t] = asked'[t] - Len(inbox'[t])
  BY DEF Line, Loosens
<1>3. writer'[t] \in {"none", "waits"} => writing'[t] = Event
  BY DEF Line, Loosens
<1>4. side'[t] = "away" => asked'[t] = 0
  BY DEF Line, Loosens
<1>5. ASSUME side'[t] # "left"
      PROVE  \E n \in 0..asked'[t] : Said(t, n)' /\ UpTo(t, n)'
  <2>1. PICK n \in 0..asked[t] : Said(t, n) /\ UpTo(t, n)
    BY <1>5 DEF Line, Loosens
  <2>2. Said(t, n)'
    BY <2>1 DEF Said, InARow, Loosens
  <2>3. UpTo(t, n)'
    BY <2>1 DEF UpTo, Loosens
  <2> QED  BY <2>1, <2>2, <2>3 DEF Loosens
<1> QED  BY <1>1, <1>2, <1>3, <1>4, <1>5 DEF Line

(* What shell t is sent stays in line, whoever takes a message on. *)

LEMMA Lines ==
    ASSUME TypeOK, NEW t \in Shells
    PROVE  /\ heard[t] \in Seq(Nat) /\ pipe[t] \in Seq(Nat) /\ out[t] \in Seq(Nat)
           /\ inbox[t] \in Seq(Nat) /\ writing[t] \in Nat /\ answering[t] \in Nat
           /\ asked[t] \in Nat /\ closing[t] \in BOOLEAN
           /\ Len(inbox[t]) \in Nat
BY DEF TypeOK, ThreadsOK, ClientsOK, ShellsOK

LEMMA SaidMore ==
    ASSUME TypeOK, NEW t \in Shells, NEW n \in Nat, Said(t, n),
           UNCHANGED <<heard[t], pipe[t], writing[t], asked[t]>>
    PROVE  /\ out'[t] = Append(out[t], Event) => Said(t, n)'
           /\ out'[t] = Append(out[t], n + 1) => Said(t, n + 1)'
<1>1. PICK a, b, c \in 0..asked[t] : InARow(t, a, b, c, n)
  BY DEF Said
<1>2. FollowOn(Append(out[t], Event), c, n) /\ FollowOn(Append(out[t], n + 1), c, n + 1)
  BY <1>1, Lines, LastFollows DEF InARow
<1>3. ASSUME out'[t] = Append(out[t], Event) PROVE InARow(t, a, b, c, n)'
  BY <1>1, <1>2, <1>3 DEF InARow
<1>4. ASSUME out'[t] = Append(out[t], n + 1) PROVE InARow(t, a, b, c, n + 1)'
  BY <1>1, <1>2, <1>4 DEF InARow
<1> QED  BY <1>1, <1>3, <1>4 DEF Said

LEMMA SaidHears ==
    ASSUME TypeOK, NEW t \in Shells, NEW n \in Nat, Said(t, n), Hear(t)
    PROVE  Said(t, n)'
<1>1. PICK a, b, c \in 0..asked[t] : InARow(t, a, b, c, n)
  BY DEF Said
<1>2. /\ pipe[t] # <<>> /\ pipe[t] \in Seq(Nat) /\ heard[t] \in Seq(Nat)
      /\ pipe \in [Shells -> Seq(Nat)] /\ heard \in [Shells -> Seq(Nat)]
      /\ a \in Nat /\ b \in Nat /\ b <= asked[t] /\ asked[t] \in Nat
  BY <1>1, Lines DEF Hear, TypeOK, ShellsOK
<1>3. /\ pipe'[t] = Tail(pipe[t])
      /\ heard' = IF Head(pipe[t]) = Event THEN heard
                  ELSE [heard EXCEPT ![t] = Append(@, Head(pipe[t]))]
      /\ UNCHANGED <<writing, out, asked>>
  BY <1>2 DEF Hear, Is, threads, client
<1>4. /\ Head(pipe[t]) = Event => FollowOn(Tail(pipe[t]), a, b)
      /\ Head(pipe[t]) # Event =>
           Head(pipe[t]) = a + 1 /\ FollowOn(Tail(pipe[t]), a + 1, b)
  BY <1>1, <1>2, FirstFollows DEF InARow
<1>5. CASE Head(pipe[t]) = Event
  <2>1. InARow(t, a, b, c, n)'
    BY <1>1, <1>3, <1>4, <1>5 DEF InARow
  <2> QED  BY <1>1, <1>3, <2>1 DEF Said
<1>6. CASE Head(pipe[t]) # Event
  <2>1. heard'[t] = Append(heard[t], a + 1)
    BY <1>2, <1>3, <1>4, <1>6
  <2>2. FollowOn(heard'[t], 0, a + 1)
    BY <1>1, <1>2, <2>1, LastFollows DEF InARow
  <2>3. InARow(t, a + 1, b, c, n)'
    BY <1>1, <1>3, <1>4, <1>6, <2>2 DEF InARow
  <2>4. a + 1 \in 0..asked[t]
    <3>1. a + 1 <= b
      BY <1>4, <1>6 DEF FollowOn
    <3> QED  BY <1>2, <3>1
  <2> QED  BY <1>1, <1>3, <2>3, <2>4 DEF Said
<1> QED  BY <1>5, <1>6

LEMMA SaidTakes ==
    ASSUME TypeOK, NEW t \in Shells, NEW n \in 0..asked[t], Said(t, n),
           Takes(t), writing[t] = Event
    PROVE  Said(t, n)'
<1>1. PICK a, b, c \in 0..asked[t] : InARow(t, a, b, c, n)
  BY DEF Said
<1>2. /\ out[t] # <<>> /\ out[t] \in Seq(Nat) /\ asked[t] \in Nat /\ writing[t] \in Nat
      /\ out \in [Shells -> Seq(Nat)] /\ writing \in [Shells -> Nat]
      /\ a \in Nat /\ b \in Nat /\ c \in Nat /\ n \in Nat /\ n <= asked[t]
  BY <1>1, Lines DEF Takes, TypeOK, ThreadsOK, ClientsOK
<1>3. /\ out'[t] = Tail(out[t]) /\ writing'[t] = Head(out[t])
      /\ UNCHANGED <<heard, pipe, asked>>
  BY <1>2 DEF Takes, Is, shell
<1>4. b = c
  BY <1>1, <1>2, OneFollows DEF InARow
<1>5. /\ Head(out[t]) = Event => FollowOn(Tail(out[t]), c, n)
      /\ Head(out[t]) # Event =>
           Head(out[t]) = c + 1 /\ FollowOn(Tail(out[t]), c + 1, n)
  BY <1>1, <1>2, FirstFollows DEF InARow
<1>6. CASE Head(out[t]) = Event
  <2>1. InARow(t, a, b, c, n)'
    BY <1>1, <1>2, <1>3, <1>4, <1>5, <1>6, NothingFollows DEF InARow
  <2> QED  BY <1>1, <1>3, <2>1 DEF Said
<1>7. CASE Head(out[t]) # Event
  <2>1. FollowOn(<<writing'[t]>>, b, c + 1)
    BY <1>2, <1>3, <1>4, <1>5, <1>7, OneFollows
  <2>2. InARow(t, a, b, c + 1, n)'
    BY <1>1, <1>3, <1>5, <1>7, <2>1 DEF InARow
  <2> QED
    <3>1. c + 1 <= n
      BY <1>5, <1>7 DEF FollowOn
    <3> QED  BY <1>1, <1>2, <1>3, <2>2, <3>1, SMTT(30) DEF Said
<1> QED  BY <1>6, <1>7

LEMMA SaidWrites ==
    ASSUME TypeOK, NEW t \in Shells, NEW n \in Nat, Said(t, n), Writes(t)
    PROVE  Said(t, n)'
<1>1. PICK a, b, c \in 0..asked[t] : InARow(t, a, b, c, n)
  BY DEF Said
<1>2. /\ pipe[t] \in Seq(Nat) /\ asked[t] \in Nat /\ writing[t] \in Nat
      /\ pipe \in [Shells -> Seq(Nat)] /\ writing \in [Shells -> Nat]
      /\ a \in Nat /\ b \in Nat /\ c \in Nat
  BY <1>1, Lines, SMTT(30) DEF TypeOK, ThreadsOK, ShellsOK
<1>3. /\ pipe'[t] = Append(pipe[t], writing[t]) /\ writing'[t] = Event
      /\ UNCHANGED <<heard, out, asked>>
  BY <1>2 DEF Writes, Is, client
<1>4. FollowOn(pipe'[t], a, c)
  <2>1. CASE writing[t] = Event
    <3>1. b = c
      BY <1>1, <1>2, <2>1, OneFollows DEF InARow
    <3> QED  BY <1>1, <1>2, <1>3, <2>1, <3>1, LastFollows DEF InARow
  <2>2. CASE writing[t] # Event
    <3>1. writing[t] = b + 1 /\ c = b + 1
      BY <1>1, <1>2, <2>2, OneFollows DEF InARow
    <3> QED  BY <1>1, <1>2, <1>3, <3>1, LastFollows DEF InARow
  <2> QED  BY <2>1, <2>2
<1>5. InARow(t, a, c, c, n)'
  BY <1>1, <1>2, <1>3, <1>4, NothingFollows DEF InARow
<1> QED  BY <1>1, <1>3, <1>5 DEF Said

(* A client that is let go of says no more than it has. *)
LEMMA SaidLetGo ==
    ASSUME TypeOK, NEW t \in Shells, NEW n \in Nat, Said(t, n),
           UNCHANGED <<heard[t], pipe[t], asked[t]>>,
           writing'[t] = Event, out'[t] = <<>>
    PROVE  \E m \in 0..asked[t] : Said(t, m)'
<1>1. PICK a, b, c \in 0..asked[t] : InARow(t, a, b, c, n)
  BY DEF Said
<1>2. b \in Nat /\ asked[t] \in Nat
  BY <1>1, Lines
<1>3. InARow(t, a, b, b, b)'
  BY <1>1, <1>2, NothingFollows DEF InARow
<1> QED  BY <1>1, <1>3 DEF Said

LEMMA LineStep ==
    ASSUME Inv, InLine, [Next]_vars, NEW t \in Shells
    PROVE  Line(t)'
<1> USE DEF service, loops, ending, threads, client, shell
<1>0. /\ Line(t) /\ TypeOK /\ asked[t] \in Nat /\ answering[t] \in Nat
      /\ inbox[t] \in Seq(Nat) /\ out[t] \in Seq(Nat) /\ Len(inbox[t]) \in Nat
      /\ closing[t] \in BOOLEAN
  BY Lines DEF InLine, Inv
<1>1. /\ reader \in [Shells -> ReaderPlaces] /\ writer \in [Shells -> WriterPlaces]
      /\ answering \in [Shells -> Nat] /\ writing \in [Shells -> Nat]
      /\ closing \in [Shells -> BOOLEAN] /\ out \in [Shells -> Seq(Nat)]
      /\ handle \in [Shells -> {"none", "open", "closed"}]
      /\ side \in [Shells -> {"away", "there", "left"}] /\ asked \in [Shells -> Nat]
      /\ inbox \in [Shells -> Seq(Nat)] /\ pipe \in [Shells -> Seq(Nat)]
      /\ heard \in [Shells -> Seq(Nat)]
  BY <1>0 DEF TypeOK, ThreadsOK, ClientsOK, ShellsOK
<1>2. CASE UNCHANGED <<heard, pipe, writing, out, asked, inbox, answering, closing,
                        handle, reader, writer, side>>
  BY <1>0, <1>2, LineLoosens DEF Loosens
<1>3. ASSUME NEW s \in Shells, StopCloses(s) PROVE Line(t)'
  <2>1. Loosens(t)
    BY <1>1, <1>3 DEF StopCloses, Close, Cancels, Is, Loosens
  <2> QED  BY <1>0, <2>1, LineLoosens
<1>4. CASE TurnsAway \/ ListenerGivesUp
  <2>1. Loosens(t)
    BY <1>1, <1>4 DEF TurnsAway, ListenerGivesUp, ClosesTheDoor, Loosens
  <2> QED  BY <1>0, <2>1, LineLoosens
<1>5. CASE Accepts
  <2>1. door \in Shells /\ reader[door] = "none" /\ writer[door] = "none"
        /\ handle[door] = "none"
    BY <1>5 DEF Accepts, Inv, Unborn
  <2>2. Loosens(t)
    BY <1>1, <1>5, <2>1 DEF Accepts, Is, Loosens
  <2> QED  BY <1>0, <2>2, LineLoosens
<1>6. ASSUME NEW s \in Shells,
             \/ ReaderTurns(s) \/ ReaderIssues(s) \/ ReadsNoMore(s)
             \/ ReaderThrows(s) \/ ReaderCloses(s)
      PROVE  Line(t)'
  <2>1. Loosens(t)
    <3>1. CASE ReaderIssues(s)
      BY <1>1, <3>1 DEF ReaderIssues, Is, Loosens
    <3>2. CASE ReadsNoMore(s)
      BY <1>1, <3>2 DEF ReadsNoMore, Is, Loosens
    <3>3. CASE ReaderCloses(s)
      BY <1>1, <3>3 DEF ReaderCloses, Close, Cancels, Is, Loosens
    <3>4. CASE ReaderTurns(s)
      BY <1>1, <3>4 DEF ReaderTurns, Is, Loosens
    <3>5. CASE ReaderThrows(s)
      BY <1>1, <3>5 DEF ReaderThrows, Is, Loosens
    <3> QED  BY <1>6, <3>1, <3>2, <3>3, <3>4, <3>5
  <2> QED  BY <1>0, <2>1, LineLoosens
<1>7. ASSUME NEW s \in Shells,
             \/ WriterEnds(s) \/ WriterIssues(s) \/ WriteFails(s)
             \/ WriterThrows(s) \/ WriterCloses(s)
      PROVE  Line(t)'
  <2>1. Loosens(t)
    <3>1. CASE WriterEnds(s)
      BY <1>1, <3>1 DEF WriterEnds, Is, Loosens
    <3>2. CASE WriterIssues(s)
      BY <1>1, <3>2 DEF WriterIssues, Is, Loosens
    <3>3. CASE WriteFails(s)
      BY <1>1, <3>3 DEF WriteFails, Is, Loosens
    <3>4. CASE WriterCloses(s)
      BY <1>1, <3>4 DEF WriterCloses, Close, Cancels, Is, Loosens
    <3>5. CASE WriterThrows(s)
      BY <1>1, <3>5 DEF WriterThrows, Is, Loosens
    <3> QED  BY <1>7, <3>1, <3>2, <3>3, <3>4, <3>5
  <2> QED  BY <1>0, <2>1, LineLoosens
<1>8. ASSUME NEW s \in Shells, Attach(s) PROVE Line(t)'
  <2>1. Loosens(t)
    BY <1>1, <1>8 DEF Attach, Is, Loosens
  <2> QED  BY <1>0, <2>1, LineLoosens
<1>9. ASSUME NEW s \in Shells, Reads(s) PROVE Line(t)'
  <2>1. CASE t # s
    <3>1. Loosens(t)
      BY <1>1, <1>9, <2>1 DEF Reads, Is, Loosens
    <3> QED  BY <1>0, <3>1, LineLoosens
  <2>2. CASE t = s
    <3>1. /\ reader[t] = "reads" /\ inbox[t] # <<>>
          /\ answering'[t] = Head(inbox[t]) /\ inbox'[t] = Tail(inbox[t])
          /\ reader'[t] = "handles"
          /\ UNCHANGED <<heard, pipe, writing, out, asked, closing, handle, writer, side>>
      BY <1>1, <1>9, <2>2 DEF Reads, Is
    <3>2. /\ Len(inbox'[t]) = Len(inbox[t]) - 1 /\ Len(inbox[t]) > 0
          /\ \A i \in 1..(Len(inbox[t]) - 1) : inbox'[t][i] = inbox[t][i + 1]
          /\ Head(inbox[t]) = inbox[t][1]
      BY <1>0, <3>1
    <3>3. handle[t] # "closed"
      BY <3>1 DEF Inv, Unborn
    <3>4. /\ Len(inbox[t]) <= asked[t]
          /\ \A i \in 1..Len(inbox[t]) : inbox[t][i] = asked[t] - Len(inbox[t]) + i
      BY <1>0, <3>3 DEF Line, Unread
    <3>5. Unread(t)'
      <4>1. \A i \in 1..(Len(inbox[t]) - 1) :
              inbox'[t][i] = asked[t] - (Len(inbox[t]) - 1) + i
        <5> SUFFICES ASSUME NEW i \in 1..(Len(inbox[t]) - 1)
                     PROVE  inbox'[t][i] = asked[t] - (Len(inbox[t]) - 1) + i
          OBVIOUS
        <5>1. i + 1 \in 1..Len(inbox[t])
          BY <1>0
        <5>2. inbox'[t][i] = asked[t] - Len(inbox[t]) + (i + 1)
          BY <3>2, <3>4, <5>1
        <5>3. asked[t] - Len(inbox[t]) + (i + 1) = asked[t] - (Len(inbox[t]) - 1) + i
          <6>1. asked[t] \in Nat /\ Len(inbox[t]) \in Nat /\ i \in Int
            BY <1>0, <3>2
          <6> DEFINE l == Len(inbox[t])
                     a == asked[t]
          <6>2. a \in Nat /\ l \in Nat
            BY <6>1
          <6> HIDE DEF l, a
          <6>3. a - l + (i + 1) = a - (l - 1) + i
            BY <6>1, <6>2
          <6> QED  BY <6>3 DEF a, l
        <5> QED  BY <5>2, <5>3
      <4> QED  BY <1>0, <3>1, <3>2, <3>4, <4>1, SMTT(30) DEF Unread
    <3>6. answering'[t] = asked[t] - Len(inbox[t]) + 1
      <4>1. 1 \in 1..Len(inbox[t])
        BY <1>0, <3>2
      <4> QED  BY <3>1, <3>2, <3>4, <4>1
    <3>7. answering'[t] = asked'[t] - Len(inbox'[t])
      BY <1>0, <3>1, <3>2, <3>6
    <3>8. ASSUME side'[t] # "left"
          PROVE  \E n \in 0..asked'[t] : Said(t, n)' /\ UpTo(t, n)'
      <4>1. PICK n \in 0..asked[t] : Said(t, n) /\ UpTo(t, n)
        BY <1>0, <3>1, <3>8 DEF Line
      <4>2. Said(t, n)'
        BY <3>1, <4>1 DEF Said, InARow
      <4>3. UpTo(t, n)'
        BY <3>1, <3>6, <4>1 DEF UpTo
      <4> QED  BY <3>1, <4>1, <4>2, <4>3
    <3> QED  BY <1>0, <3>1, <3>5, <3>7, <3>8 DEF Line
  <2> QED  BY <2>1, <2>2
<1>10. ASSUME NEW s \in Shells, Answers(s) \/ Objects(s) PROVE Line(t)'
  <2>1. CASE t # s
    <3>1. Loosens(t)
      BY <1>1, <1>10, <2>1, ZenonT(40) DEF Answers, Objects, Send, Is, Loosens
    <3> QED  BY <1>0, <3>1, LineLoosens
  <2>2. CASE t = s
    <3>1. /\ reader[t] = "handles"
          /\ reader'[t] \in {"top", "closes"}
          /\ out'[t] = IF Refuses(t) THEN out[t] ELSE Append(out[t], answering[t])
          /\ closing'[t] <=> Refuses(t)
          /\ UNCHANGED <<heard, pipe, writing, asked, inbox, answering, handle, writer,
                         side>>
      <4>1. Send(t, answering[t])
        BY <1>10, <2>2 DEF Answers, Objects
      <4>2. reader'[t] \in {"top", "closes"}
        BY <1>1, <1>10, <2>2 DEF Answers, Objects, Is
      <4>3. closing'[t] <=> Refuses(t)
        BY <1>1, <4>1, Zenon DEF Send
      <4>4. out'[t] = IF Refuses(t) THEN out[t] ELSE Append(out[t], answering[t])
        BY <1>1, <4>1 DEF Send
      <4>5. /\ reader[t] = "handles"
            /\ UNCHANGED <<heard, pipe, writing, asked, inbox, answering, handle, writer,
                           side>>
        BY <1>10, <2>2 DEF Answers, Objects
      <4> QED  BY <4>2, <4>3, <4>4, <4>5
    <3>2. answering[t] = asked[t] - Len(inbox[t])
      BY <1>0, <3>1 DEF Line
    <3>3. ASSUME side'[t] # "left"
          PROVE  \E n \in 0..asked'[t] : Said(t, n)' /\ UpTo(t, n)'
      <4>1. PICK n \in 0..asked[t] : Said(t, n) /\ UpTo(t, n)
        BY <1>0, <3>1, <3>3 DEF Line
      <4>2. CASE Refuses(t)
        BY <3>1, <4>1, <4>2 DEF Said, InARow, UpTo
      <4>3. CASE ~Refuses(t)
        <5>1. ~closing[t] /\ out'[t] = Append(out[t], answering[t])
          BY <3>1, <4>3 DEF Refuses
        <5>2. n + 1 = answering[t] /\ n \in Nat
          BY <1>0, <3>1, <4>1, <5>1 DEF UpTo
        <5>3. Said(t, n + 1)'
          BY <1>0, <3>1, <4>1, <5>1, <5>2, SaidMore
        <5>4. UpTo(t, n + 1)'
          BY <3>1, <3>2, <5>2 DEF UpTo
        <5>5. n + 1 \in 0..asked'[t]
          BY <1>0, <3>1, <3>2, <5>2
        <5> QED  BY <5>3, <5>4, <5>5
      <4> QED  BY <4>2, <4>3
    <3> QED  BY <1>0, <3>1, <3>3 DEF Line, Unread
  <2> QED  BY <2>1, <2>2
<1>11. ASSUME NEW s \in Shells, Takes(s) PROVE Line(t)'
  <2>1. CASE t # s
    <3>1. Loosens(t)
      BY <1>1, <1>11, <2>1 DEF Takes, Is, Loosens
    <3> QED  BY <1>0, <3>1, LineLoosens
  <2>2. CASE t = s
    <3>1. /\ writer[t] = "waits" /\ writer'[t] = "issues"
          /\ UNCHANGED <<asked, inbox, answering, closing, handle, reader, side>>
      BY <1>1, <1>11, <2>2 DEF Takes, Is
    <3>2. ASSUME side'[t] # "left"
          PROVE  \E n \in 0..asked'[t] : Said(t, n)' /\ UpTo(t, n)'
      <4>1. PICK n \in 0..asked[t] : Said(t, n) /\ UpTo(t, n)
        BY <1>0, <3>1, <3>2 DEF Line
      <4>2. Said(t, n)'
        BY <1>0, <1>11, <2>2, <3>1, <4>1, SaidTakes DEF Line
      <4> QED  BY <3>1, <4>1, <4>2 DEF UpTo
    <3> QED  BY <1>0, <3>1, <3>2 DEF Line, Unread
  <2> QED  BY <2>1, <2>2
<1>12. ASSUME NEW s \in Shells, Writes(s) PROVE Line(t)'
  <2>1. CASE t # s
    <3>1. Loosens(t)
      BY <1>1, <1>12, <2>1 DEF Writes, Is, Loosens
    <3> QED  BY <1>0, <3>1, LineLoosens
  <2>2. CASE t = s
    <3>1. /\ writing'[t] = Event
          /\ UNCHANGED <<asked, inbox, answering, closing, handle, reader, side>>
      BY <1>1, <1>12, <2>2 DEF Writes, Is
    <3>2. ASSUME side'[t] # "left"
          PROVE  \E n \in 0..asked'[t] : Said(t, n)' /\ UpTo(t, n)'
      <4>1. PICK n \in 0..asked[t] : Said(t, n) /\ UpTo(t, n)
        BY <1>0, <3>1, <3>2 DEF Line
      <4>2. Said(t, n)'
        <5>1. n \in Nat
          BY <1>0
        <5> QED  BY <1>0, <1>12, <2>2, <4>1, <5>1, SaidWrites
      <4> QED  BY <3>1, <4>1, <4>2 DEF UpTo
    <3> QED  BY <1>0, <3>1, <3>2 DEF Line, Unread
  <2> QED  BY <2>1, <2>2
<1>13. ASSUME NEW s \in Shells, Hear(s) PROVE Line(t)'
  <2>1. CASE t # s
    <3>1. heard'[t] = heard[t]
      BY <1>1, <1>13, <2>1 DEF Hear
    <3>2. Loosens(t)
      BY <1>1, <1>13, <2>1, <3>1 DEF Hear, Is, Loosens
    <3> QED  BY <1>0, <3>2, LineLoosens
  <2>2. CASE t = s
    <3>1. UNCHANGED <<asked, inbox, answering, writing, writer, closing, handle, reader,
                      side>>
      BY <1>13 DEF Hear
    <3>2. ASSUME side'[t] # "left"
          PROVE  \E n \in 0..asked'[t] : Said(t, n)' /\ UpTo(t, n)'
      <4>1. PICK n \in 0..asked[t] : Said(t, n) /\ UpTo(t, n)
        BY <1>0, <3>1, <3>2 DEF Line
      <4>2. Said(t, n)'
        <5>1. n \in Nat
          BY <1>0
        <5> QED  BY <1>0, <1>13, <2>2, <4>1, <5>1, SaidHears
      <4> QED  BY <3>1, <4>1, <4>2 DEF UpTo
    <3> QED  BY <1>0, <3>1, <3>2 DEF Line, Unread
  <2> QED  BY <2>1, <2>2
<1>14. ASSUME NEW s \in Shells, Ask(s) PROVE Line(t)'
  <2>1. CASE t # s
    <3>1. Loosens(t)
      BY <1>1, <1>14, <2>1 DEF Ask, Is, Loosens
    <3> QED  BY <1>0, <3>1, LineLoosens
  <2>2. CASE t = s
    <3>1. /\ asked'[t] = asked[t] + 1 /\ inbox'[t] = Append(inbox[t], asked[t] + 1)
          /\ side[t] = "there" /\ handle[t] # "closed"
          /\ UNCHANGED <<heard, pipe, writing, out, answering, closing, handle, reader,
                         writer, side>>
      BY <1>1, <1>14, <2>2 DEF Ask, Is
    <3>2. /\ Len(inbox'[t]) = Len(inbox[t]) + 1
          /\ \A i \in 1..Len(inbox[t]) : inbox'[t][i] = inbox[t][i]
          /\ inbox'[t][Len(inbox[t]) + 1] = asked[t] + 1
      <4>1. inbox[t] \in Seq(Nat) /\ asked[t] + 1 \in Nat
        BY <1>0
      <4> QED  BY <3>1, <4>1, AppendProperties
    <3>3. asked'[t] - Len(inbox'[t]) = asked[t] - Len(inbox[t])
      BY <1>0, <3>1, <3>2, SMTT(30)
    <3>4. Unread(t)'
      <4>1. /\ Len(inbox[t]) <= asked[t]
            /\ \A i \in 1..Len(inbox[t]) : inbox[t][i] = asked[t] - Len(inbox[t]) + i
        BY <1>0, <3>1 DEF Line, Unread
      <4>2. \A i \in 1..(Len(inbox[t]) + 1) :
              inbox'[t][i] = asked[t] - Len(inbox[t]) + i
        <5> SUFFICES ASSUME NEW i \in 1..(Len(inbox[t]) + 1)
                     PROVE  inbox'[t][i] = asked[t] - Len(inbox[t]) + i
          OBVIOUS
        <5>1. CASE i \in 1..Len(inbox[t])
          BY <3>2, <4>1, <5>1
        <5>2. CASE i = Len(inbox[t]) + 1
          <6>1. asked[t] - Len(inbox[t]) + i = asked[t] + 1
            BY <1>0, <5>2
          <6> QED  BY <3>2, <5>2, <6>1
        <5> QED  BY <1>0, <5>1, <5>2
      <4>3. Len(inbox'[t]) <= asked'[t]
        BY <1>0, <3>1, <3>2, <4>1
      <4> QED  BY <3>2, <3>3, <4>2, <4>3 DEF Unread
    <3>5. \E n \in 0..asked'[t] : Said(t, n)' /\ UpTo(t, n)'
      <4>1. PICK n \in 0..asked[t] : Said(t, n) /\ UpTo(t, n)
        BY <1>0, <3>1 DEF Line
      <4>2. Said(t, n)'
        <5>1. PICK a, b, c \in 0..asked[t] : InARow(t, a, b, c, n)
          BY <4>1 DEF Said
        <5>2. InARow(t, a, b, c, n)'
          BY <3>1, <5>1 DEF InARow
        <5>3. a \in 0..asked'[t] /\ b \in 0..asked'[t] /\ c \in 0..asked'[t]
          BY <1>0, <3>1
        <5> QED  BY <5>2, <5>3 DEF Said
      <4>3. UpTo(t, n)'
        BY <3>1, <3>3, <4>1 DEF UpTo
      <4>4. n \in 0..asked'[t]
        BY <1>0, <3>1
      <4> QED  BY <4>2, <4>3, <4>4
    <3>6. reader'[t] = "handles" => answering'[t] = asked'[t] - Len(inbox'[t])
      BY <1>0, <3>1, <3>3 DEF Line
    <3> QED  BY <1>0, <3>1, <3>4, <3>5, <3>6 DEF Line
  <2> QED  BY <2>1, <2>2
<1>15. ASSUME NEW s \in Shells, Leave(s) PROVE Line(t)'
  <2>1. CASE t # s
    <3>1. Loosens(t)
      BY <1>1, <1>15, <2>1 DEF Leave, Is, Loosens
    <3> QED  BY <1>0, <3>1, LineLoosens
  <2>2. CASE t = s
    <3>1. /\ side'[t] = "left"
          /\ UNCHANGED <<asked, inbox, answering, writing, writer, handle, reader>>
      BY <1>1, <1>15, <2>2 DEF Leave, Is
    <3> QED  BY <1>0, <3>1 DEF Line, Unread
  <2> QED  BY <2>1, <2>2
<1>16. ASSUME NEW s \in Shells, LetGo(s), Joined(s), UNCHANGED <<side, asked, pipe, heard>>
       PROVE  Line(t)'
  <2>1. CASE t # s
    <3>1. Loosens(t)
      BY <1>1, <1>16, <2>1 DEF LetGo, Is, Loosens
    <3> QED  BY <1>0, <3>1, LineLoosens
  <2>2. CASE t = s
    <3>1. /\ handle'[t] = "closed" /\ out'[t] = <<>> /\ writing'[t] = Event
          /\ reader'[t] = "gone" /\ writer'[t] = "gone"
      BY <1>1, <1>16, <2>2 DEF LetGo, Is, Joined
    <3>2. ASSUME side'[t] # "left"
          PROVE  \E n \in 0..asked'[t] : Said(t, n)' /\ UpTo(t, n)'
      <4>1. PICK n \in 0..asked[t] : Said(t, n)
        BY <1>0, <1>16, <3>2 DEF Line
      <4>2. n \in Nat
        BY <1>0
      <4>3. \E m \in 0..asked[t] : Said(t, m)'
        BY <1>0, <1>16, <3>1, <4>1, <4>2, SaidLetGo
      <4> QED  BY <1>16, <3>1, <4>3 DEF UpTo
    <3> QED  BY <1>0, <1>16, <3>1, <3>2 DEF Line, Unread
  <2> QED  BY <2>1, <2>2
<1>17. CASE StopLetsGo
  <2>1. now \in Shells
    BY <1>0, <1>17 DEF StopLetsGo, TypeOK, LoopsOK
  <2> QED  BY <1>16, <1>17, <2>1 DEF StopLetsGo
<1>18. ASSUME NEW s \in Shells, Sweeps(s) PROVE Line(t)'
  BY <1>16, <1>18 DEF Sweeps
<1>19. CASE NotifierTells \/ \E s \in Shells : Logs(s)
  <2>1. /\ out'[t] = out[t] \/ out'[t] = Append(out[t], Event)
        /\ closing[t] => closing'[t]
        /\ UNCHANGED <<heard, pipe, writing, asked, inbox, answering, handle, reader,
                       writer, side>>
    <3>1. CASE NotifierTells
      <4>1. out'[t] = out[t] \/ out'[t] = Append(out[t], Event)
        BY <1>1, <3>1 DEF NotifierTells
      <4>2. closing[t] => closing'[t]
        BY <1>1, <3>1 DEF NotifierTells
      <4> QED  BY <3>1, <4>1, <4>2 DEF NotifierTells
    <3>2. ASSUME NEW s \in Shells, Logs(s)
          PROVE  /\ out'[t] = out[t] \/ out'[t] = Append(out[t], Event)
                 /\ closing[t] => closing'[t]
                 /\ UNCHANGED <<heard, pipe, writing, asked, inbox, answering, handle,
                                reader, writer, side>>
      <4>1. out'[t] = out[t] \/ out'[t] = Append(out[t], Event)
        BY <1>1, <3>2 DEF Logs, Send
      <4>2. closing[t] => closing'[t]
        <5>1. CASE t = s
          BY <1>1, <3>2, <5>1, Zenon DEF Logs, Send, Refuses
        <5>2. CASE t # s
          BY <1>1, <3>2, <5>2 DEF Logs, Send
        <5> QED  BY <5>1, <5>2
      <4> QED  BY <3>2, <4>1, <4>2 DEF Logs
    <3> QED  BY <1>19, <3>1, <3>2
  <2>2. CASE out'[t] = out[t]
    <3>1. Loosens(t)
      BY <2>1, <2>2 DEF Loosens
    <3> QED  BY <1>0, <3>1, LineLoosens
  <2>3. CASE out'[t] = Append(out[t], Event)
    <3>1. ASSUME side'[t] # "left"
          PROVE  \E n \in 0..asked'[t] : Said(t, n)' /\ UpTo(t, n)'
      <4>1. PICK n \in 0..asked[t] : Said(t, n) /\ UpTo(t, n)
        BY <1>0, <2>1, <3>1 DEF Line
      <4>2. n \in Nat
        BY <1>0
      <4>3. Said(t, n)'
        BY <1>0, <2>1, <2>3, <4>1, <4>2, SaidMore
      <4> QED  BY <2>1, <4>1, <4>3 DEF UpTo
    <3> QED  BY <1>0, <2>1, <3>1 DEF Line, Unread
  <2> QED  BY <2>1, <2>2, <2>3
<1> QED
  BY <1>2, <1>3, <1>4, <1>5, <1>6, <1>7, <1>8, <1>9, <1>10, <1>11, <1>12, <1>13,
     <1>14, <1>15, <1>17, <1>18, <1>19
  DEF Next, Stopper, Listener, Notifier, Fails, Reader, Writer, vars,
      Stop, Knocks, KnocksNoMore, StopSwaps, StopReturns, ListenerTurns, ListenerEnds,
      ListenerOpens, NobodyThere, Enlists, NotifierEnds, Subscribes

-----------------------------------------------------------------------------
(* The theorems. *)

LEMMA InvInit == Init => Inv
<1> SUFFICES ASSUME Init PROVE Inv
  OBVIOUS
<1>1. TypeOK
  BY TypeInit
<1>2. Whereabouts
  BY Bounds DEF Init, Whereabouts
<1>3. Stages
  BY DEF Init, Stages
<1>4. Unborn
  BY Bounds DEF Init, Unborn
<1> QED  BY <1>1, <1>2, <1>3, <1>4 DEF Inv

LEMMA InvStep == Inv /\ [Next]_vars => Inv'
<1> SUFFICES ASSUME Inv, [Next]_vars PROVE Inv'
  OBVIOUS
<1>1. TypeOK'
  BY LoopsTyped, ThreadsTyped, ClientsTyped, ShellsTyped DEF Inv, TypeOK
<1> QED
  BY <1>1, WhereaboutsStep, StagesStep, UnbornStep DEF Inv

(* The inductive invariant of ipc_server.cpp holds in every reachable state. *)
THEOREM ServerInvariant == Spec => []Inv
BY InvInit, InvStep, PTL DEF Spec

(* ipc_server.cpp:125-173, ipc_server.hpp:104-122: the server's state is      *)
(* well typed; no queue is longer than its bound.                             *)
THEOREM ServerTyped == Spec => []TypeOK
<1>1. Inv => TypeOK
  BY DEF Inv
<1> QED  BY <1>1, ServerInvariant, PTL

(* ipc_server.cpp:161-173, 245-305: a client is let go of by one of the two   *)
(* who may do it, once its threads are over, and a stop that returned has     *)
(* left none.                                                                 *)
THEOREM ServerLetsGo == Spec => []ClientsAreLetGo
<1>1. Inv => ClientsAreLetGo
  <2> SUFFICES ASSUME Inv PROVE ClientsAreLetGo
    OBVIOUS
  <2>1. \A s \in Shells : handle[s] = "closed" =>
          reader[s] = "gone" /\ writer[s] = "gone" /\ ~token[s]
    BY DEF Inv, Unborn
  <2>2. stopper = "over" => clients \cup sweeping \cup leaving = {} /\ incoming = Nobody
    BY DEF Inv, Stages, TypeOK, LoopsOK
  <2> QED
    BY <2>1, <2>2, Bounds DEF Inv, Whereabouts, ClientsAreLetGo
<1> QED  BY <1>1, ServerInvariant, PTL

(* ipc_server.cpp:140-159, 389-438: every request is answered once and in   *)
(* the order they came; an answer is lost only with the whole connection.   *)
THEOREM ServerAnswersInOrder == Spec => []AnswersInOrder
<1>1. Init => Inv /\ InLine
  <2> SUFFICES ASSUME Init PROVE InLine
    BY InvInit
  <2> SUFFICES ASSUME NEW t \in Shells PROVE Line(t)
    BY DEF InLine
  <2>1. /\ heard[t] = <<>> /\ pipe[t] = <<>> /\ out[t] = <<>> /\ inbox[t] = <<>>
        /\ writing[t] = Event /\ asked[t] = 0 /\ reader[t] = "none"
    BY DEF Init
  <2>2. InARow(t, 0, 0, 0, 0)
    BY <2>1, NothingFollows DEF InARow
  <2>3. Said(t, 0) /\ Len(inbox[t]) = 0
    BY <2>1, <2>2, Emptied DEF Said
  <2>4. Unread(t)
    <3>1. Len(inbox[t]) = 0 /\ asked[t] = 0 /\ 1..0 = {}
      BY <2>1, <2>3
    <3> QED  BY <3>1 DEF Unread
  <2>5. UpTo(t, 0)
    <3>1. asked[t] - Len(inbox[t]) = 0
      <4>1. asked[t] = 0 /\ Len(inbox[t]) = 0
        BY <2>1, <2>3
      <4> QED  BY <4>1
    <3>2. reader[t] = "none"
      BY <2>1
    <3> QED  BY <3>1, <3>2 DEF UpTo
  <2>6. \E n \in 0..asked[t] : Said(t, n) /\ UpTo(t, n)
    <3>1. 0 \in 0..asked[t]
      BY <2>1
    <3> QED  BY <3>1, <2>3, <2>5
  <2> QED  BY <2>1, <2>4, <2>6 DEF Line
<1>2. Inv /\ InLine /\ [Next]_vars => (Inv /\ InLine)'
  BY InvStep, LineStep DEF InLine
<1>3. Inv /\ InLine => AnswersInOrder
  <2> SUFFICES ASSUME Inv, InLine, NEW s \in Shells, side[s] = "there"
               PROVE  \E a, b, c, n \in 0..asked[s] :
                        /\ InARow(s, a, b, c, n)
                        /\ ~closing[s] /\ reader[s] \in {"top", "issues", "reads"} =>
                             n = asked[s] - Len(inbox[s])
    BY DEF AnswersInOrder
  <2>1. PICK n \in 0..asked[s] : Said(s, n) /\ UpTo(s, n)
    BY DEF InLine, Line
  <2>2. PICK a, b, c \in 0..asked[s] : InARow(s, a, b, c, n)
    BY <2>1 DEF Said
  <2>3. ~closing[s] /\ reader[s] \in {"top", "issues", "reads"} => n = asked[s] - Len(inbox[s])
    BY <2>1 DEF UpTo
  <2> QED  BY <2>2, <2>3
<1> QED  BY <1>1, <1>2, <1>3, PTL DEF Spec
=============================================================================
