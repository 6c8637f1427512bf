------------------------------ MODULE IpcServer ------------------------------
(***************************************************************************)
(* mp::win::IpcServer (ipc_server.cpp): a listener, a notifier, and for    *)
(* every shell that is attached a reader and a writer with a bounded queue *)
(* between the engine and its pipe; and stop(), which ends them all.       *)
(*                                                                         *)
(* A call on a pipe is two steps, the last look before it and the call     *)
(* itself: CancelIoEx ends a call that is pending and does nothing to one  *)
(* that is about to be made.                                               *)
(*                                                                         *)
(* A thread of a shell may end by an exception, and the listener because   *)
(* it has no pipe to wait on (Faults).                                     *)
(*                                                                         *)
(* A request is its number; what it is handled as is drawn when it is read.*)
(* Events, of the notifier and of the log, are all one.                    *)
(***************************************************************************)
EXTENDS Integers, Sequences

CONSTANTS
    Shells,      \* each attaches once
    Limit,       \* k_queue_limit
    PipeSize,    \* messages a pipe holds before a write waits
    Attempts,    \* how often stop() knocks: 400, 5 ms apart
    Faults,      \* what may throw or fail: "reader", "writer", "pipe"
    Requests,    \* bounds of the exploration: how much each of them asks,
    LoneRequests \* and how much while no other has come

Event == 0
Nobody == "nobody"
Waiting == "waiting"
Knock == "a knock"

ASSUME IpcAssumption ==
    /\ {Limit, PipeSize, Attempts} \subseteq Nat \ {0}
    /\ Faults \subseteq {"reader", "writer", "pipe"}
    /\ {Requests, LoneRequests} \subseteq [Shells -> Nat]
    /\ \A s \in Shells : Requests[s] <= LoneRequests[s]
    /\ Shells \cap {Nobody, Waiting, Knock} = {}

VARIABLES
    running, listening,         \* running_, listening_
    door,                       \* the pipe instance that waits, and who is in it
    clients,                    \* clients_
    listener, incoming,         \* where listen() is, the client it is making
    sweeping,                   \* sweep()'s finished
    notifier,                   \* where notify() is
    stopper, attempt,           \* where stop() is, how often it has knocked
    leaving, now,               \* ... its clients, the one it ends
    reader, writer,             \* where each shell's threads are
    answering, writing,         \* the request being handled, the message written
    out, closing, subscribed,   \* Client's members
    done, token, handle,        \* ... log_token # 0, pipe
    side, asked, inbox,         \* a shell: is it there, what it sent, not yet read
    pipe, heard,                \* on the way to it, and the answers it has read
    missed                      \* history: calls a CancelIoEx came just before,
                                \* and a close() an exception went past

service == <<running, listening, door, clients>>
loops   == <<listener, incoming, sweeping, notifier>>
ending  == <<stopper, attempt, leaving, now>>
threads == <<reader, writer, answering, writing>>
client  == <<out, closing, subscribed, done, token, handle>>
shell   == <<side, asked, inbox, pipe, heard>>
vars == <<service, loops, ending, threads, client, shell, missed>>

Is(x, s, v) == x' = [x EXCEPT ![s] = v]

Init ==
    /\ running = TRUE /\ listening = TRUE /\ door = Waiting /\ clients = {}
    /\ listener = "top" /\ incoming = Nobody /\ sweeping = {}
    /\ notifier = "sleeps"
    /\ stopper = "idle" /\ attempt = 0 /\ leaving = {} /\ now = Nobody
    /\ reader = [s \in Shells |-> "none"] /\ writer = reader
    /\ answering = [s \in Shells |-> Event] /\ writing = answering
    /\ out = [s \in Shells |-> <<>>]
    /\ closing = [s \in Shells |-> FALSE]
    /\ subscribed = closing /\ done = closing /\ token = closing
    /\ handle = [s \in Shells |-> "none"]
    /\ side = [s \in Shells |-> "away"]
    /\ asked = [s \in Shells |-> 0]
    /\ inbox = out /\ pipe = out /\ heard = out
    /\ missed = [s \in Shells |-> {}]

-----------------------------------------------------------------------------
(* Client::send and Client::close *)

RefusesLate(s) == closing[s] \/ Len(out[s]) > Limit      \* mutant: one too many

Refuses(s) == closing[s] \/ Len(out[s]) >= Limit

Send(s, message) ==
    /\ out' = IF Refuses(s) THEN out ELSE [out EXCEPT ![s] = Append(@, message)]
    /\ closing' = [closing EXCEPT ![s] = Refuses(s)]

(* What CancelIoEx comes too early for: a call about to be made, and every  *)
(* write of a writer that has more to say.                                  *)
TooEarly(s, r, w) ==
    {t \in {"reader", "writer"} :
       IF t = "reader" THEN r = "issues"
       ELSE w = "issues" \/ (w = "waits" /\ out[s] # <<>>)}

(* A call that is pending ends. *)
Cancels(s, r, w) ==
    /\ Is(reader, s, IF r = "reads" THEN "closes" ELSE r)
    /\ Is(writer, s, IF w = "writes" THEN "fails" ELSE w)
    /\ missed' = [missed EXCEPT ![s] = @ \cup TooEarly(s, r, w)]

Close(s, r, w) == Is(closing, s, TRUE) /\ Cancels(s, r, w)

-----------------------------------------------------------------------------
(* The shells, each another process. *)

MayAsk(s) ==
    IF \A t \in Shells \ {s} : side[t] = "away" THEN LoneRequests[s] ELSE Requests[s]

Attach(s) ==
    /\ side[s] = "away" /\ door = Waiting
    /\ \A t \in Shells : asked[t] <= Requests[t]
    /\ door' = s
    /\ Is(side, s, "there")
    /\ UNCHANGED <<running, listening, clients, loops, ending, threads, client,
                   asked, inbox, pipe, heard, missed>>

Ask(s) ==
    /\ side[s] = "there" /\ handle[s] # "closed" /\ asked[s] < MayAsk(s)
    /\ Is(asked, s, asked[s] + 1)
    /\ Is(inbox, s, Append(inbox[s], asked'[s]))
    /\ UNCHANGED <<service, loops, ending, threads, client, side, pipe, heard,
                   missed>>

Hear(s) ==
    /\ side[s] = "there" /\ pipe[s] # <<>>
    /\ Is(pipe, s, Tail(pipe[s]))
    /\ heard' = IF Head(pipe[s]) = Event THEN heard
                ELSE [heard EXCEPT ![s] = Append(@, Head(pipe[s]))]
    /\ UNCHANGED <<service, loops, ending, threads, client, side, asked, inbox,
                   missed>>

(* What it had not read goes with it; what it had asked is still read.      *)
Leave(s) ==
    /\ side[s] = "there" /\ handle[s] # "closed"
    /\ Is(side, s, "left")
    /\ Is(pipe, s, <<>>) /\ Is(heard, s, <<>>)
    /\ UNCHANGED <<service, loops, ending, threads, client, asked, inbox, missed>>

-----------------------------------------------------------------------------
(* listen() and sweep() *)

ListenerTurns ==
    /\ listener = "top" /\ running
    /\ sweeping' = {s \in clients : done[s]}
    /\ clients' = clients \ sweeping'
    /\ listener' = "sweeps"
    /\ UNCHANGED <<running, listening, door, incoming, notifier,
                   ending, threads, client, shell, missed>>

(* Its pending_ instance, if it never took it, stays open. *)
ListenerEnds ==
    /\ listener = "top" /\ ~running
    /\ listener' = "gone"
    /\ listening' = FALSE
    /\ UNCHANGED <<running, door, clients, incoming, sweeping, notifier,
                    ending, threads, client, shell, missed>>

ReaderJoined(s) == reader[s] = "gone"      \* mutant: the writer is not waited for

Joined(s) == reader[s] = "gone" /\ writer[s] = "gone"

(* The log forgets it, its handle is closed, and the Client is no more.     *)
LetGo(s) ==
    /\ Is(token, s, FALSE)
    /\ Is(handle, s, "closed")
    /\ Is(out, s, <<>>) /\ Is(inbox, s, <<>>)
    /\ Is(subscribed, s, FALSE)
    /\ Is(answering, s, Event) /\ Is(writing, s, Event)
    /\ Is(missed, s, {})
    /\ UNCHANGED <<closing, done, reader, writer>>

Sweeps(s) ==
    /\ listener = "sweeps" /\ s \in sweeping /\ Joined(s)
    /\ LetGo(s)
    /\ sweeping' = sweeping \ {s}
    /\ UNCHANGED <<service, listener, incoming, notifier, ending, side, asked,
                   pipe, heard>>

ListenerOpens ==
    /\ listener = "sweeps" /\ sweeping = {}
    /\ door' = IF door = Nobody THEN Waiting ELSE door
    /\ listener' = "connects"
    /\ UNCHANGED <<running, listening, clients, incoming, sweeping, notifier,
                    ending, threads, client, shell, missed>>

(* Who came is a shell that has left again. *)
NobodyThere ==
    /\ listener = "connects" /\ door \in Shells /\ side[door] = "left"
    /\ door' = Nobody
    /\ listener' = "top"
    /\ UNCHANGED <<running, listening, clients, incoming, sweeping, notifier,
                    ending, threads, client, shell, missed>>

(* The instance is closed on whoever is in it, and the loop is over.        *)
ClosesTheDoor ==
    /\ side' = [s \in Shells |-> IF s = door THEN "left" ELSE side[s]]
    /\ door' = Nobody
    /\ listener' = "gone"
    /\ listening' = FALSE
    /\ UNCHANGED <<running, clients, incoming, sweeping, notifier,
                   ending, threads, client, asked, inbox, pipe, heard, missed>>

(* There is no pipe to wait on, or no event to wait for it with.            *)
ListenerGivesUp ==
    /\ "pipe" \in Faults /\ listener = "sweeps" /\ sweeping = {}
    /\ ClosesTheDoor

TurnsAway ==
    /\ listener = "connects" /\ door \in Shells \cup {Knock} /\ ~running
    /\ ClosesTheDoor

Accepts ==
    /\ listener = "connects" /\ door \in Shells /\ running
    /\ incoming' = door
    /\ door' = Nobody
    /\ Is(handle, door, "open")
    /\ Is(reader, door, "top") /\ Is(writer, door, "waits")
    /\ listener' = "enlists"
    /\ UNCHANGED <<running, listening, clients, sweeping, notifier,
                   ending, answering, writing, out, closing, subscribed, done,
                   token, shell, missed>>

Enlists ==
    /\ listener = "enlists"
    /\ clients' = clients \cup {incoming}
    /\ incoming' = Nobody
    /\ listener' = "top"
    /\ UNCHANGED <<running, listening, door, sweeping, notifier,
                   ending, threads, client, shell, missed>>

Listener ==
    \/ ListenerTurns \/ ListenerEnds \/ ListenerOpens
    \/ NobodyThere \/ TurnsAway \/ Accepts \/ Enlists
    \/ \E s \in Shells : Sweeps(s)

-----------------------------------------------------------------------------
(* read_from() and handle() *)

ReaderTurns(s) ==
    /\ reader[s] = "top"
    /\ Is(reader, s, IF running THEN "issues" ELSE "closes")
    /\ UNCHANGED <<service, loops, ending, writer, answering, writing, client,
                   shell, missed>>

ReaderIssues(s) ==
    /\ reader[s] = "issues"
    /\ Is(reader, s, "reads")
    /\ UNCHANGED <<service, loops, ending, writer, answering, writing, client,
                   shell, missed>>

Reads(s) ==
    /\ reader[s] = "reads" /\ inbox[s] # <<>>
    /\ Is(answering, s, Head(inbox[s]))
    /\ Is(inbox, s, Tail(inbox[s]))
    /\ Is(reader, s, "handles")
    /\ UNCHANGED <<service, loops, ending, writer, writing, client, side, asked,
                   pipe, heard, missed>>

(* Nothing more comes, or what comes claims to be longer than any message.  *)
ReadsNoMore(s) ==
    /\ reader[s] = "reads" /\ (inbox[s] # <<>> \/ side[s] = "left")
    /\ Is(reader, s, "closes")
    /\ UNCHANGED <<service, loops, ending, writer, answering, writing, client,
                   shell, missed>>

(* subscribe: under the client's lock, which is let go before the answer.   *)
Subscribes(s) ==
    /\ reader[s] = "handles" /\ ~subscribed[s]
    /\ Is(subscribed, s, TRUE)
    /\ Is(token, s, TRUE)
    /\ UNCHANGED <<service, loops, ending, threads, out, closing, done, handle,
                   shell, missed>>

(* Whatever was asked: one answer, and the connection goes on only if there *)
(* was room for it.                                                         *)
Answers(s) ==
    /\ reader[s] = "handles"
    /\ Send(s, answering[s])
    /\ Is(reader, s, IF Refuses(s) THEN "closes" ELSE "top")
    /\ UNCHANGED <<service, loops, ending, writer, answering, writing,
                   subscribed, done, token, handle, shell, missed>>

(* It was not a message: the answer says so, and nothing is read after it.  *)
Objects(s) ==
    /\ reader[s] = "handles"
    /\ Send(s, answering[s])
    /\ Is(reader, s, "closes")
    /\ UNCHANGED <<service, loops, ending, writer, answering, writing,
                   subscribed, done, token, handle, shell, missed>>

ReaderCloses(s) ==
    /\ reader[s] = "closes"
    /\ Close(s, "gone", writer[s])
    /\ Is(done, s, TRUE)
    /\ UNCHANGED <<service, loops, ending, answering, writing, out, subscribed,
                   token, handle, shell>>

(* Thrown while it was reading a message or before it answered one: done,   *)
(* and nothing is closed.                                                   *)
ReaderThrows(s) ==
    /\ "reader" \in Faults
    /\ reader[s] = "handles" \/ (reader[s] = "reads" /\ inbox[s] # <<>>)
    /\ Is(reader, s, "gone")
    /\ Is(done, s, TRUE)
    /\ Is(missed, s, missed[s] \cup {"close"})
    /\ UNCHANGED <<service, loops, ending, writer, answering, writing, out,
                   closing, subscribed, token, handle, shell>>

Reader(s) ==
    \/ ReaderTurns(s) \/ ReaderIssues(s) \/ Reads(s) \/ ReadsNoMore(s)
    \/ Subscribes(s) \/ Answers(s) \/ Objects(s) \/ ReaderCloses(s)

-----------------------------------------------------------------------------
(* write_to() *)

Takes(s) ==
    /\ writer[s] = "waits" /\ out[s] # <<>>
    /\ Is(writing, s, Head(out[s]))
    /\ Is(out, s, Tail(out[s]))
    /\ Is(writer, s, "issues")
    /\ UNCHANGED <<service, loops, ending, reader, answering, closing,
                   subscribed, done, token, handle, shell, missed>>

(* Closing, and nothing left to say. *)
WriterEnds(s) ==
    /\ writer[s] = "waits" /\ out[s] = <<>> /\ closing[s]
    /\ Is(writer, s, "gone")
    /\ UNCHANGED <<service, loops, ending, reader, answering, writing, client,
                   shell, missed>>

WriterIssuesInTurn(s) ==      \* mutant: one call at a time on the handle
    /\ writer[s] = "issues" /\ reader[s] # "reads"
    /\ Is(writer, s, "writes")
    /\ UNCHANGED <<service, loops, ending, reader, answering, writing, client,
                   shell, missed>>

WriterIssues(s) ==
    /\ writer[s] = "issues"
    /\ Is(writer, s, "writes")
    /\ UNCHANGED <<service, loops, ending, reader, answering, writing, client,
                   shell, missed>>

Writes(s) ==
    /\ writer[s] = "writes" /\ side[s] = "there" /\ Len(pipe[s]) < PipeSize
    /\ Is(pipe, s, Append(pipe[s], writing[s]))
    /\ Is(writing, s, Event)
    /\ Is(writer, s, "waits")
    /\ UNCHANGED <<service, loops, ending, reader, answering, client, side,
                   asked, inbox, heard, missed>>

WriteFails(s) ==
    /\ writer[s] = "writes" /\ side[s] = "left"
    /\ Is(writer, s, "fails")
    /\ UNCHANGED <<service, loops, ending, reader, answering, writing, client,
                   shell, missed>>

WriterGoesOn(s) ==      \* mutant: a write that failed is one message less
    /\ writer[s] = "fails"
    /\ Close(s, reader[s], "waits")
    /\ UNCHANGED <<service, loops, ending, answering, writing, out, subscribed,
                   done, token, handle, shell>>

WriterCloses(s) ==
    /\ writer[s] = "fails"
    /\ Close(s, reader[s], "gone")
    /\ UNCHANGED <<service, loops, ending, answering, writing, out, subscribed,
                   done, token, handle, shell>>

(* Thrown with a message in hand.                                           *)
WriterThrows(s) ==
    /\ "writer" \in Faults /\ writer[s] = "issues"
    /\ Is(writer, s, "gone")
    /\ Is(missed, s, missed[s] \cup {"close"})
    /\ UNCHANGED <<service, loops, ending, reader, answering, writing, client,
                   shell>>

Writer(s) ==
    \/ Takes(s) \/ WriterEnds(s) \/ WriterIssues(s) \/ Writes(s)
    \/ WriteFails(s) \/ WriterCloses(s)

-----------------------------------------------------------------------------
(* notify(), and the log's own listener *)

Told == {s \in clients : subscribed[s] /\ ~closing[s]}

(* A tick: to each it is queued, never written from here.                   *)
NotifierTells ==
    /\ notifier = "sleeps" /\ running /\ Told # {}
    /\ out' = [s \in Shells |-> IF s \in Told /\ ~Refuses(s)
                               THEN Append(out[s], Event) ELSE out[s]]
    /\ closing' = [s \in Shells |-> closing[s] \/ (s \in Told /\ Refuses(s))]
    /\ UNCHANGED <<service, loops, ending, threads, subscribed, done, token,
                   handle, shell, missed>>

NotifierEnds ==
    /\ notifier = "sleeps" /\ ~running
    /\ notifier' = "gone"
    /\ UNCHANGED <<service, listener, incoming, sweeping, ending,
                   threads, client, shell, missed>>

Notifier == NotifierTells \/ NotifierEnds

(* A line is logged by any thread of the engine. *)
Logs(s) ==
    /\ token[s]
    /\ Send(s, Event)
    /\ UNCHANGED <<service, loops, ending, threads, subscribed, done, token,
                   handle, shell, missed>>

-----------------------------------------------------------------------------
(* stop() *)

Stop ==
    /\ stopper = "idle" /\ running
    /\ running' = FALSE
    /\ stopper' = "knocks"
    /\ UNCHANGED <<listening, door, clients, loops, attempt, leaving, now,
                   threads, client, shell, missed>>

(* A knock between two instances finds nothing to wake: it knocks again.    *)
Knocks ==
    /\ stopper = "knocks" /\ listening /\ attempt < Attempts
    /\ attempt' = attempt + 1
    /\ door' = IF door = Waiting THEN Knock ELSE door
    /\ UNCHANGED <<running, listening, clients, loops, stopper, leaving, now,
                   threads, client, shell, missed>>

KnocksNoMore ==
    /\ stopper = "knocks" /\ (~listening \/ attempt = Attempts)
    /\ stopper' = "joins"
    /\ attempt' = 0
    /\ UNCHANGED <<service, loops, leaving, now, threads, client, shell, missed>>

(* The two loops are over. *)
StopSwaps ==
    /\ stopper = "joins" /\ notifier = "gone" /\ listener = "gone"
    /\ leaving' = clients
    /\ clients' = {}
    /\ stopper' = "ends"
    /\ UNCHANGED <<running, listening, door, loops, attempt, now, threads,
                   client, shell, missed>>

StopCloses(s) ==
    /\ stopper = "ends" /\ now = Nobody /\ s \in leaving
    /\ now' = s
    /\ Close(s, reader[s], writer[s])
    /\ UNCHANGED <<service, loops, stopper, attempt, leaving, answering,
                   writing, out, subscribed, done, token, handle, shell>>

StopLetsGo ==
    /\ stopper = "ends" /\ now # Nobody /\ Joined(now)
    /\ LetGo(now)
    /\ leaving' = leaving \ {now}
    /\ now' = Nobody
    /\ UNCHANGED <<service, loops, stopper, attempt, side, asked, pipe, heard>>

StopReturns ==
    /\ stopper = "ends" /\ leaving = {}
    /\ stopper' = "over"
    /\ UNCHANGED <<service, loops, attempt, leaving, now, threads, client, shell,
                   missed>>

Stopper ==
    \/ Knocks \/ KnocksNoMore \/ StopSwaps \/ StopLetsGo \/ StopReturns
    \/ \E s \in Shells : StopCloses(s)

-----------------------------------------------------------------------------
(* What goes wrong need not. *)
Fails ==
    \/ ListenerGivesUp
    \/ \E s \in Shells : ReaderThrows(s) \/ WriterThrows(s)

Next ==
    \/ Stop \/ Stopper \/ Listener \/ Notifier \/ Fails
    \/ \E s \in Shells : Reader(s) \/ Writer(s) \/ Logs(s)
    \/ \E s \in Shells : Attach(s) \/ Ask(s) \/ Hear(s) \/ Leave(s)

Spec == Init /\ [][Next]_vars

(* The engine's threads run; a shell owes nothing.                          *)
FairSpec ==
    /\ Spec
    /\ WF_vars(Stopper) /\ WF_vars(Listener) /\ WF_vars(Notifier)
    /\ \A s \in Shells : WF_vars(Reader(s)) /\ WF_vars(Writer(s))

-----------------------------------------------------------------------------
ReaderPlaces == {"none", "top", "issues", "reads", "handles", "closes", "gone"}
WriterPlaces == {"none", "waits", "issues", "writes", "fails", "gone"}

LoopsOK ==
    /\ running \in BOOLEAN /\ listening \in BOOLEAN
    /\ door \in Shells \cup {Waiting, Knock, Nobody}
    /\ incoming \in IF listener = "enlists" THEN Shells ELSE {Nobody}
    /\ now \in Shells \cup {Nobody}
    /\ clients \subseteq Shells /\ sweeping \subseteq Shells /\ leaving \subseteq Shells
    /\ listener \in {"top", "sweeps", "connects", "enlists", "gone"}
    /\ notifier \in {"sleeps", "gone"}
    /\ stopper \in {"idle", "knocks", "joins", "ends", "over"}
    /\ attempt \in 0..Attempts

ThreadsOK ==
    /\ reader \in [Shells -> ReaderPlaces] /\ writer \in [Shells -> WriterPlaces]
    /\ answering \in [Shells -> Nat] /\ writing \in [Shells -> Nat]
    /\ missed \in [Shells -> SUBSET {"reader", "writer", "close"}]

ClientsOK ==
    /\ closing \in [Shells -> BOOLEAN] /\ subscribed \in [Shells -> BOOLEAN]
    /\ done \in [Shells -> BOOLEAN] /\ token \in [Shells -> BOOLEAN]
    /\ handle \in [Shells -> {"none", "open", "closed"}]
    /\ out \in [Shells -> Seq(Nat)]
    /\ \A s \in Shells : Len(out[s]) <= Limit

ShellsOK ==
    /\ side \in [Shells -> {"away", "there", "left"}]
    /\ asked \in [Shells -> Nat]
    /\ inbox \in [Shells -> Seq(Nat)]
    /\ pipe \in [Shells -> Seq(Nat)] /\ heard \in [Shells -> Seq(Nat)]
    /\ \A s \in Shells : asked[s] <= LoneRequests[s] /\ Len(pipe[s]) <= PipeSize

TypeOK == LoopsOK /\ ThreadsOK /\ ClientsOK /\ ShellsOK

(* ipc_server.cpp:161-173, 245-305: a pipe's handle is open as long as      *)
(* either of its threads runs, is closed by one of the two who may do it,   *)
(* and a stop that returned has left no client behind, whoever was just     *)
(* being made or swept.                                                     *)
ClientsAreLetGo ==
    /\ \A s \in Shells :
         /\ handle[s] = "closed" =>
              reader[s] = "gone" /\ writer[s] = "gone" /\ ~token[s]
         /\ handle[s] = "open" <=>
              s \in clients \cup sweeping \cup leaving \cup {incoming}
    /\ clients \cap sweeping = {}
    /\ stopper = "over" => \A s \in Shells : handle[s] # "open"

(* ipc_server.cpp:140-159, 389-438: every request is answered once and in   *)
(* the order they came; an answer is lost only with the whole connection,   *)
(* and then no later one is delivered: what was heard, what is in the pipe, *)
(* what is written and what is queued follow on one another.                *)
FollowOn(queue, a, b) ==
    /\ a <= b
    /\ \A i \in DOMAIN queue : queue[i] = Event \/ queue[i] \in (a + 1)..b
    /\ \A n \in (a + 1)..b : \E i \in DOMAIN queue : queue[i] = n
    /\ \A i, k \in DOMAIN queue :
         i < k /\ queue[i] # Event /\ queue[k] # Event => queue[i] < queue[k]

InARow(s, a, b, c, n) ==
    /\ FollowOn(heard[s], 0, a) /\ FollowOn(pipe[s], a, b)
    /\ FollowOn(<<writing[s]>>, b, c) /\ FollowOn(out[s], c, n)

AnswersInOrder ==
    \A s \in {t \in Shells : side[t] = "there"} :
        \E a, b, c, n \in 0..asked[s] :
          /\ InARow(s, a, b, c, n)
          /\ ~closing[s] /\ reader[s] \in {"top", "issues", "reads"} =>
               n = asked[s] - Len(inbox[s])

(* A thread in a call that CancelIoEx came just too early for. *)
Stuck(s) ==
    \/ reader[s] = "reads" /\ "reader" \in missed[s] /\ inbox[s] = <<>>
    \/ writer[s] = "writes" /\ "writer" \in missed[s]

(* One of its threads ended by an exception, and nothing was closed.        *)
Unclosed(s) == "close" \in missed[s]

(* What sweep() may join for ever. *)
SweepHangs == \E s \in sweeping : Stuck(s) \/ Unclosed(s)

(* What stop() may join for ever: a listener that hangs in a sweep, or that *)
(* came to its door after the last of the knocks, or a thread that is stuck.*)
StopHangs ==
    \/ SweepHangs
    \/ stopper = "joins" /\ listener = "connects" /\ door = Waiting
    \/ now # Nobody /\ Stuck(now)

(* ipc_server.cpp:224-268: a stop that was begun returns, whatever the      *)
(* shells do, unless it hangs for ever at what StopHangs names.             *)
StopsInTheEnd == []<>(stopper \in {"idle", "over"}) \/ <>[]StopHangs

(* ipc_server.cpp:309-386: whoever is at the door is taken in, and the next *)
(* finds a pipe to knock on, until the listener has given up or was stopped *)
(* - unless it hangs for ever in a sweep.                                   *)
DoorIsOpened == []<>(door = Waiting \/ listener = "gone") \/ <>[]SweepHangs

(* design.md:1071-1074: a shell that was taken in and keeps reading its     *)
(* pipe is answered, whatever the others do, or has left, or both its       *)
(* threads are over - or one of them never will be: it is stuck in a call,  *)
(* or the other one threw.                                                  *)
Attends(s) == []<>(pipe[s] = <<>>)
Settled(s) ==
    reader[s] = "none" \/ Len(heard[s]) = asked[s] \/ side[s] = "left" \/ Joined(s)
AnswersCome(s) == []<>Settled(s) \/ <>[](Stuck(s) \/ Unclosed(s))

NobodyIsHeldUp ==
    /\ StopsInTheEnd /\ DoorIsOpened
    /\ \A s \in {t \in Shells : Requests[t] > 0} : Attends(s) => AnswersCome(s)
=============================================================================
