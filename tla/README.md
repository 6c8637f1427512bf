# MediaPerch in TLA+

MediaPerch is a media player: an engine that moves audio bit-exactly from a file
to a device, a player that runs playlists through it, heads for Windows and the
command line, and modules (codecs, demuxers, sinks, presenters, DSP) behind a C
ABI. This directory models the part that is hard to test: the threads of the
engine, the handshakes between them, and the queue that joins tracks.

Paths below are under `src/src/`: `engine/mediaperch`, `player/mediaperch`,
`win/mediaperch`. Every definition that stands for code is listed with its lines
in `PROJECT.json`, "map".

## 1. The system

| Component | Source | State | Operations | What makes it correct |
|---|---|---|---|---|
| Byte ring | engine/ring.hpp | buffer, two free-running indices | write, read, writable, readable, reset | a bounded FIFO; no two copies in one slot; room and content seen stay |
| Passthrough graph | engine/passthrough.* | atomics of three threads, the ring, the source's place | start, stop, pause, resume, seek; decode_loop, render_loop, perform_seek | frames in order, once each; nobody sleeps for ever; a seek owns the ring and its answer is true |
| Processed graph | engine/processed.* | the same, a processor | the same, flush at the end | the same; what the chain holds comes out at the end |
| Gapless queue | player/queue.* | current item, position, marks, flags | open, read, advance, jump, seek, skip, request_next | tracks join; marks name and place every frame; stops for the reason it says |
| Packet router, source | engine/packet.* | a queue per stream, one file position; carried tail, skip | next, seek, clear; read, pump, warm_up | a stream's packets in order to its consumer; bounded; somebody can always read |
| Display loop, video graph | engine/display.*, video.* | holders, serials, posts; frame in hand, decoder | once, hold, release, post; pump, rewound | nothing decided while the file moves; each job answered once |
| Video path | engine/video_path.*, clock.* | presenter, decoder, graph, loop, thread, own clock | open, retrack, start, stop, seek_alone, tell | one thread in the presenter; a call is told what was done; the clock waits for the picture |
| Player | player/player.* | requests, flags, settings, published graph, picture | play, stop, next, previous, seek, set, move; the run machine | goes on by what the run ended with; a command finds the run it was meant for; what is set is what plays |
| A/V clock, pacer | engine/avsync.*, refresh.*, framerate.* | last reading, anchor | observe, decide | a frame is shown, dropped or kept by its time |
| DSP chain, processor | engine/dsp.*, processor.*, convert, dither | carried frames, latency | push, run, flush, reset | what goes in comes out, in order |
| Negotiation, wiring | engine/negotiation.*, sink.*, wiring.*, format, repack | none | build_candidates, negotiate_best, wire_up | what is wired carries the file's signal, or says that it does not |
| IPC | player/protocol.*, win/ipc_server.*, ipc_client.* | clients, their queues and threads | listen, read_from, write_to, notify, sweep, stop | a client is let go once and whole; answers in order; nobody is held up by a shell that does not read |
| Buffering, calibration, profile, settings | player/*, engine/buffering.* | numbers and text | parse, write, measure | round trips |
| Heads, host, platform, log, modules, shells | win/*, modules/, shell/ | | | not modelled |

How they meet. The **player's** engine thread builds a `Queue` over a playlist,
gives it to a graph as its source, and polls the graph until the run is over. The
**graph** has two threads of its own: the decode thread calls `Queue::read` and
fills the ring, the render thread empties the ring into the device's buffers. A
shell's thread calls the player, which under its mutex calls `pause`, `resume` and
`seek` of the graph and `request_next`, `skip` of the queue; a seek is left in an
atomic for the decode thread and waited for. A file with a picture has one
demuxer, one **router** and two consumers: the decode thread, and the **display
loop**'s thread that decides about pictures against the clock of the graph. Shells
are processes: the **IPC server** has a reader and a writer thread for each, and a
shell's thread above is its reader. Before a graph is built, **wiring** asks the device
what it takes.

What is hard. Five threads share state through atomics, semaphores and one
counter with `atomic::wait`; a seek is a handshake of three of them with two
deadlines; a run may end by itself at any step of it; the queue is read a ring's
depth ahead of what is heard, and asked about both places; a file's one position
is moved by either consumer. `PROJECT.json`, "hazards", lists each at its line.

## 2. The modules

| Module | Models | State of the code it has | Kind |
|---|---|---|---|
| `ByteFifo` | what a ring promises | | abstract |
| `ByteRing` | ring.hpp | buf_, write_, read_, both calls' locals | detailed; implements `ByteFifo` |
| `Playback` | what a graph promises its caller | | abstract |
| `PassthroughGraph` | passthrough.cpp | running_, live_, paused_, error_, device_running_, seeking_, parked_, render_tick_, seek_request_, decoder_wakes_, three semaphores, drained_, played_base_, frames_rendered_, the ring, the source | detailed; implements `Playback` |
| `ProcessedGraph` | processed.cpp, processor.cpp, dsp.cpp | the same; the stages' frames, flush_stage_, flushed_ | extends `PassthroughGraph` |
| `GaplessQueue` | queue.cpp, and how player.cpp drives it | index_, position_, marks_, done_, stopped_, skip_, next_wanted_, seek_request_, the cached sources' places | detailed |
| `PacketSource` | PacketSource of packet.cpp | stream_'s edit, skip_, remaining_, after_seek_, seek_target_, pcm_, carry_, drained_, position_ | detailed |
| `PacketRouter` | PacketRouter of packet.cpp | the queues and their bytes, ended_, the two counts of stats_, the demuxer's place | detailed |
| `VideoPath` | video_path.cpp, display.cpp, video.cpp, FreeClock of clock.cpp | holders_, hold_serial_, parked_serial_, turned_, posts_, the jobs' tickets and promises; have_frame_, drained_, finished_, error_, preroll_until_; resume_on_arrival_, ended_; the clock; both threads' locals | detailed |
| `Player` | player.cpp | requests_, files_, sweeps_, the flags, config_ and applied_, what is published (queue_, graph, playlist_, alone_), state_, the engine thread's locals, seekable_ | detailed |
| `IpcServer` | win/ipc_server.cpp | running_, clients_, each Client's out, closing, subscribed, done, log_token and pipe, all threads | detailed |
| `Wiring` | wiring.cpp, sink.cpp, negotiation.cpp, format.cpp, what repack.cpp accepts | Wiring, Negotiation, NegotiationRequest | an algorithm over any device |
| `ByteRingProofs`, `PacketSourceProofs`, `PacketRouterProofs`, `VideoPathProofs`, `PlayerProofs`, `IpcServerProofs` | theorems of the module each is named for | | proofs |
| `GraphProofs` | theorems of `PassthroughGraph` and of `ProcessedGraph`, whose threads are the same | | proofs |
| `FormatProofs` | theorems of `GaplessQueue` and of `Wiring`: what joins because it is of one format, and what a format is wired to | | proofs |
| `MC...` | instances for TLC | | |

**ByteRing.** A call of `write` or `read` is four steps: the load of the indices,
each of two memcpys, the store of the caller's index. Indices are numbers modulo
`Modulus` (2^w), `Slot` is `& mask_`. A byte is its number since the last reset,
so order, loss and repetition are visible. `room` and `hand` remember what
`writable` and `readable` last told, which is what pump_once relies on. Sequential
consistency is assumed: each index has one writer, and its release store and the
other side's acquire load are taken to order the copies.

**PassthroughGraph.** One action per step another thread can see. Control: `Start`,
floor (`Fill`), `Launch`; `Pause`, `Resume`; `Stop`, `Join`; `SeekRefused`, `SeekHere`,
`SeekAsk` and the wait `SeekReturns`, `SeekSleeps`, `SeekLooksAgain`, `SeekTimesOut`.
Decode: `DecodeTop` reads the counter, then one of `DecodeExit`, `DecodeSeek`,
`DecodeSleep`, `DecodePump`; `DecodeWakes`; and `PerformSeek`, which the control thread
runs itself when there are no threads. Render: a turn from `RenderTop` to
`RenderSettles`. A frame is its number in the source and the ring a sequence (`ByteRing`
is what entitles one to that); its read takes two steps, so a reset underneath a reader
shows: the reader then publishes an index past the writer's and the ring is `apart`,
`readable()` near 2^64, a read anything the buffer holds, until the writer has caught up
(`Puts`) or the ring is reset. The calls of the control thread are one at a time, as the
player's mutex makes them. Counters are kept as far as the code compares them (module
header). Left out: statistics, low_water, the calibration record, clock_spec; the wake
of a nap by time is always possible (`RenderNaps`).

**ProcessedGraph.** The processed graph's threads, handshake and waits are the other
graph's, which the code repeats line for line: the module takes those steps from
`PassthroughGraph` and replaces the ones a sample goes through, `pump_once`,
`fill_to_floor`, `perform_seek` and `position_frames`. A chain is a list of delays:
each stage gives back what it was given once it holds more than its fill, and
`flush` empties one stage at a time from the head, through those behind it. Wire
frames are `Ratio` to a source frame and keep its number. Left out: what a stage and
the converter do to a sample, dither, settings in a stage.

**GaplessQueue.** The queue and, around it, a graph small enough to leave in one module:
a decoder reading at most `Ahead` frames past the device, a device, one pending seek, a
run end. The player's commands are `AskSeek`, `AskNext`, `AskPrevious`; a "next" that
did not move goes on with `CancelsNext` and `Skips`. A frame is a track and its number
in it; `tape` records what the queue handed out, `cuts` which boundaries a "next" or a
skip put there. Entries may join, have another format, be a picture alone or not open,
and one that opens may refuse a seek, or not seek at all (`Seeking`). `pressed` is where
the device was when "next" was pressed. A cached source keeps its place (`at`), as
Playlist::at_media does; `reread` notes that a boundary was crossed into one that was
not at its start. Left out: length_frames, completed_, next_format_; reads of more than
one frame, silence counted into the position (the graph's module has it).

**PacketSource.** One action per branch of `read`'s loop and of `pump`'s. A frame
is its number in the decoded stream; a packet is the frames between two of `Cuts`,
`Flushed` frames more come out of the codec at the end, and a codec that was reset
may decode a packet to nothing. A file states any of `Edits`: a delay, a length, a
padding, frames it decodes itself. The properties compare what was handed over
since the last seek with the frames there are to hear, which is arithmetic on the
edit and nothing of the loop. It stands on an abstract feed that may answer BUSY;
what it needs of the router is `EachGetsItsOwn` for one stream. Left out: packets
without a time, samples.

**PacketRouter.** `next` is cut where it reads the file and where it puts a packet
in another consumer's queue, `seek` between the demuxer's and `clear`. `OneThread`
says whether a call may begin while another is going on: the code has no lock, so
the passing run is of the one thread the tests use, and the violation run is of
the two threads of a player with a picture. Left out: recycled buffers, read errors.

**VideoPath.** Two threads. The display loop's: a turn of `DisplayLoop::once`
(`TurnWaits`, the drain of the posts, the two loads and the store of the hold,
`TurnReadsClock`), `VideoGraph::pump` cut at each packet, frame and decision, and what
start()'s thread does after a turn (`AfterLooks` to `AfterResumes`). The caller's:
`Start`, `Pause`, `Resume`, `Seek` and its steps, `Tell` and its wait, `Stop`,
`Retrack`, one at a time as `gate_` and the player's mutex make them; a pause or resume
that comes during a setting is left out, they share nothing. A frame is its number and
the move of the file it was decoded after; the clock counts frames and may tick at any
time it is not paused, up to the end. A fault is one kind per behaviour: something
fails, the file refuses to move, one of the two deadlines, or the picture will not take
the next track, after which the player opens another (`Open`). What the user wants and
whether it was asked in a pre-roll (`asked`), the last seek (`goal`, `fresh`, `late`,
`crossed`), what was shown since and what became of the last job are history no action
reads. Left out: a picture that follows an audio graph (`Player::seek` does not hold its
loop, and `seek_together` is called by the probe only), the pacer's tolerances, BUSY
feeds.

**Player.** The engine thread, from `run`'s wait for a request through `play_request`,
`play_run` (open, chain, wire, build, publish, start), `pump` and the way on from what a
run ended with, `play_alone` for an entry that is a picture, `wait_for_device`, and
`run_sweep`; and every command of a shell, each of `Shells` being a reader thread of the
server. Every section under `mutex_` is one action and a command that lets go of it is
cut there: `play_at` copies the list and then asks (`PlayAtReads`, `PlayAtAsks`),
`set` writes the configuration and then raises the flag, `set_node` tries the key on a
chain and takes it out again when the chain refuses it, a transport that finds no
graph sleeps on `seekable_`. The run's graph and queue are four things: the entry the
decoder is on, the entry heard, why the queue stopped, whether the graph runs. A
configuration is what the device is asked for (`Wires`, one of them no device takes)
and what the chain is built of (`Chains`, one of them refused). `wanted`, `last`,
`erased` and `measured` are history. Left out: status and graph, which only read; the
picture's own settings; what a calibration measures.

**IpcServer.** The listener (make an instance, wait, make a client, sweep), the
notifier, a reader and a writer per shell, and `stop`. A blocking call on a pipe is two
steps, the last look at `closing` and the call itself, because CancelIoEx ends only what
is pending. A pipe holds `PipeSize` messages and a queue `Limit`; what finds the queue
full closes the client. A request is its number and its answer the same number; what it
is (a call, a subscription, something that is no message, one longer than any) is drawn
when it is read. A shell may ask, read or leave at any time. A reader or a writer may
end by an exception, without `close`, and the listener because it has no pipe or no
event (`Fails`); `stop` knocks `Attempts` times and then joins. Left out: framing,
partial reads, what a request does to the player.

**Wiring.** One pass of `wire_up`: the chain is configured and asked for its output,
`negotiate_best` goes through `build_candidates`' list and judges each answer by
`classify`, `allows` and what the converter reaches; the period is read and the chain
sized for it. What `repack` accepts (`CanRepack`) is what the judgement is held against.
A device is a constant operator, `Answer(device, format)`, about which nothing is
assumed: it may refuse, or take a format and hand back another. A mask is the list of
positions it names; a format is its rate, channels, mask, sample type, encoding and
valid bits. Left out: the text of the refusal.

## 3. What is checked

| Run | Instance | Shows |
|---|---|---|
| `ring` | 4 slots, indices modulo 8, 10 bytes between resets | every interleaving of two copies, wrap included; implements `ByteFifo` |
| `graph_transport` | 3 frames, chunk 2, ring of 3, buffers of 2, one target, 5 calls | all of the transport, a stop, a restart and a seek in it, under fairness; implements `Playback` |
| `graph_faults` | the same loops, chunk 1, ring of 2, 3 calls, every sink call failing, failing seeks, both deadlines | what survives faults |
| `processed` | 6 wire frames of 3 source frames, two stages that hold one each, 3 calls, a stage that may refuse its drain, a repack that may fail | the chain keeps the order, its tail is played, also after a seek away from the end |
| `queue` | five playlists of up to five entries, one that cannot seek or may refuse among them, read-ahead 3, 3 calls | joins, marks, reasons to stop, next, under fairness |
| `source` | six frames in packets of 1 to 3, 25 edits, reads of 1, 2 and 5, two seeks | exactly the audio is handed over, whatever the cuts |
| `router` | three files of six packets, three sets of caps, two seeks that may fail | each its own packets, caps, counts, no starvation |
| `video` | two frames, one sync point, one held back by the decoder, a seek to the second, 3 calls, each kind of fault | nothing is decided about while the file moves, frames are of the right place, jobs run while waited for, calls return, the clock comes back |
| `player` | two shells, playlists of two formats, a picture and an entry that will not open, three groups of commands, 3 commands or faults | what is published is there, what is set plays, commands meet their run, requests end |
| `wiring` | 17 formats of files, two chains and none, four policies, 72 devices (6 sets of types, with and without a layout, six ways of answering), a period or none | what is wired carries the signal it says it carries |
| `ipc` | a shell that asks, twice if the other never comes, and one that only hangs on, queue and pipe of one message, one knock, all faults | clients let go once, answers in order, stop returns, the door is opened, who reads is answered |
| `router_threads` | the router's files, two threads, no seeks | **violated**: see below |

What the properties' parts say:

- `CopiesAreSafe`: copies share no slot, and what a thread saw of room or bytes stays;
  that what is read is what was written is `IsAFifo`. `PlaysFromWhereItIs`: frames in
  order while nothing was lost, and a position that is not behind them.
  `SeekOwnsTheRing` is also that no read is torn and the ring never comes apart, until a
  wait of a seek has timed out. `PlaysOn`: no thread is stuck. `CallsReturn`: `stop`
  returns, and so does a seek, whether it is done or the run ends under it, except one
  that is `Unheard` (below). `PlaysWhatTheChainGives` is the same of the processed
  graph, with what the stages hold between the ring and the source; `ComesToItsEnd` says
  that none of it is left when a run ends by itself.
- `MarksAreRight`: marks ascend, name the track and place the frame. `JoinsOrSaysWhy`:
  tracks that fit join, and a queue that stops says for what reason.
  `NextIsTheTrackAfter`: a "next" whose own seek is performed, in time or late, is the
  start of the track after the one the device was in when it was pressed, or that track
  would not move, or the end.
- `CapsHold`: a queue is over its cap by one packet at most, and the bytes and packets
  counted are those that wait. `EndIsReached`: an answered end is the end, and both
  consumers get there.
- `LoopIsTheirs`: no move of the file under a pump, and a job runs only while its caller
  waits for it, once, and is told so. `PrerollHoldsTheClock` is three things: after a
  seek that crossed no other and that no deadline let through, no frame is dropped
  before the target's is shown (`TargetIsShown`); a clock nobody asked to pause runs
  again after a seek that crossed no other (`ClockComesBack`); and a pause asked for
  outside a pre-roll stays, through whatever seeks (`PauseStays`).
- `RunsTheSettings`: a run is made of what `config_` holds or the flag is up that makes it
  so. That `config_` goes on holding what a shell was told is accepted is not said, and is
  not so (below).
- `CommandsAreMinded`: a run is stopped only by a command meant for it, and nobody
  sleeps at the door of a run that can move. `RequestsAreServed`: a request is taken, a
  stop stops, a shutdown ends, and a request left alone comes to the end of its list.
- `KeepsTheSignal`: a graph without a converter carries every bit, at the file's rate,
  channels and layout; one with a converter is at the rate its chain gives it; and a
  device that takes the signal unaltered is not converted for.
- `ClientsAreLetGo`: a handle is open while either of its threads runs, and until the
  sweep or the stop that comes after.
- `NobodyIsHeldUp`: `stop` returns (`StopsInTheEnd`), whoever is at the door is taken in and
  the next finds a pipe (`DoorIsOpened`), and a shell that keeps reading is answered, or has
  left, or both its threads are over (`AnswersCome`), whatever the other shell does. Each
  is so unless something named hangs for ever: a thread in a call CancelIoEx came too early
  for (`Stuck`), a shell one of whose threads threw (`Unclosed`), a sweep of either
  (`SweepHangs`), a stop that joins one of them or a listener that came to its door after
  the last knock (`StopHangs`).

**Bounds.** Ten bytes go twice round 4 slots and past the end of indices modulo 8, and a
copy falls in two at every place; a chunk larger than one frame and a buffer that does
not divide it leave a ring that is neither full nor empty, an underrun and a last short
buffer; five calls are a start, two that cross, a stop and a restart. Two stages of one
frame are the least in which what the first still holds has to pass the second, and
three source frames fill both and leave one. A read-ahead of three holds a whole short
track, so decoder and listener are up to two tracks apart; the playlist of three tracks
with a longer one between is the least in which a seek back leaves a source in its
middle with a boundary behind it to cross again. A trim of two is larger than one
packet, as large as another and smaller than the third, so the tail is carried over
none, one and two packets. The router's files have a stream that comes late (the other's
queue fills), one packet above every cap and packets nobody selected; the caps are one
that bites at once, the pair with a floor, and one never reached. A picture of two
frames has one to let go before the target and one to show; three calls are two seeks,
or a seek and a setting, and a stop, a pause or another track among them. Two shells are
enough for a command to fall in another's cut, and three events for a play, a command in
its making and one across it; a behaviour draws one of three groups of commands
(transports, settings, lists and calibration), each with `play`, so that commands of
different groups do not meet in TLC (they do in the proofs). A queue and a pipe of one
are full after one message; one knock is used up before the listener has made its next
instance, which is what the four hundredth would be; that a later answer does not
overtake needs two requests, which `LoneRequests` allows while the other shell is away. The
sources of `wiring` are each type the codecs report, with the bits they state and with
fewer, bitstreams, a format that is not valid and layouts with and without a mask.

Deadlock is checked in `ring`, `source` and `router`. Elsewhere a state without a
successor is one in which nobody calls anything any more, or a wiring that is done; that
a thread is not stuck is what `PlaysOn`,
`CallsReturn`, `ComesToItsEnd`, `RunEndsAtLast`, `RequestsAreServed` and
`NobodyIsHeldUp` say.

**Fairness.** Weak, per thread: the operating system runs a thread that can go on, the
device keeps asking for buffers (WASAPI's event), and a nap ends. Nothing is assumed of
callers, except that the router's consumers go on asking: strong fairness, since with
one thread a consumer's turn comes and goes. In `VideoPath` the frame clock answers
(compositor or timer; a cancel is heard at once) and the clock itself need not tick. In
`Player` the engine thread, the graph of the run and a command once begun go on; whether
there are commands, and what fails, is open. In `IpcServer` the server's own threads go
on, nothing that fails is owed to fail, and the shells owe nothing: that a shell reads
is a premise (`Attends`) of the part that is about it. `Wiring` is sequential and has
none. No liveness property needs a deadline: in the graph's runs deadlines are
constants, off where one is checked; in `video` a behaviour has one kind of fault, so it
has no deadline in most of them, and a deadline that may pass need not.

**The violation run.** `router_threads`: with two threads in `next`, a packet read for
the other consumer is queued behind the one that follows it. The plan of the
repository promises each stream its packets "packet for packet" and the header speaks
of "a player whose two consumers are on different threads".

**Where the code does less than one would state.** The properties of the passing runs
are stated so that they hold in spite of these, by conditions over history variables
no action reads; each but the last two is a hazard of `PROJECT.json`.

- A seek that the end of a run overtakes is answered true although nothing moved
  (`passthrough.cpp:451`). `Playback` says so of a run still on. If it slept already it is
  told by nobody, and nor is a decode thread in a handshake with a render thread that is
  over: both sleep out their deadlines (`passthrough.cpp:336-339`), though `passthrough.hpp:266`
  has each wait "released by whoever has the news". `CallsReturn` leaves it out (`Unheard`).
- A handshake that times out may reset the ring under a reader, which then publishes an
  index past the writer's (`ring.hpp:104,112-113`): what is played until the next reset is
  anything, and a run whose source is drained does not end by itself, its ring not being
  empty. The properties of order and of a run's end are of runs in which no wait of a seek
  has timed out (`late`).
- A "next" may be taken by an older seek (`queue.cpp:296`): `NextIsTheTrackAfter` is of
  one that its own seek takes (`ItsOwnSeek`); `queue.hpp:155` says "Consumed by that one
  seek" of all. One cancelled after it was performed skips twice (`player.cpp:588-593`);
  the queue joins and marks rightly all the same, which is all `MarksAreRight` and
  `JoinsOrSaysWhy` say of it.
- A boundary crossed again after a seek back goes into a cached source where it had been
  left, and the mark says that the track began there at its frame 0 (`queue.cpp:126`): its
  beginning is not played and its frames are placed wrongly. `MarksAreRight` and
  `JoinsOrSaysWhy` are of runs in which that has not happened (`reread`), no seek has failed
  and none went back before a mark that cut a track short (`AsLaid`).
- A feed that answers BUSY makes `read` return nothing, which means the end, and the
  tail it held is lost (`packet.cpp:588`).
- A seek during an earlier seek's pre-roll takes the clock for paused by the user
  (`video_path.cpp:476`), and one during its arrival has its own clock resumed by it
  (`:453`), two seeks later even, when the loop was stopped between its look and its
  store that long: `TargetIsShown` and `ClockComesBack` are of seeks that crossed no other
  (`crossed`), the first also of none that a deadline let through (`late`) and of none since
  which somebody paused or resumed (`fresh`). A pause asked for in a pre-roll is undone by
  its end: `PauseStays` is of the others (`asked`). `video_path.hpp:206-209` says both of all.
- A seek left by one that timed out ends the next one's request (`passthrough.cpp:489`).
- A refused `set_node` erases the key instead of putting its old value back
  (`player.cpp:1459`): `RunsTheSettings` excepts it (`erased`). A failed rebuild puts
  back all of `config_` (`player.cpp:1921`), with it what another shell set while it was
  under way and was told is accepted: `RunsTheSettings` compares with what is there
  then. A `play_at` may undo another shell's `enqueue` (`player.cpp:379`); a
  `play_alone` that does not open leaves its list published (`player.cpp:2030`).
- A CancelIoEx between a thread's last look and its call ends nothing
  (`ipc_server.cpp:171`): the stop waits for the shell, which `Stuck` names. A thread
  that throws goes past `close` (`ipc_server.cpp:363-381`, `Unclosed`), so that the
  sweep joins the other for ever and no pipe is made for the next shell; a listener may
  come to its door after the last knock (`ipc_server.cpp:232`, `StopHangs`).
- `negotiation.hpp:104-105` says that `processed` has no candidates "because it has no graph".
  It has both (`negotiation.cpp`), and the model follows the code.
- With conversion allowed, a 32-bit source of 24 valid bits is offered one wire format
  twice under two names, against `format.hpp:81-85`. The second asking is
  refused as the first was: it costs a round trip.

## 4. What is proved

Each theorem is for every value of the constants the module's assumption admits. The
assumptions are the kinds of the constants, one fact of a stream: it has a last packet
(`SourceAssumption`), and one of the unit a processed graph is counted in, the wire
frame: a length, a block and a target, which the code counts in frames of the source,
are multiples of the `Ratio` of the two (`ChainAssumption`). Hypotheses beyond these
stand in the theorem: the router's four are of calls from one thread (`OneThread`), and
`GraphIsPlayback` is of a graph nothing fails in and no wait of which runs out. TLC
checks the inductive invariants on the instances above too.

| Module | Theorems of properties a run checks |
|---|---|
| `ByteRingProofs` | `TypeOK`, `CopiesAreSafe`, the refinement of `ByteFifo` |
| `GraphProofs` | of the first graph `TypeOK`, `WorkWakesTheDecoder`, `SeekOwnsTheRing`, `PlaysFromWhereItIs`, `RunEndsAtTheEnd`, the refinement of `Playback`; of the processed graph `PlaysWhatTheChainGives`, `TypeOK`, `WorkWakesTheDecoder`, `SeekOwnsTheRing`, and `TailIsPlayed`, which is the safety of `ComesToItsEnd` |
| `PacketSourceProofs` | `TypeOK`, `HandsOverTheAudio`, `NothingMeansTheEnd` |
| `PacketRouterProofs` | `EachGetsItsOwn`, `CapsHold`, and `EndIsTheEnd`, which is the safety of `EndIsReached` |
| `VideoPathProofs` | `TypeOK`, `LoopIsTheirs`, `ShowsWhereItIs`, and `TargetIsShown` and `PauseStays`, which are the safety of `PrerollHoldsTheClock` |
| `PlayerProofs` | `TypeOK`, `PublishedIsAlive`, `RunsTheSettings`, `CommandsAreMinded`, and `EndsAtTheEnd`, which is the safety of `RequestsAreServed` |
| `IpcServerProofs` | `TypeOK`, `ClientsAreLetGo`, `AnswersInOrder` |
| `FormatProofs` | of the queue `TypeOK`, `MarksAreRight`, `JoinsOrSaysWhy`, `NextIsTheTrackAfter`; of the wiring `KeepsTheSignal` |

**`ByteRingProofs`** (every capacity that divides 2^w and is smaller, every number of
bytes). The inductive invariant adds: the indices are the counts of bytes published,
modulo 2^w; the difference of the counts is the fill and at most the capacity; the slots
between the indices hold the bytes of those numbers, the part of a write already copied
too; a copy in progress is within what was loaded. It is needed because the properties
speak of slots and the steps of indices.

**`GraphProofs`, the first graph** (every source, chunk, ring, floor, buffer, target and
bound; with faults and deadlines or without). `Inv` in parts:
- `Typed`, and `ThreadInv`: the threads exist while `live_`, the control thread does
  their work only while they do not, and the render thread has frames in hand only
  between its read and its commit;
- `RingInv`: the ring is apart, or torn under a reader, only after a wait of a seek has
  timed out or the run it was made in has ended, and until then a read finds in the ring
  what it took;
- `TurnInv`: a seek that has counted a turn begun under `seeking_` finds the render
  thread out of the ring: in this turn it loaded the flag, or will, after it was set;
- `WaitInv`, of runs no wait timed out in: while a seek is being performed its caller
  is still waiting, so nobody stops the graph, and a handshake left because the run
  was over left the render thread at the end of its turns;
- `WakeInv`: between its load of the counter and its sleep the decode thread saw what
  there is to do, or the counter has gone on since;
- `OrderInv` and `HandInv`: what was given to the device, what is in hand and what is in
  the ring are, one behind the other, the frames up to the source's place;
- `RunInv` and `SeenInv`: a decode thread that has `drained_` has the source at its end, and
  a turn that saw `drained_` and then an empty ring saw the end of the run;
- `StaleInv`: a seek whose caller is gone, because the run ended first, holds nobody
  off, and its handshake may find the render thread in the ring. It tears nothing all
  the same: the run it was left by ended at the end of the source, so until that seek
  has moved the source there is nothing in the ring or in hand.

The refinement maps every action to one of `Playback`'s or to a stutter
(`PlaybackStep`); of a run that was stopped in the middle of a seek, whose ring may have
been taken from a reader, `Playback` promises nothing about what comes next. A graph
started again goes on from the source's place and not from what was last played, so
`Playback` lets an idle graph skip what an earlier run had read ahead (`Skip`). These
theorems rest on `GraphAssumption` alone.

**`GraphProofs`, the processed graph** (besides, every chain of stages, however much each
holds back, and every rate). What the pump puts in the ring is what the chain gives, so
nothing can be said of the ring without the stages:
- `ChainInv`: the stages hold whole frames of the source and none is over its fill, so a
  block never gives more than it brings and fits the room that was looked at;
- one stage gives on, in front of what it keeps, what it held in front of what it was given
  (`StageGives`); hence so do all of them, from whichever one the block or the drained
  stage's frames enter (`ChainConserves`), and a turn of the pump leaves the ring with the
  chain behind it as they were, and the block read behind them (`PumpOnceGives`);
- `ChainOrderInv`: there is a frame where the ring ends and the chain begins. Up to it the
  hand and the ring are in order (`OrderedTo`, what the first graph's proof shows up to
  the source's place), and the chain holds what lies from there to the source
  (`ChainFrom`). A seek's reset empties the ring first and the chain with the move, and
  of the chain nothing is claimed in between;
- `FlushInv`: the stages before the one being drained are empty, and a graph that has
  `drained_` has nothing left in any, which is what `ProcTailIsPlayed` needs: a move of
  the source puts the drain back to its beginning;
- `PlaceInv`: the base of the position is a whole frame of the source, so the code's two
  divisions, of the base and of what was rendered since, give the place itself.

The wakes, the handshake and the turns are the first graph's and so are the lemmas about
them: a step is one of its steps except where a sample is touched (`ProcStep`).

The chain is two recursive functions (`Through`, `InTheChain`). What is needed of such a
function is one step of it and what every number of steps keeps; the second is shown by
the least number of steps after which it would fail (`OneByOne`).

**`PacketSourceProofs`** (every cut of a stream into packets, delay, length, padding,
pre-roll and size of read). What `read` holds, in `pcm_` or held back in `carry_`, is a row
of frames that ends just before the decoder's place (`HeldInv`), and its first, past what
is still to be skipped, is the one after the last handed over; the padding is the last
`Trim` of what is held once the codec is drained (`CarryInv`, `BoundInv`); a seek's skip
reaches from the sync point to the target, less what a codec reset there loses (`SeekInv`,
`ColdInv`). Frames are compared in rows by an index (`RowTo`), so no induction over the
loop is needed: each pass appends one row to another.

**`PacketRouterProofs`** (every file, set of streams and caps). With one thread at most
one call is under way (`OneCaller`), so what it found about the queues when it read
still holds when it hands the packet on (`CallInv`); the end is noted only with the
file's place at its end, or with a seek about to clear it (`EndedInv`). `CountsWhatWaits` is
about sets of packets and their cardinality: those that wait are the packets in the
queues, each once, and a count goes up and down by one packet's bytes
(`Heavier`, `Lighter`). Without `OneThread` the first of these theorems is false, which is
what `router_threads` shows.

**`VideoPathProofs`** (every file, target, decoder delay, number of calls and faults).
`Parked`: whoever moves the file holds, holds the newest number, and a parked number not
below it means the loop is out of its pump and will look again before it goes back in,
or has ended. `Tickets`: every job has one number and is in one place, queued ones in
the order they were posted. `Attended`: what is queued, or taken and not begun, was given
up by its caller or still has it waiting. `Outcome`: what the call under way will be told
is what became of its job. For what is shown: the decoder and the hand are of the last
move as soon as the graph was rewound (`OfThisMove`), and the clock is at or past the
target whenever the loop reads it (`ClockIsThere`), the two things a seek moves while no
turn decides about anything. A deadline that passed (`late`) frees the loop before
either is so, and the property says so. For the frame a seek is for (`Waiting`): until
one was shown the clock is held at the target, and the decoder has yet to give the
target's frame, every one before it being let go, or gave it to a turn that read the
clock there and shows it. It rests on no arrival being under way when the file is moved
(`Quiet`): a loop that read the flag of an earlier seek and has not come to its store and
its resume counts as one that was crossed, whatever the flag says by then.

**`PlayerProofs`** (every set of shells, files, playlists and groups of commands, any
number of each, all commands together). `Published`: a player with nothing to run says so
from the step that takes a request on. `Meant`: a run ends as asked only if whoever
raised the flag meant this one. `WireIsDue` and `ChainIsDue`: where what plays is not what
is set and no flag is up, some shell is still about to raise it, or is trying a key and
will take it out again, and what it wrote over is what plays. For the end of a request:
the queue's two places are in the list, in order, and a run that is being made has
nothing read ahead (`Placed`); the queue's word "end" is about the list as it stands,
which a move may reorder only behind the place read up to (`Reached`, `MovedIs`); a graph
that ended by itself had been given that word (`PlayedOut`). `FollowingIs`, `AdvancedIs`,
`RemovedIs`, `InsertedIs` and `MovedIs` are what the list's operators return.

**`IpcServerProofs`** (every set of shells, limits and requests). `Whereabouts`: a client
whose pipe is open is in exactly one of the list, the listener's hand, its sweep and the
stop's own list. `Stages`: who may be sweeping or ending when. `Unborn`: nothing of a client
is there before it is made, and its threads are gone before its pipe is closed. For the
order of answers (`InLine`): a shell's unread requests end with the last it made, the one
in the reader's hand is the one before them, and what was said of the earlier ones -
heard, in the pipe, in the writer's hand, queued - ends with the one before that, until
the connection closes.

**`FormatProofs`, the queue** (every set of playlists, read-ahead, grace and targets, any
number of calls). The marks begin with the run, ascend, and name entries that can be
joined with the one being read (`Laid`); a mark that no "next" and no skip put there is
where the track before it ended, and of the entry that follows it (`Chained`); the source
being read stands where the mark of its track says (`Current`), so that the boundary it
will come to, if one is recorded already, is at its end (`StandsInItsTrack`); and what was
handed out is what the mark over it says (`Told`). A boundary takes marks off the back of
the list and appends one (`BoundaryAtTheEnd`), which leaves the mark over every earlier
frame (`MarksWhenJoined`); that the mark `mark_for` finds is the one over the frame is
`CoveringCovers` and `OneCovers`. All but `Laid` is of runs as they were laid (`AsLaid`).

**`FormatProofs`, the wiring** (every set of sources, chains, devices and periods, and every device
whatever it answers). The judgement of an answer is enough to copy or repack
(`RepackIsNotRefused`, `CanonicalHolds`), and the order of the list is enough for what is
passed over: an unaltered candidate comes before every converted one
(`UnalteredComesFirst`), and those passed over were refused (`TakenInOrder`).

That a set of naturals has a least member, which several modules need, is taken from the
library's well-foundedness of `<` and not from its induction theorems (`LeastMember`):
those take an operator, which no prover here can instantiate.

Model-checked only, because the prover does not reach it: liveness, everywhere (`PlaysOn`,
`CallsReturn`, `ComesToItsEnd`, `RunEndsAtLast`, `EndIsReached`'s and `RequestsAreServed`'s
other halves, `PictureFollows`, `PrerollHoldsTheClock`'s return of the clock,
`NobodyIsHeldUp`).

## 5. Plan

Done, in this order: the ring, the graph over it, the queue above it, the packets below
it, the picture beside it; the player's run machine, the processed graph, the server,
the wiring. Left, and worth doing in this order:

1. Proofs: the safety of `PictureFollows`, that a picture is of an entry that is or was
   heard.
2. A picture that follows an audio graph: its clock, `seek_together`, the pacer's three
   fates and what `Player::seek` does under a running picture.
3. Abstract specifications: a packet stream that `PacketRouter` implements for each
   consumer; a picture's transport that `VideoPath` implements; a run that `Player` and
   `GaplessQueue` both refer to, in place of the four things `Player` keeps of it.
4. The client of the protocol and its reconnection.

## 6. Not modelled

Samples (conversion, dither, DSP kernels, colour, the pacer's filters): arithmetic over
doubles, which neither TLC nor the prover has. File formats, the text of messages and
settings: parsers without concurrency, covered by unit tests. Windows, devices, modules
of third parties: I/O. Weak memory: the models interleave atomic steps. Most of the
repository by lines is of these kinds (codecs and demuxers, presenters, shells, the
head's windows). `PROJECT.json`, "components", says why of each part.
