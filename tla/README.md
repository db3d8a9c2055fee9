# Verification of AllRelay

AllRelay turns a rooted Android phone into a screen, camera, microphone and
speaker of an Ubuntu desktop. The phone runs a daemon that listens on TCP ports
5000 to 5004. On the desktop there are two programs that talk to it:

- `allrelay-server` (Go, `src/allrelay-server`), which owns the life cycle of
  every stream and serves a dashboard and a remote viewer over HTTP and WebSocket;
- the client (C, `src/scrcpy/app`), a fork of scrcpy with a direct Wi-Fi mode,
  which shows, plays and records the streams and sends input.

This directory holds TLA+ models of the parts whose correctness depends on
interleaving, failure, ordering or arithmetic, the TLC configurations that check
them on small instances, and proofs checked by TLAPS.

Contents: 1 the system, 2 the modules and the code, 3 what the runs check,
4 fairness, 5 what is proved, 6 known deviations, 7 what is not modelled,
8 what could come next.

To check a module, run TLC in this directory on an `MC*.tla` module with its
`.cfg` file (`tlc -config MCRecorder.cfg MCRecorder`); to check the proofs, run
`tlapm RecorderProofs.tla` and likewise for the other `*Proofs.tla` modules.
`PROJECT.json` lists components, runs, mutants, hazards, theorems, and the source
lines behind every definition ("map").

## 1. The system

### 1.1 The desktop server

| Component | State | Operations | Talks to |
|---|---|---|---|
| `ServerController` (`internal/web/controller.go`) | connection, connect generation and cancel function; per stream active, running, generation, cancel, done; owner of the control reconnect | `Connect`, `Disconnect`, `ToggleStream`, the `launch*Worker`s, `reconnectScreenControl` | one goroutine per HTTP request, stream workers, `Connection`, `Hub`, `WebServer` |
| `transport.Connection` | one socket per stream, `closed` | dial with retry, `InstallStream`, `CloseStream`, `Close` | the phone |
| `Hub` (`internal/web/hub.go`) | screen generation, header, display flags, control route, replay cache; clients, broadcast queue | session begin, header and end, `RegisterControlRoute`, `WriteControl`, `BroadcastScreenFrame`; `Run`, register, pumps | screen worker, WebSocket clients |
| `WebServer` (`server.go`) | published status | HTTP handlers, `SetConnectionStatus` | controller, hub, dashboards |
| ADB lease monitor (`adb.go`) | stored cancel function, monitor number, published ADB status | start, stop, heartbeat loop | the phone's port 5008, the adb server |
| Speaker capture (`controller.go`, `audio/`) | frame queue, pipeline, send goroutine | read from ffmpeg, drop oldest, write to the phone | phone, ffmpeg |
| Remote page (`static/app.js`) | decoder | session, init and frame messages | hub |

The controller serialises its state transitions with `sc.mu` and waits for
workers outside of it; the hub has its own locks (`displayMu` outside `controlMu`
outside `mu`). What protects a newer session from an older goroutine is that each
carries a generation and compares it under a lock before it acts.

### 1.2 The client

| Component | State | Operations | Talks to |
|---|---|---|---|
| Command line (`cli.c`) | options | parse, derive, refuse | everything after it |
| Session (`scrcpy.c`, `usb/scrcpy_otg.c`) | what has been initialized and started | initialize in order, event loop, stop, join, destroy | all threads |
| Server thread (`server.c`, `adb/`, `util/intr.c`) | device, tunnel, process, sockets, interruptor | select a device, push, tunnel, execute, connect; stop | adb, the phone, main thread |
| Demuxers and recorder (`demuxer.c`, `recorder.c`, `util/vecdeque.h`) | two ring buffers, packets held back, the file | push, process, finish | libavformat |
| Audio playback (`audio_regulator.c`, `util/audiobuf.c`) | lock-free ring, compensation | push, pull, skip, drop | SDL's audio thread |
| Video path (`decoder.c`, `delay_buffer.c`, `frame_buffer.c`, `v4l2_sink.c`, `screen.c`) | pending frames, delayed queue, window state | push, delay, announce, take, pause, rotate | demuxer, main thread, V4L2 |
| Screen geometry (`screen.c`) | frame, content, window and display sizes | resize, rotate, convert clicks, `--flex-display` | SDL, the phone's display |
| Input and control (`input_manager.c`, `controller.c`, `receiver.c`, `uhid/`, `usb/aoa_hid.c`, `util/acksync.c`) | two message queues, HID slots, key and lock state | inject, send, acknowledge, resynchronize | the phone, USB |

Threads meet at queues with a mutex and a condition variable, at the event queue
of the main thread, and at the ring of samples, which has no lock.

### 1.3 What is hard, and what correct means

| Part | Hard behaviour | Correct means |
|---|---|---|
| Hub | header, control route, end and input come from four goroutines; a control write can fail; the end has two critical sections | display, route, input and replay cache follow one session |
| Controller | locks are released around dials and joins; stop, start, disconnect and worker failure race | no socket is lost; one worker per stream, which can be joined; the last call wins; every call returns |
| Viewer feed | bounded queues, slow viewers, two writers, shutdown | a connected viewer misses no session event and sees no stale frame; nobody can stop the hub |
| Lease monitor | start and stop race with the loop; the select is random | every running monitor can be stopped, a dead one blocks nothing |
| Speaker | four goroutines, a full queue, a stalled phone | the newest audio is kept, the loop never waits for the phone |
| Server thread | a stop between two blocking calls; processes and sockets that hang | an interruption hits what is waited for; a stop is always obeyed; nothing is left |
| Session | initialization fails at any of twenty steps; ends in an order of its own | no thread uses what is destroyed; nothing survives; the end comes |
| Command line | combinations of three options | what is accepted satisfies what the client asserts |
| Recorder | stop at any moment, two streams, config packets, rounding of timestamps, growing and wrapped rings | the file holds what was accepted, in order; the loop's assertions hold |
| Audio | cursors loaded and stored by two threads; the producer drops what the consumer reads | samples in order, none lost uncounted, bounded latency |
| Video | a frame is announced after the mutex is released; delay, pause, sessions | each pending frame is announced once; never an older frame; the last one arrives |
| Geometry | integer division that rounds, eight orientations, crossing resizes | a click hits what is shown; window and display settle |
| Control | full queues, droppable messages, late acknowledgements, unplugging | the device is never sent what it cannot follow; no thread sleeps on work |

`PROJECT.json` ("hazards") has each at its line with the properties that would
catch it, or the reason why none does.

## 2. The modules and the code

**ScreenHub** is `hub.go` without the WebSocket part. The operations keep their
names and guards. `EndScreenSession` releases `controlMu` before its route write,
so it is two actions, with `ending` for `displayMu` being held in between; so is
`WriteControl`, which reads the route and writes after the lock is released.
Whether a write succeeds is the parameter `ok`; `phoneDark` is the phone.

**ServerController** is `controller.go` and `transport/connection.go`, and EXTENDS
`ScreenHub`: the steps are one where the code holds `sc.mu` across both. Every
HTTP request is a *call*, a goroutine whose body is cut at each place where it
releases `sc.mu`. A call makes at most one context, one socket, one worker and one
`Connection`, so these are named by the call. A capture is a step that ends
because it was stopped or failed; a screen capture also delivers a header,
possibly after it has been told to stop.

**ViewerFeed** is the WebSocket part of `hub.go` and the decoder of the remote
page, and EXTENDS `ScreenHub` without routes. `waiting` is the event that
`SetScreenSession` has not queued yet with two locks held; the actions that need
these locks have `LocksFree` in their guards. The two writers of a client
interleave; a message and the page's handling of it are one step.

**ADBMonitor** is the monitor part of `adb.go` with the handlers of `server.go`
that start and stop it, cut at their locked sections. The answers of the phone and
of the adb server are arbitrary. `epoch` (history) counts the changes of phone.

**SpeakerCapture** is `runSpeakerCapture` with its helpers and `CapturePipeline`;
the two selects with which the loop makes room are separate steps. **RecentFeed**
is what it promises: frames are handed on in order, not repeated and at most
`Window` behind the newest. `SpeakerCapture!FeedSpec` is the refinement
(`newest <- frameCount`, `given <- inHand`).

**VecDeque** is `util/vecdeque.h` as operators on records of data, capacity,
origin and size, the growth and both branches of the reallocation included.
**Recorder** is `recorder.c`, `packet_merger.c` and the loop of `demuxer.c` over
these rings. An action is what a thread does under the recorder's mutex or between
two such sections; libavformat may fail at every call. A file entry carries the
identity of the packet, the config data merged into it and its rescaled timestamp.

**AudioRegulator** is `audio_regulator.c`, `audio_player.c` and
`util/audiobuf.c`. A sample is its number and 0 is silence; loading a cursor,
copying and storing a cursor are separate steps. The resampler is external and
returns one sample more or less while a compensation is set.

**VideoPath** is the way of a frame through `decoder.c`, `delay_buffer.c`,
`frame_buffer.c`, `v4l2_sink.c` and `screen.c`, in four threads. A size is a model
value; a window is described by the content its size was last computed for, and
`ui.owed` (history) is the content it should be computed for.
**ScreenGeometry** has the numbers: `screen.c`'s integer arithmetic with its
truncations to 16 bits, rectangles as exact fractions, the eight orientations,
and the exchange of resizes with the device under `--flex-display`.

**ControlPath** goes from an SDL event to the device: a whole event handler of the
main thread, or one turn of another thread's loop, is one action. Keyboard, mouse
and gamepads are of one mode. The keyboard has the keys v (with Ctrl) and caps
lock, which are the ones that wait for something; `device` is what the device has
understood so far, and its field `bad` what it was sent and could not follow.

**ServerLink** is the server thread: `run_server` and everything it calls up to
the external programs, with the interruptor, the process observer, and the main
thread's stop, join and destroy. Its program counter is a record with the step and
what is being waited for. **ServerThread** is what the rest of the client may
count on: the thread connects or fails, once, says so before it ends, and obeys a
stop. `ServerLink!KeepsPromise` is the refinement, fairness included; `Safety` is the
part of it that is proved.

**CommandLine** is `cli.c`: the derived options and the refused combinations, as
functions of the set of options given. **ClientSession** EXTENDS it and is the
whole of `main()`, `scrcpy()` and `scrcpy_otg()`: the initialization as a sequence
of steps any of which may fail, the event loop, and the stop, join and destroy
sequence. It uses the abstract server thread of `ServerThread` for the one that
`ServerLink` refines. `Uses` says which objects each thread touches.

Variables marked *history* are not in the code: they remember what happened so
that a property can speak of it, and no guard reads them. Definitions marked
*mutant* are faulty variants with which the properties are tested; no
specification uses them.

## 3. What the runs check

Each of the 40 properties is also tested in every run that checks it:
`PROJECT.json` ("mutants") names a plausible bug of the code for it, and TLC finds
the property violated once the bug is in. A property that is a conjunction of named
parts is one question.

| Run | Instance | Distinct states | Shows |
|---|---|---|---|
| `screen_hub` | 3 sessions, 3 routes, 2 viewers, 2 headers per session, cache of 2 | 70,180 (up to symmetry) | `SessionOwnsTheHub` |
| `screen_session` | 3 calls on connection, screen, mic and speaker | 102,288 | `NothingLeaks` `WorkersMatchSessions` `StaleCallsChangeNothing` `CallsReturn` |
| `viewer` | 1 viewer, queues of 1 and 2, 2 sessions, 1 publisher, `Stop` | 553,779 | `MessagesInOrder` `StopClosesEveryone` `HeaderIsQueued` |
| `lease_monitors` | 2 handlers with any request, 3 monitors | 152,862 | `CancelFollowsMonitor` `ReplacedMonitorsEnd` |
| `speaker_session` | queue of 2, 6 frames | 9,196 | `FeedSpec` (refinement) `SessionReturns` |
| `recorder` | 4 video and 1 audio packet, 2 timestamps and config packets, rings of 2 that grow | 415,540 | `RecordingIsFaithful` `QueuesMatchTheLoop` `RecorderEnds` |
| `audio_regulator` | ring of 4 samples, frames of 1 and 4, pulls of 2, 12 samples | 287,756 | `PlaysTheStream` `LatencyBounded` |
| `video_path` | 3 frames of 2 sizes, 1 further session, 2 inputs | 606,300 | `OneAnnouncementPerFrame` `WindowFollowsContent` `FrameKeepsItsSession` `NeverAnOlderFrame` `LastFrameArrives` `StreamCloses` |
| `control_path` | 4 inputs in each of 3 modes, queues of 2, 2 gamepads for 1 slot | 279,440 | `NothingStranded` `DeviceCanFollow` `LocksAreKnown` `NothingIsLeft` `EveryThreadEnds` |
| `server_link` | 7 command lines, 4 device lists, 2 ports, 2 attempts | 25,902 | `InterruptIsSafe` `AnnouncedStreams` `NothingLeft` `KeepsPromise` (refinement) |
| `client_session` | every command line of up to 3 of 27 options; 8 kinds of session | 145,240 | `AcceptedIsConsistent` `UsedObjectsLive` `NothingSurvives` `TeardownEnds` `SessionEndsWithDevice` |
| `screen_geometry` | portrait and landscape frames, 4 orientations, 3 fits, 3 steps | 503,796 | `ClickHitsWhatIsShown` `WindowFitsContent` `DisplayFollowsWindow` |

**Why the bounds are enough.** Generations and numbers matter only by being equal
or not: what can go wrong between an older and a newer session needs two, three
leave one to come between. Three calls are a connect and two that race with each
other and with the workers, and enough for overlapping `Connect`s to overwrite a
connection; for the safety properties the proofs remove that bound, and so they do
for the frames, the packets and the sizes below. A
queue of one message is full after one, and the speaker's has two because with one
"the oldest" and "the newest" are the same. The recorder's rings grow once and
wrap before and after; four video packets leave one waiting, one held back for
its duration and two queued, and one audio packet makes the two streams wait for
each other. The ring of samples is smaller than a compensated frame, so the
producer finds it full, empty and wrapped. Three frames are the fewest of which
one can be skipped between two that are shown. Two messages fill the control
queue; four inputs create a gamepad, remove it and reuse its slot with one to
spare. Two ports and two attempts have a first and a last. The options of the
command line derive and refuse in rules that mention at most three. Frame sizes
and windows are small but have different ratios, so every division rounds.

`MaxCalls`, `MaxGeneration`, `MaxHeaders`, `MaxAsks`, `MaxID`, `MaxFrames`,
`MaxVideo`, `MaxAudio`, `MaxSamples`, `MaxSessions`, `MaxInputs`, `MaxSteps`,
`Habits` (the kinds of input that occur in one run) and `Followed` (the sessions
explored) bound the environment. `MaxReplayConfigs`, `QueueFrames`, `Limit`,
`MaxKeys`, `MaxGamepads`, `MinCap`, `MaxCap`, `LastPort`, `Attempts` and the
capacities of `ViewerFeed` and `AudioRegulator` are constants of the code, made
small.

`NoPts` is `AV_NOPTS_VALUE`, a constant below every timestamp and every difference
of two of them, as the code's is.

`CHECK_DEADLOCK FALSE` stands where the program ends: a session, a recording or a
stream that is over has no next step, and the bounds on the environment stop the
rest. That nothing hangs before is the liveness property of the run (`CallsReturn`,
`RecorderEnds`, `StreamCloses`, `EveryThreadEnds`, `KeepsPromise`,
`TeardownEnds`). `audio_regulator` and `screen_geometry` stop at their bounds and
have no liveness property. Elsewhere resting states have a stutter of their own
and TLC reports any other. Symmetry is used in `screen_hub` only, where nothing
but safety is checked.

`Connect`s overlap as they like, as the HTTP server lets them. What a `Connect`
overwrites (`overwritten`, history) is named in the two properties that it would
break: `NothingLeaks` excepts the sockets of such a `Connection`, which nobody will
close, and `WorkersMatchSessions` the stream whose worker belongs to one, which
stays active when the worker has ended. Section 6 has the promise that this breaks,
and section 5 a proof that nothing but overlapping `Connect`s gets there.

## 4. Fairness

- *Controller*: weak fairness of each call, worker and reconnect. A goroutine that
  can run does run; a dial ends because each attempt has a timeout and the
  attempts are counted. No call has to be made and no phone has to fail.
- *Viewer feed*: weak fairness of the hub's loop, strong fairness of
  `HeaderQueued`: goroutines blocked in a send on a Go channel are served in the
  order in which they came. No viewer is assumed to read.
- *Lease monitor*: weak fairness of each monitor; its queries have timeouts. The
  random select is not assumed to be fair.
- *Speaker*: weak fairness of the goroutines, of reaping a killed process and of
  closing a cancelled session's socket. A write ends only if the socket has been
  closed, a read from ffmpeg only if it has ended: neither has a deadline.
- *Recorder*: weak fairness of the recorder thread. The device and the user owe it
  nothing.
- *Video path*: weak fairness of the demuxer, the delay and V4L2 threads and the
  main loop. The device need not send and the user need not act.
- *Control path*: weak fairness of the controller, receiver and AOA threads, and
  of the main thread once it has begun to stop. The device need not answer; the
  wait for an acknowledgement has a timeout.
- *Server thread*: weak fairness of the thread, the observer and the main thread.
  adb, the device and the peers may never answer. A reader ends when its socket has
  been interrupted, and the server process of `--list-*` ends, since it only
  prints.
- *Client session*: weak fairness of the main thread and of the threads that have
  a reason to end: the end of the stream, having been told, the clock. Errors need
  not happen.

Threads and goroutines are scheduled by the operating system and the Go runtime,
and a condition variable's waiter is woken by the signal the code sends; the
models of condition variables keep the wait and the signal where a wakeup could be
lost (`ControlPath`), and are the bare condition elsewhere.

## 5. What is proved

TLAPS proves these for every value of the constants that satisfies the `ASSUME`
of the module, and from nothing else but where a hypothesis is named here. Eight
modules hold the proofs. Hardly ever is the invariant of the run inductive; the
module names what has to be added.

**ServerControllerProofs** begins with the hub, which `ServerController` EXTENDS,
for any number of sessions, routes and viewers: `HubInvariant`. `SessionFields`
says which fields of the hub move together, and `RouteHistory` what the history of
a route tells about the phone. From them follow `SessionOwnsTheHub` and that the
phone is darkened only by a session that has both header and route. The controller
comes in three layers, for any number of calls.

- `PInv` (`ControllerInvariant`): why a stream never has two workers. A call *owns*
  a generation of a stream from the moment it takes it until it launches, gives up
  or has joined. `GenerationsDiffer`: no two calls own the same generation, and none
  is newer than the stream's. `OwnersWait`: the owner of the stream's own generation
  either waits for the worker whose done channel the stream holds, or the stream
  holds none. `ConnsAreInstalled`: workers belong to connections that were
  installed, so a new connection has none.
- `SInv` (`ControllerSockets`): what slots and sockets hold. `OvertakenHaveLost`:
  an overtaken call's generation is older than its stream's, so `StillOwned` sends
  it away. `ScreenSlotIsOwn`: while a screen worker lives, its connection's screen
  slot holds its own socket or none, which is why `conn.CloseStream` at its end,
  that looks at no generation, hits nobody else's. It needs `SlotsAreNamed` (whose
  socket may be where) and `LaunchedHaveReturned`. Hence `StaleCallsChangeNothing`,
  with overlapping `Connect`s included.
- `CInv` (`SessionsAreTied`): what belongs to the sessions, with no restriction on
  the calls. `ActiveHasWorker` and `OwnersInactive` tie streams to workers,
  `OwnerHasWorker` and `HubGens` the owner of the control connection to the hub's
  session, and `ControlOpen` the hub's route to an open socket. Each of them speaks
  of the current `Connection` or of one that was overwritten; `OverwrittenAreLost`
  says that the latter is an installed one that is never current again and that no
  `Disconnect` is going to close. Hence `WorkersMatchSessions` and `NothingLeaks`,
  with the exceptions they name. The last theorem of the module
  (`OnlyOverlappingConnectsOverwrite`) bounds the exception: as long as no two
  `Connect`s are under way at once (`[]ConnectsOneAtATime`), no connection is
  overwritten (`NoConnectionIsOverwritten`), since whoever dials for a connection
  finds none (`DialsUnconnected`), and nothing is excepted.

**ServerPartProofs** holds three parts of the server.

- The ADB monitor (`MonitorInvariant`): `HeldOnce`, a handler holds a cancel function
  only between the two halves of `stopADBMonitor`; `NumbersGrow`, a new monitor's
  number is fresh; `Routed`, where requests of each kind can be.
- The speaker capture (`SpeakerInvariant`): the frame in hand is older than those in
  the queue, and how many frames there can be at each place of the loop.
  `SpeakerImplementsFeed` is the refinement of `RecentFeed`, safety and steps.
- The viewer feed (`FeedInvariant`), for any number of viewers, events and publishers.
  It follows an event from the publisher to the page. `EventsGrow`: published events
  are ordered, and the publisher is at the last one or at the next. `ChannelGrows`:
  `Hub.broadcast` holds exactly those that `Run` has not taken yet, in that order.
  `ViewersTold`: a viewer that is registered and not closed has been written, or has
  in its queue, each event that `Run` has taken since the viewer came in.
  `Registered`: whoever `Run` has received is in `clients`, is about to be added, was
  found slow, or is closed. Hence `MessagesInOrder` and `StopClosesEveryone`, which
  is about those that `Run` has received (`ReceivedByRun`); who is still in the send
  to it is section 6's.

**RecorderProofs** begins with the ring buffer: for every capacity, growth, origin
and size, a push appends to the content and a pop removes its first item, also when
the ring is reallocated while its content wraps around the end. On top of it is
`RInv` (`RecorderInvariant`). `Flows` follows each accepted packet: the file has the
first ones, then comes the video packet held back for its duration, then the one the
thread has in hand, and the queue has the rest, with config packets between them.
`Complete` is what is left of it after the thread has stopped recording, and
`TimestampsGrow` that the last timestamp written is the greatest. Hence
`RecordingIsFaithful`, for any number of packets, timestamps and failures, and
`QueuesMatchTheLoop`.

**VideoPathProofs** (`VideoInvariant`), for any number of frames, sessions and
inputs:

- `AnnouncedOnce`: an announcement is in the event queue, or in the hands of the
  demuxer, or of the delay thread, and of one of them only. It says without counting
  what `OneAnnouncementPerFrame` says with a sum.
- `WindowIsOwed`: a resize that waits has an event to wait for, the end of
  fullscreen or of the maximized state, in the queue.
- `SessionsInOrder`: each frame in the delay buffer belongs to the session queued
  before it, or to the sink's if there is none; only the first frame goes past.
- `FramesInOrder` and `V4l2InOrder`: numbers grow from the sinks back to the decoder,
  also through a pause.

**ScreenGeometryProofs**: `GInv` (`GeometryInvariant`), the content is always the
frame as oriented, and a window size chosen by the program is optimal for it; hence
`WindowFitsContent`. `ClicksGoWhereDrawn`: the conversion of a click is the exact
inverse of the transformation that draws the frame, in all eight orientations.
`RectIsCurrent`: the rectangle is that of the present window and content whenever no
resize event is pending; with the error bound of each integer division
(`AxisNear`) `ClickHitsWhatIsShown` follows. `FInv`: what the last session, a
request under way, the tracker and the window's size owe each other under
`--flex-display`; hence `DisplayFollowsWindow`, with its exceptions, of which
`NothingToResize` (a content that does not fit the screen leaves the window as it
was) is one. All hold for every size of 16 bits.

**ControlPathProofs** has three layers, for any limits, gamepads, identifiers and
number of events.

- `CInv` (`ControlInvariant`): no wakeup is lost, although a push signals only when
  the queue was empty, and no task of the receiver survives the end of the main loop.
- `FInv` (`ControlFollows`): the messages that wait in a queue lead (`Leads`), each of
  them legal where it comes, from what the device has to what the main thread takes
  it to have (`SocketFollows`, `UsbFollows`). A handler extends this path at its end
  with the messages it offers, or drops only what nothing depends on; sending one
  takes the first step. Over USB `OpenCovers` is needed as well: every registered
  identifier is in the thread's list of open devices, twice when a failed transfer
  leaves two gamepads on one slot; and `Acked`: an acknowledgement that arrives is of
  a clipboard the device has set. Hence `DeviceCanFollow`, and since the thread closes
  what its list has, `NothingIsLeft`.
- `LInv`, on top of it: the same path seen by the lock key. Either the queue releases
  the key (`TogglesLock`), and an LED will come of it; or it does not (`LeavesLock`),
  and then the last LED on its way says the lock the device has (`LedsTell`), and with
  none on its way the keyboard knows it already (`Knows`). A report that changes the
  lock appends such a release, a device that toggles it answers. Hence
  `LocksAreKnown`. A report of too many keys says nothing, but then the lock key is
  one of them.

**ServerLinkProofs** (`LinkInvariant`), for any set of command lines, device
lists, ports and attempts. That a command line wants video, audio or control is an
assumption on the constants: it is the check at `cli.c:3022`.
The invariant goes by the step of the server thread:

- `CommandInv`: a process is registered only between the two calls of
  `sc_intr_set_process` around its wait, and a socket only while the thread is
  blocked in it; once the interruptor has been used nothing is registered any more.
- `ProcessInv` and `TunnelInv`: in which steps there is a server process, an
  observer and a tunnel, and that the listening socket is open exactly in a
  reverse tunnel that is enabled.
- `SocketInv` goes along the order of the streams (`Place`): those before the one
  being dialled are served (`Served`: open, or optional and given up), those after
  it untouched. After a failure (`Undone`) none is open; after a connection every
  open one is the server's own.
- `MainInv`: the main thread is told at most one thing, and the thread gets past its
  wait only when it has been stopped.

What is registered is therefore open (`RegisteredAlive`), which is
`InterruptIsSafe` and also what makes an interruption harmless to everything else
(`InterruptKeeps`). `AnnouncedStreams` and `NothingLeft` are read off at the end.
`LinkKeepsToPromise`: all steps but four are not seen by the rest of the client
(`QuietSteps`), and those four are steps of `ServerThread`, whose `Safety` the thread
thus implements: as far as safety goes, `ClientSession` may use one for the other.

The fold by which a handler's messages are offered one after the other is unfolded
for one, two and three messages, as many as a handler has.

**ClientPartProofs** holds three parts of the client.

- Audio playback (`RegulatorInvariant`), for every capacity, target and size of a
  frame, in three layers. The first is the arithmetic of the ring: positions stay
  below the size, and what is free and what is filled adds up, also when the ring
  wraps around. The second is the content: `RingOrder`, what the ring holds is in the
  order of the stream; `FreshIsNext` and `FrameIsNext`, the frame at hand continues
  it; `Counted`, every sample sent has been played, dropped, is in the ring or still
  with the writer. The third is the two threads at their steps:
  `ReaderHolds`, what a reader has copied between its two cursors is still in the ring,
  and `WriterAt`, what the writer has still to write at each step. Hence `PlaysTheStream`
  and `LatencyBounded`.
- The command line (`AcceptedConsistent`): for every set of options, not only those
  the run tries, what `parse_args_with_getopt` lets through satisfies the assertions
  of the rest of the client, hence `AcceptedIsConsistent`.
- The session (`SessionInvariant`), for every set of options, over sockets or OTG.
  `DoneInOrder`: no step has been done without those wanted before it (`AskedTogether`
  and `AskedBySinks` say which are wanted together), so a thread has all it uses when
  it starts. `DoneSoFar` and `AllDone`: what is wanted is done up to where the main
  thread is, and all of it in the loop. `JoinAhead`: a thread that runs has a join
  further on in the end, under a flag that is set. `ObjectsAhead`: an object is there
  until its own destruction, which comes after the joins of all that use it
  (`ScrcpyUses`, `OtgUses`), and what is there has one ahead. `Undoing` is why a
  step that fails may destroy what AOA needed before its thread was started: the end
  looks at the thread's flag only. It leaves two exceptions, both about `acksync`:
  when the device is not found it is not destroyed, which `NothingSurvives` names,
  and in the normal end it is destroyed before the receiver that acknowledges
  through it is joined (`AckDestroyed`), which `UsedObjectsLive` names. Hence these two.

**Only model-checked.** Every safety invariant and every action property that a run
checks is a theorem. What stays with TLC: liveness under fairness (every property of
section 3 with `~>`, and those that say that something ends), and with it the fairness
of `ServerThread` in `KeepsPromise`, of which the safety part is proved: the prover
has neither fairness nor `ENABLED`. And what a recursive definition or a fold computes
for every input, which needs induction over data; no theorem here depends on it: the
proofs speak of sequences by their positions, and unfold a fold only over a given
number of items. That `MaxCap` of a ring is never exceeded is not claimed, since the
code reports the failure.

## 6. Known deviations

These are definitions that state what a comment or document of the repository
says, and that the code does not keep. None is part of a run. To see the
counterexample, replace the properties of the given configuration by
`INVARIANT <definition>`.

| Definition | Configuration | What is said, and what happens |
|---|---|---|
| `NoConnectionIsOverwritten` | `MCServerController.cfg` | "If already connected or connecting, disconnects/cancels first" (`controller.go:89`). After its inner `Disconnect` a `Connect` does not look again (`:101`). A second `Connect` that completes meanwhile has its connection overwritten: nobody closes its sockets, and a stream whose worker captures from it is shown as active after the worker has ended. |
| `StatusSettles` | `MCServerController.cfg` | The controller is the "source of truth for connection" (`docs/CODEBASE_MAP.md:86`). The status is published after `sc.mu` is released (`controller.go:152, 218`); a `Disconnect` between the two lines of a `Connect` leaves a dashboard with a phone that the controller does not have. |
| `SessionBeforeCachedFrames` | `MCViewerFeed.cfg` | The `screen_init` reply is one message "so session metadata is processed before its cached SPS/PPS and IDR frame" (`app.js:1771`). The live event of the same session may still be in the broadcast channel (`hub.go:321`) and then resets the decoder. |
| `ConnectedHostRenews` | `MCMonitors.cfg` | "Connected hosts keep ADB alive" (`AllRelayService.kt:168`). `startADBMonitor` returns early for a monitor that has decided to end and has not yet cleared its cancel function (`adb.go:96, 110`). |
| `NoStaleMonitorUpdate` | `MCMonitors.cfg` | "without stale monitor updates" (`CHANGELOG.md:62`). A monitor started between the stop and the reconnect of another request keeps number and IP address, and stores an older status (`adb.go:155`). |
| `StopReleasesRegistering` | `MCViewerFeed.cfg` | "Stop stops the hub event loop and tears down all active clients" (`hub.go:212`). A client is handed to the loop over an unbuffered channel (`hub.go:194, 603`). One that comes when the loop has taken the stop waits in that send for good, its connection open: `WebServer.Stop` stops the hub before it closes the HTTP server (`server.go:236`), and that leaves connections alone that have become WebSockets. |
| `StopFinishesRecording` | `MCRecorder.cfg` (`MaxVideo = 3` is enough) | "If stopped is set, continue to process the remaining events (to finish the recording) before actually stopping" (`recorder.c:320`). A recorder that is stopped while it waits for the header of the other stream fails with video packets queued. |
| `NeverPastesTheOld` | `MCControlPath.cfg` | "Wait until clipboard synchronization is acknowledged by the server, otherwise it could paste the old clipboard content" (`keyboard_aoa.c:53`). The wait has a timeout, after which, or after a dropped report, the device can see Ctrl+v first. |
| `NextKeyResynchronizes` | `MCControlPath.cfg` | The locks "will re-synchronize on next key press" (`keyboard_uhid.c:41`). They do not when the known state already equals the computer's while the device's differs, as after a lock key during a pause. |
| `WifiSkipsAdb` | `MCServerLink.cfg` | "Wi-Fi mode: connect directly to phone, skip ADB entirely" (`server.c:1181`). The adb server is started, and a device selected, before that line is reached. |
| `DisplayFillsTheScreen` | `MCScreenGeometry.cfg` | "Force a display resize, the client cannot resize in fullscreen" (`screen.c:855`). The request is made with the old orientation. |
| `OnlyOwnResizesIgnored` | `MCScreenGeometry.cfg` | "This resize event is the result of a previous (recent) resize request triggered by a change in the frame's dimensions" (`screen.c:350`). A resize by the user to the same size within three seconds is swallowed too. |
| `DisplayMatchesWindow` | `MCScreenGeometry.cfg` | "The display is continuously resized to match the window" (`doc/window.md:101`). When the device turns its display so that the content is larger than the screen, the window may already have the size that fits best. Nothing is resized, no resize event comes (`screen.c:328`), and the display keeps its size: in a screen of 9 x 6, a turn from 3 x 6 to 4 x 7. |
| `EveryUsedObjectLives` | `MCClientSession.cfg` | The end destroys an object after the threads that use it are joined, "because otherwise the screen could receive new frames after destruction" (`scrcpy.c:986`, of the screen). Not so `acksync`: the receiver acknowledges through it (`receiver.c:111`), and it is destroyed at `scrcpy.c:981`, before the controller, and with it the receiver, is joined (`:994`). |
| `FpsIsInterrupted` | `MCClientSession.cfg` | "interrupted must be set by the thread calling join()" (`fps_counter.c:154`). An FPS counter that is started again in the disconnected dialog is joined without having been interrupted; `FpsForgotten` excuses it in `TeardownEnds`. |

Seen while modelling, with nothing promised to the contrary:

- The goroutine that waits for `sendFatal` outlives every speaker session without
  a failed write (`controller.go:923`); a publisher that comes after the hub has
  stopped blocks (`hub.go:548`).
- `sc_timeout_start` creates its thread before it stores the deadline and the
  callbacks the thread reads (`timeout.c:46`), and `on_timeout` runs also when the
  timeout was stopped.
- `acksync` is not destroyed when the USB device is not found (`scrcpy.c:613`).
- The mouse wheel handler tests the keyboard processor before it uses the mouse
  processor (`input_manager.c:1014`).
- A Wi-Fi session with control only leaves `device_name` unset and logs it
  (`server.c:700`); `--kill-adb-on-close` has no effect in Wi-Fi mode, and
  `--list-*` in Wi-Fi mode connects instead of listing.
- The early returns of `sc_v4l2_sink_open` (`v4l2_sink.c:179`) leave mutex and
  condition behind.
- An adb reverse rule stays when the thread is interrupted before it removes it.
- OTG accepts a camera source together with AOA input, and then ignores all input;
  the camera's torch key works while paused.
- Keys released while paused stay pressed on the device.

## 7. What is not modelled

- *Server:* the screen demuxer's registration of handlers after `Run`
  (`controller.go:1488`), the mic and camera captures' pipes to child processes,
  discovery, the log file, packages that nothing calls. `ServerController` takes
  from them that a capture ends, and that a header arrives whenever it does.
- *Phone:* the Android daemon and app, and the upstream scrcpy server: the
  environment of every model here (dials, failures, answers, frames in order).
- *Client:* rendering, textures, platform layers, the tables of key codes; the
  bytes of packets, control messages and HID reports; the text of adb's output and
  of the server's command line; the numbers, names and help of the options;
  high-density displays; the mean buffering that steers the compensation (its sign
  is free).
- Dashboard rendering, metrics, logging, pings and deadlines of WebSockets (whose
  effect is a `Teardown` at any time), packaging, tray and start-up.
- Data races as the C standard has them: an access without a lock is an
  interleaving here. `recorder->ctx` (`recorder.c:143, 558`) and the flags of the
  FPS counter are accessed in this way.

## 8. What could come next

1. `ScreenCapture`: demuxer, handler registration, stop and pipeline over
   `ScreenHub`; `MicCapture` and `CameraCapture` with their deferred closes.
2. `AdbLease` (`AllRelayService.kt`) composed with `ADBMonitor`; the accept loops
   of `Server.java` and the encoder's reset loop.
