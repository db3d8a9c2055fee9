------------------------------ MODULE VideoPath ------------------------------
(***************************************************************************)
(* From a decoded frame to the window: the decoder (decoder.c) pushes each *)
(* frame to its sinks in turn (trait/frame_source.c): the screen, directly *)
(* or behind a delay buffer (delay_buffer.c), and the V4L2 loopback device *)
(* (v4l2_sink.c).  The screen and the V4L2 sink each keep one pending      *)
(* frame (frame_buffer.c); the main thread takes the screen's when it      *)
(* handles the event that announces it, pauses, rotates, and resizes the   *)
(* window for the content (screen.c).                                      *)
(*                                                                         *)
(* Four threads: the demuxer (which runs the decoder), the buffering       *)
(* thread, the V4L2 thread and the main thread.  An action is what one     *)
(* does under a mutex, or between two such sections.  A size is a value of *)
(* Sizes; what the window shows is a size and an orientation; a window is  *)
(* described by the content its size was last computed for.  A delay is    *)
(* over at any time.  --flex-display is off.                               *)
(***************************************************************************)
EXTENDS Naturals, Sequences, FiniteSets, SequencesExt

CONSTANTS
  Sizes,        \* frame sizes
  FirstSize,    \* the one the device starts with
  Modes,        \* SDL's flags of a window that cannot be resized: fullscreen,
                \* maximized, minimized
  None,         \* no frame
  MaxFrames,    \* bound: frames the device sends
  MaxSessions,  \* bound: sessions it starts after the first one
  MaxInputs,    \* bound: what the user does to the window
  Failing       \* BOOLEAN: SDL_PushEvent or the opening of the V4L2 device may
                \* fail, once, and its thread may

Orientations == {"upright", "swapped"}   \* sc_orientation_is_swap
Sessions == [size : Sizes, resized : BOOLEAN]
Frames == [n : 1..MaxFrames, session : Sessions]

ASSUME VideoAssumption ==
  /\ {MaxFrames, MaxSessions, MaxInputs} \subseteq Nat
  /\ FirstSize \in Sizes /\ Failing \in BOOLEAN /\ None \notin Frames

VARIABLES
  delayed,    \* options->video_buffer: the screen is behind a delay buffer
  session,    \* the session the device is in
  sent, begun,\* bound: frames and sessions it has sent
  demuxer,    \* where the thread that pushes to the decoder's sinks is
  item,       \* the frame it pushes
  db,         \* the delay buffer: queue, stopped, and the clock's range > 0
  buffering,  \* where the buffering thread is
  held,       \* the packet it has taken
  sink,       \* the screen's sink: its pending frame fb, prevent_auto_resize,
              \* current_session, and the last frame it was given
  v4l2,       \* the V4L2 sink: fb, has_frame, stopped, header_written
  writer,     \* where its thread is
  taken,      \* the frame that thread encodes
  ui,         \* the screen, as the main thread sees it
  window,     \* SDL's flags, and the content the window was sized for
  events,     \* the SDL event queue
  inputs,     \* bound
  failed      \* history: a push has failed

producing == <<delayed, session, sent, begun, demuxer, item>>
delaying == <<db, buffering, held>>
looping == <<v4l2, writer, taken>>
showing == <<ui, window, inputs>>
vars == <<producing, delaying, sink, looping, showing, events, failed>>

Content(size, orientation) == <<size, orientation>>
(* get_oriented_size: the content a frame of this size makes. *)

MayFail == Failing /\ ~failed

Windowed == window.flags = {}   \* is_windowed

Init ==
  /\ delayed \in BOOLEAN
  /\ session = [size |-> FirstSize, resized |-> FALSE]
  /\ sent = 0 /\ begun = 0 /\ demuxer = "open" /\ item = None
  /\ db = [queue |-> <<>>, stopped |-> FALSE, clocked |-> FALSE]
  /\ buffering = "off" /\ held = None
  /\ sink = [fb |-> None, prevent |-> FALSE, session |-> session, last |-> 0,
             open |-> FALSE]
  /\ v4l2 = [fb |-> None, has |-> FALSE, stopped |-> FALSE, header |-> FALSE,
             last |-> 0]
  /\ writer = "off" /\ taken = None
  /\ ui = [shown |-> 0, resume |-> None, paused |-> FALSE, windowShown |-> FALSE,
           size |-> FirstSize, orientation |-> "upright",
           content |-> Content(FirstSize, "upright"), pending |-> FALSE,
           owed |-> Content(FirstSize, "upright")]
  /\ window = [flags |-> {}, fitted |-> ui.content]
  /\ events = <<>> /\ inputs = 0 /\ failed = FALSE

-----------------------------------------------------------------------------
(* sc_decoder_open: the sinks are opened in the order they were added.     *)

(* sc_screen_frame_sink_open and, in front of it, the delay buffer's open,
   which starts the buffering thread once the screen is open. *)
OpenScreen ==
  /\ demuxer = "open"
  /\ sink' = [sink EXCEPT !.open = TRUE, !.session = session]
  /\ ui' = [ui EXCEPT !.size = session.size,
                      !.content = Content(session.size, ui.orientation)]
  /\ events' = Append(events, "open")
  /\ buffering' = IF delayed THEN "idle" ELSE "off"
  /\ demuxer' = "open v4l2"
  /\ UNCHANGED <<delayed, session, sent, begun, item, db, held, looping,
                 window, inputs, failed>>

(* The size is invalid, or SC_EVENT_OPEN_WINDOW cannot be posted. *)
OpenScreenFails ==
  /\ demuxer = "open" /\ MayFail
  /\ demuxer' = "ended" /\ failed' = TRUE
  /\ UNCHANGED <<delayed, session, sent, begun, item, delaying, sink, looping,
                 showing, events>>

(* sc_v4l2_sink_open; when it fails the sinks before it are closed. *)
OpenV4l2 ==
  /\ demuxer = "open v4l2"
  /\ \/ demuxer' = "recv" /\ writer' = "idle" /\ UNCHANGED failed
     \/ /\ MayFail
        /\ demuxer' = "close delay" /\ failed' = TRUE /\ UNCHANGED writer
  /\ UNCHANGED <<delayed, session, sent, begun, item, delaying, sink, v4l2,
                 taken, showing, events>>

(* Mutant: the delay buffer passes sessions on at once, past the frames it
   holds. *)
ReceiveSessionAtOnce ==
  /\ demuxer = "recv" /\ begun < MaxSessions
  /\ \E s \in Sessions \ {session} :
       session' = s /\ sink' = [sink EXCEPT !.session = s]
  /\ begun' = begun + 1
  /\ UNCHANGED <<delayed, sent, demuxer, item, delaying, looping, showing, events,
                 failed>>

(* A session packet: sc_decoder_push_session.  The delay buffer queues it;
   the V4L2 sink has no push_session. *)
ReceiveSession ==
  /\ demuxer = "recv" /\ begun < MaxSessions
  /\ \E s \in Sessions \ {session} :
       /\ session' = s
       /\ begun' = begun + 1
       /\ IF ~delayed
          THEN /\ sink' = [sink EXCEPT !.session = s]
               /\ UNCHANGED <<db, demuxer, failed>>
          ELSE IF db.stopped
          THEN demuxer' = "close v4l2" /\ failed' = TRUE /\ UNCHANGED <<db, sink>>
          ELSE /\ db' = [db EXCEPT !.queue = Append(@, [kind |-> "session",
                                                        session |-> s])]
               /\ UNCHANGED <<sink, demuxer, failed>>
  /\ UNCHANGED <<delayed, sent, item, buffering, held, looping, showing, events>>

(* sc_decoder_push: a packet that gives one frame, of the session's size.  A
   config packet, or one the codec keeps, changes nothing. *)
ReceiveFrame ==
  /\ demuxer = "recv" /\ sent < MaxFrames
  /\ sent' = sent + 1
  /\ item' = [n |-> sent + 1, session |-> session]
  /\ demuxer' = IF delayed THEN "delay" ELSE "screen"
  /\ UNCHANGED <<delayed, session, begun, delaying, sink, looping, showing,
                 events, failed>>

(* Mutant: a frame is not delayed when the queue is empty. *)
AsapIfEmpty == db.queue = <<>>

(* The first frame is not delayed (first_frame_asap). *)
Asap == ~db.clocked

(* sc_delay_buffer_frame_sink_push *)
PushDelayed ==
  /\ demuxer = "delay"
  /\ IF db.stopped
     THEN demuxer' = "close v4l2" /\ failed' = TRUE /\ UNCHANGED db
     ELSE /\ db' = [db EXCEPT !.clocked = TRUE,
                              !.queue = IF Asap THEN @
                                 ELSE Append(@, [kind |-> "frame", frame |-> item])]
          /\ demuxer' = IF Asap THEN "screen" ELSE "v4l2"
          /\ UNCHANGED failed
  /\ UNCHANGED <<delayed, session, sent, begun, item, buffering, held, sink,
                 looping, showing, events>>

-----------------------------------------------------------------------------
(* sc_screen_frame_sink_push, from the demuxer's or the buffering thread.  *)

(* Mutant: a frame that has not been consumed is announced again. *)
AlwaysAnnounce == TRUE

(* The frame to put in the frame buffer is announced unless the one it
   replaces still is (previous_skipped). *)
MustAnnounce == sink.fb = None

(* The section under the screen's mutex: the newest frame replaces the pending
   one (sc_frame_buffer_push). *)
PushFrame(f) ==
  sink' = [sink EXCEPT !.fb = f, !.prevent = sink.session.resized, !.last = f.n]

ScreenPush ==
  /\ demuxer = "screen"
  /\ PushFrame(item)
  /\ demuxer' = IF MustAnnounce THEN "event" ELSE "v4l2"
  /\ UNCHANGED <<delayed, session, sent, begun, item, delaying, looping, showing,
                 events, failed>>

(* sc_push_event(SC_EVENT_NEW_FRAME), after the mutex was unlocked *)
PostFrame ==
  /\ demuxer = "event"
  /\ \/ events' = Append(events, "frame") /\ demuxer' = "v4l2" /\ UNCHANGED failed
     \/ /\ MayFail
        /\ demuxer' = "close v4l2" /\ failed' = TRUE /\ UNCHANGED events
  /\ UNCHANGED <<delayed, session, sent, begun, item, delaying, sink, looping,
                 showing>>

(* run_buffering: the thread takes the next packet ... *)
BufferTakes ==
  /\ buffering = "idle" /\ ~db.stopped /\ db.queue # <<>>
  /\ held' = Head(db.queue)
  /\ db' = [db EXCEPT !.queue = Tail(@)]
  /\ buffering' = IF held'.kind = "frame" THEN "wait" ELSE "session"
  /\ UNCHANGED <<producing, sink, looping, showing, events, failed>>

(* ... pushes a session at once ... *)
BufferPushesSession ==
  /\ buffering = "session"
  /\ sink' = [sink EXCEPT !.session = held.session]
  /\ held' = None /\ buffering' = "idle"
  /\ UNCHANGED <<producing, db, looping, showing, events, failed>>

(* ... and a frame after its delay, unless it is stopped while it waits. *)
BufferPushesFrame ==
  /\ buffering = "wait" /\ ~db.stopped
  /\ PushFrame(held.frame)
  /\ held' = None
  /\ buffering' = IF MustAnnounce THEN "event" ELSE "idle"
  /\ UNCHANGED <<producing, db, looping, showing, events, failed>>

(* When the push fails the thread stops the buffer itself. *)
BufferPostsFrame ==
  /\ buffering = "event"
  /\ \/ events' = Append(events, "frame") /\ buffering' = "idle" /\ UNCHANGED <<db, failed>>
     \/ /\ MayFail
        /\ db' = [db EXCEPT !.stopped = TRUE, !.queue = <<>>]
        /\ buffering' = "ended" /\ failed' = TRUE /\ UNCHANGED events
  /\ UNCHANGED <<producing, held, sink, looping, showing>>

BufferEnds ==
  /\ buffering \in {"idle", "wait"} /\ db.stopped
  /\ buffering' = "ended" /\ held' = None
  /\ db' = [db EXCEPT !.queue = <<>>]
  /\ UNCHANGED <<producing, sink, looping, showing, events, failed>>

-----------------------------------------------------------------------------
(* v4l2_sink.c                                                             *)

(* sc_v4l2_sink_push: also when the thread has ended on an error *)
V4l2Push ==
  /\ demuxer = "v4l2"
  /\ v4l2' = [v4l2 EXCEPT !.fb = item, !.has = @ \/ v4l2.fb = None]
  /\ item' = None /\ demuxer' = "recv"
  /\ UNCHANGED <<delayed, session, sent, begun, delaying, sink, writer, taken,
                 showing, events, failed>>

V4l2Takes ==
  /\ writer = "idle" /\ ~v4l2.stopped /\ v4l2.has
  /\ taken' = v4l2.fb
  /\ v4l2' = [v4l2 EXCEPT !.fb = None, !.has = FALSE]
  /\ writer' = "write"
  /\ UNCHANGED <<producing, delaying, sink, showing, events, failed>>

(* encode_and_write_frame: the first packet becomes the header. *)
V4l2Writes ==
  /\ writer = "write"
  /\ \/ /\ writer' = "idle"
        /\ v4l2' = [v4l2 EXCEPT !.header = TRUE,
                                !.last = IF v4l2.header THEN taken.n ELSE @]
     \/ Failing /\ writer' = "ended" /\ UNCHANGED v4l2
  /\ taken' = None
  /\ UNCHANGED <<producing, delaying, sink, showing, events, failed>>

V4l2Ends ==
  /\ writer = "idle" /\ v4l2.stopped
  /\ writer' = "ended"
  /\ UNCHANGED <<producing, delaying, sink, v4l2, taken, showing, events, failed>>

-----------------------------------------------------------------------------
(* The end of the stream: sc_frame_source_sinks_close, last sink first.    *)

EndOfStream ==
  /\ demuxer = "recv"
  /\ demuxer' = "close v4l2"
  /\ UNCHANGED <<delayed, session, sent, begun, item, delaying, sink, looping,
                 showing, events, failed>>

CloseV4l2 ==
  /\ demuxer = "close v4l2"
  /\ v4l2' = [v4l2 EXCEPT !.stopped = TRUE]
  /\ demuxer' = "join v4l2"
  /\ UNCHANGED <<delayed, session, sent, begun, item, delaying, sink, writer,
                 taken, showing, events, failed>>

(* sc_delay_buffer_frame_sink_close, or the close of the screen's sink *)
JoinV4l2 ==
  /\ demuxer = "join v4l2" /\ writer = "ended"
  /\ demuxer' = "close delay"
  /\ UNCHANGED <<delayed, session, sent, begun, item, delaying, sink, looping,
                 showing, events, failed>>

(* Mutant: the buffer is closed without setting stopped. *)
CloseDelaySilently ==
  /\ demuxer = "close delay"
  /\ demuxer' = "join delay"
  /\ UNCHANGED <<delayed, session, sent, begun, item, delaying, sink, looping,
                 showing, events, failed>>

CloseDelay ==
  /\ demuxer = "close delay"
  /\ db' = [db EXCEPT !.stopped = TRUE]
  /\ demuxer' = "join delay"
  /\ UNCHANGED <<delayed, session, sent, begun, item, buffering, held, sink,
                 looping, showing, events, failed>>

JoinDelay ==
  /\ demuxer = "join delay" /\ buffering \in {"off", "ended"}
  /\ sink' = [sink EXCEPT !.open = FALSE]
  /\ demuxer' = "ended"
  /\ UNCHANGED <<delayed, session, sent, begun, item, delaying, looping, showing,
                 events, failed>>

-----------------------------------------------------------------------------
(* screen.c: the main thread.  ui.owed is history: the content the window  *)
(* should have been sized for, that of the last change it should follow, or *)
(* the one there was when a resize that had to wait was made up for.       *)

(* set_content_size: the window follows at once, or once it is windowed. *)
SetContentSize(u, content, resize) ==
  [u EXCEPT !.content = content,
            !.pending = @ \/ (resize /\ ~Windowed),
            !.owed = IF resize THEN content ELSE @]

Fit(content, resize) ==
  window' = [window EXCEPT !.fitted = IF resize /\ Windowed THEN content ELSE @]

(* Mutant: the content is taken from the frame, without the orientation. *)
AppliedUpright(u, f, resize) ==
  LET content == Content(f.session.size, "upright")
      changed == f.session.size # u.size
  IN [(IF changed THEN SetContentSize(u, content, resize) ELSE u)
        EXCEPT !.shown = f.n, !.size = f.session.size]

(* sc_screen_apply_frame, with u the screen and f its frame *)
Applied(u, f, resize) ==
  LET content == Content(f.session.size, u.orientation)
      changed == f.session.size # u.size
  IN [(IF changed THEN SetContentSize(u, content, resize) ELSE u)
        EXCEPT !.shown = f.n, !.size = f.session.size]

ApplyFrame(u, f, resize) ==
  /\ ui' = Applied(u, f, resize)
  /\ Fit(ui'.content, resize /\ f.session.size # u.size)

(* SC_EVENT_OPEN_WINDOW: sc_screen_show_initial_window *)
OpenWindow ==
  /\ events # <<>> /\ Head(events) = "open"
  /\ ui' = [ui EXCEPT !.windowShown = TRUE, !.owed = ui.content]
  /\ Fit(ui.content, TRUE)
  /\ events' = Tail(events)
  /\ UNCHANGED <<producing, delaying, sink, looping, inputs, failed>>

(* Mutant: frames that come while the screen is paused are dropped. *)
NewFrameUnlessPaused ==
  /\ events # <<>> /\ Head(events) = "frame" /\ sink.fb # None
  /\ IF ui.paused THEN UNCHANGED <<ui, window>>
     ELSE ApplyFrame(ui, sink.fb, ~sink.prevent)
  /\ sink' = [sink EXCEPT !.fb = None]
  /\ events' = Tail(events)
  /\ UNCHANGED <<producing, delaying, looping, inputs, failed>>

(* SC_EVENT_NEW_FRAME: sc_screen_update_frame.  While paused the frame is
   kept for later. *)
NewFrame ==
  /\ events # <<>> /\ Head(events) = "frame" /\ sink.fb # None
  /\ IF ui.paused
     THEN ui' = [ui EXCEPT !.resume = sink.fb] /\ UNCHANGED window
     ELSE ApplyFrame(ui, sink.fb, ~sink.prevent)
  /\ sink' = [sink EXCEPT !.fb = None]
  /\ events' = Tail(events)
  /\ UNCHANGED <<producing, delaying, looping, inputs, failed>>

(* SDL_EVENT_WINDOW_LEAVE_FULLSCREEN and SDL_EVENT_WINDOW_RESTORED:
   apply_pending_resize *)
LeaveMode ==
  /\ events # <<>> /\ Head(events) = "leave"
  /\ Fit(ui.content, ui.pending)
  /\ ui' = [ui EXCEPT !.pending = @ /\ ~Windowed,
                      !.owed = IF ui.pending /\ Windowed THEN ui.content ELSE @]
  /\ events' = Tail(events)
  /\ UNCHANGED <<producing, delaying, sink, looping, inputs, failed>>

Input == ui.windowShown /\ inputs < MaxInputs /\ inputs' = inputs + 1

(* MOD+z, MOD+Shift+z: sc_screen_set_paused.  A frame kept while paused is
   shown, even if the screen stays paused. *)
SetPaused(paused) ==
  /\ Input
  /\ paused \/ ui.paused
  /\ LET u == [ui EXCEPT !.paused = paused, !.resume = None]
     IN IF ui.paused /\ ui.resume # None
        THEN ApplyFrame(u, ui.resume, TRUE)
        ELSE ui' = [ui EXCEPT !.paused = paused] /\ UNCHANGED window
  /\ UNCHANGED <<producing, delaying, sink, looping, events, failed>>

(* sc_screen_set_orientation *)
SetOrientation(o) ==
  /\ Input /\ o # ui.orientation
  /\ LET content == Content(ui.size, o)
     IN /\ ui' = [SetContentSize(ui, content, TRUE) EXCEPT !.orientation = o]
        /\ Fit(content, TRUE)
  /\ UNCHANGED <<producing, delaying, sink, looping, events, failed>>

(* The user, or the window manager, changes the window's mode
   (sc_screen_toggle_fullscreen); SDL announces that it was left. *)
Toggle(mode) ==
  /\ Input
  /\ IF mode \in window.flags
     THEN /\ window' = [window EXCEPT !.flags = @ \ {mode}]
          /\ events' = Append(events, "leave")
     ELSE window' = [window EXCEPT !.flags = @ \cup {mode}] /\ UNCHANGED events
  /\ UNCHANGED <<producing, delaying, sink, looping, ui, failed>>

-----------------------------------------------------------------------------
Demuxer ==
  \/ OpenScreen \/ OpenScreenFails \/ OpenV4l2 \/ PushDelayed \/ ScreenPush \/ PostFrame \/ V4l2Push
  \/ CloseV4l2 \/ JoinV4l2 \/ CloseDelay \/ JoinDelay
Device == ReceiveSession \/ ReceiveFrame \/ EndOfStream
Buffering ==
  \/ BufferTakes \/ BufferPushesSession \/ BufferPushesFrame \/ BufferPostsFrame
  \/ BufferEnds
Writer == V4l2Takes \/ V4l2Writes \/ V4l2Ends
Main == OpenWindow \/ NewFrame \/ LeaveMode
User ==
  \/ \E paused \in BOOLEAN : SetPaused(paused)
  \/ \E o \in Orientations : SetOrientation(o)
  \/ \E mode \in Modes : Toggle(mode)

Next == Demuxer \/ Device \/ Buffering \/ Writer \/ Main \/ User

Spec == Init /\ [][Next]_vars

(* Threads run, delays pass, and the main loop handles its events; the device
   owes nothing and the user does nothing in particular. *)
FairSpec == Spec /\ WF_vars(Demuxer) /\ WF_vars(Buffering) /\ WF_vars(Writer)
                 /\ WF_vars(Main)

-----------------------------------------------------------------------------
Announced == Cardinality({i \in DOMAIN events : events[i] = "frame"})
           + (IF demuxer = "event" THEN 1 ELSE 0)
           + (IF buffering = "event" THEN 1 ELSE 0)

(* The assertion of sc_frame_buffer_consume never fails: the event that makes
   the main thread take a frame, and has_frame for the V4L2 thread, are there
   exactly once for each pending frame, although the event is posted after the
   mutex was unlocked. *)
OneAnnouncementPerFrame ==
  /\ v4l2.has <=> v4l2.fb # None
  /\ sink.fb = None => Announced = 0
  /\ sink.fb # None => Announced = 1 \/ (failed /\ Announced = 0)

(* The window is resized for every content change that should resize it, and for
   no other; also for the ones that came while it was maximized or fullscreen, as
   soon as SDL's event for the end of that mode is handled. *)
NoResizeLost ==
  Windowed /\ ui.windowShown /\ ~Contains(events, "leave")
    => window.fitted = ui.owed

(* What the screen shows, and the size that clicks are converted with, belong
   together whatever the order of rotations, pauses and new frames. *)
ContentIsFrame ==
  ui.windowShown => ui.content = Content(ui.size, ui.orientation)

(* The window, its content and the frame on it agree. *)
WindowFollowsContent == NoResizeLost /\ ContentIsFrame

(* A window that is resized because of a frame is resized according to the
   session the frame belongs to: the sinks see sessions and frames in order.
   Only the first frame, which is not delayed, may overtake a session. *)
FrameKeepsItsSession ==
  sink.fb # None /\ sink.fb.n > 1 => sink.prevent = sink.fb.session.resized

(* The screen and the V4L2 device never go back to an older frame: not through
   the delay, not through a pause, not through a frame kept while paused. *)
NeverAnOlderFrame ==
  [][ui'.shown >= ui.shown /\ v4l2'.last >= v4l2.last /\ sink'.last >= sink.last]_vars

(* The screen ends up with the last frame its sink was given (frame_buffer.h:
   "to always provide access to the very last frame"), on display or kept for
   the end of the pause. *)
LastFrameArrives ==
  demuxer = "ended" /\ ~failed
    ~> sink.last \in {ui.shown, IF ui.resume = None THEN 0 ELSE ui.resume.n}

(* Closing the stream ends: nobody joins a thread that waits for a frame. *)
StreamCloses == demuxer = "close v4l2" ~> demuxer = "ended"
=============================================================================
