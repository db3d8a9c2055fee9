--------------------------- MODULE ClientSession ---------------------------
(***************************************************************************)
(* One run of the client: main() parses the command line and runs scrcpy() *)
(* (scrcpy.c), or scrcpy_otg() (usb/scrcpy_otg.c), which initializes what   *)
(* the options ask for, starts a thread for each part, handles events, and *)
(* then stops, joins and destroys everything in an order of its own,       *)
(* whatever step the initialization stopped at.                            *)
(*                                                                         *)
(* The parts' own work is in other modules; here are their lives: which    *)
(* thread runs, what makes it end, which event it posts, which objects it  *)
(* uses.  The server thread is the abstract one of ServerThread, which     *)
(* ServerLink implements.                                                  *)
(***************************************************************************)
EXTENDS CommandLine, Naturals, Sequences, SequencesExt

CONSTANTS
  CommandLines, \* the command lines tried
  Followed      \* bound: the sets of features whose session is explored,
                \* whether audio is required or not

VARIABLES
  given,    \* the command line, until it is parsed
  opt,      \* the features of the session
  main,     \* the main thread: its phase, and the step of the phase
  did,      \* the "..._initialized" and "..._started" flags
  made,     \* the objects initialized and not destroyed
  threads,  \* the threads that run
  told,     \* the parts that have been told to stop
  link,     \* what the server thread has done: the phase of ServerThread
  event,    \* the first event for the main thread that decides something
  shown,    \* screen.window_shown
  fps,      \* the FPS counter: thread created, started, interrupted
  gone      \* the device has left, or stopped the server

vars == <<given, opt, main, did, made, threads, told, link, event, shown, fps, gone>>

Server == INSTANCE ServerThread WITH
  phase <- link, running <- "server" \in threads, stopped <- "server" \in told

Features(o) ==
  {f \in {"video", "audio", "require_audio", "control", "window", "record",
          "v4l2", "otg", "time_limit", "list"} : o[f]}
  \cup (IF o.video_playback THEN {"playback"} ELSE {})
  \cup (IF o.control /\ ~o.otg /\ "aoa" \in {o.keyboard, o.mouse, o.gamepad}
        THEN {"aoa"} ELSE {})

-----------------------------------------------------------------------------
(* The initialization, in order; a step is passed over when nobody asked for
   it.  A step is named for the object it initializes or the threads it
   starts. *)
ScrcpySteps == <<
  "server_thread", "connection", "file_pusher", "recorder", "recorder_thread",
  "controller", "acksync", "usb", "usb_device", "usb_handle", "aoa", "aoa_thread",
  "controller_threads",
  "screen", "v4l2", "video_demuxer", "audio_demuxer", "timeout", "timeout_thread">>

OtgSteps == <<"usb", "usb_device", "usb_handle", "aoa", "aoa_thread", "screen">>

Asked(step) ==
  CASE step = "file_pusher" -> {"window", "control"} \subseteq opt
    [] step \in {"recorder", "recorder_thread"} -> "record" \in opt
    [] step \in {"controller", "controller_threads"} -> "control" \in opt
    [] step \in {"acksync", "usb", "usb_device", "usb_handle", "aoa", "aoa_thread"} ->
         opt \cap {"aoa", "otg"} # {}
    [] step = "screen" -> opt \cap {"window", "otg"} # {}
    [] step = "v4l2" -> "v4l2" \in opt
    [] step = "video_demuxer" -> "video" \in opt
    [] step = "audio_demuxer" -> "audio" \in opt
    [] step \in {"timeout", "timeout_thread"} -> "time_limit" \in opt

(* --list-* ends with the answer of the server. *)
Wanted(step) == IF step \in {"server_thread", "connection"} THEN TRUE
                ELSE ("list" \in opt => "otg" \in opt) /\ Asked(step)

Steps == IF "otg" \in opt THEN OtgSteps ELSE ScrcpySteps

ObjectOf(step) ==
  {step} \cap {"file_pusher", "recorder", "controller", "acksync", "usb", "usb_handle",
               "aoa", "screen", "v4l2", "timeout"}

ThreadsOf(step) ==
  CASE step = "server_thread" -> {"server"}
    [] step = "recorder_thread" -> {"recorder"}
    [] step = "controller_threads" -> {"controller", "receiver"}
    [] step = "aoa_thread" -> {"aoa"}
    [] step = "timeout_thread" -> {"timeout"}
    [] step \in {"video_demuxer", "audio_demuxer"} -> {step}
    [] OTHER -> {}

(* Mutant: a failed step leaves the end to clean up. *)
UndoneLater(step) == {}

(* What a failed step destroys on the spot, before the jump to the end.
   (When the USB device is not found, acksync is forgotten.) *)
Undone(step) ==
  IF "otg" \in opt THEN {}
  ELSE CASE step = "usb" -> {"acksync"}
         [] step = "usb_device" -> {"usb"}
         [] step = "usb_handle" -> {"usb", "acksync"}
         [] step = "aoa" -> {"usb_handle", "usb", "acksync"}
         [] step = "aoa_thread" -> {"acksync", "usb_handle", "usb", "aoa"}
         [] OTHER -> {}

(* The end, in order: what is done, to what, and the flag it depends on. *)
ScrcpyEnd == <<
  <<"stop", "timeout", "timeout_thread">>,
  <<"stop", "aoa", "aoa_thread">>,
  <<"stop", "controller", "controller_threads">>,
  <<"stop", "file_pusher", "file_thread">>,
  <<"stop", "recorder", "recorder">>,
  <<"interrupt", "fps", "screen">>,
  <<"stop", "server", "server_thread">>,
  <<"dialog", "screen", "screen">>,
  <<"join", "timeout", "timeout_thread">>,
  <<"destroy", "timeout", "timeout">>,
  <<"join", "video_demuxer", "video_demuxer">>,
  <<"join", "audio_demuxer", "audio_demuxer">>,
  <<"destroy", "v4l2", "v4l2">>,
  <<"join", "aoa", "aoa_thread">>,
  <<"destroy", "aoa", "aoa_thread">>,
  <<"destroy", "usb_handle", "aoa_thread">>,
  <<"destroy", "usb", "aoa_thread">>,
  <<"destroy", "acksync", "aoa_thread">>,
  <<"join", "fps", "screen">>,
  <<"join", "disconnect", "disconnect">>,
  <<"destroy", "screen", "screen">>,
  <<"join", "controller", "controller_threads">>,
  <<"join", "receiver", "controller_threads">>,
  <<"destroy", "controller", "controller">>,
  <<"join", "recorder", "recorder_thread">>,
  <<"destroy", "recorder", "recorder">>,
  <<"join", "file_pusher", "file_thread">>,
  <<"destroy", "file_pusher", "file_pusher">>,
  <<"join", "server", "server_thread">>>>

OtgEnd == <<
  <<"stop", "aoa", "aoa_thread">>,
  <<"stop", "usb_events", "usb_callback">>,
  <<"interrupt", "fps", "screen">>,
  <<"dialog", "screen", "screen">>,
  <<"join", "aoa", "aoa">>,
  <<"destroy", "aoa", "aoa">>,
  <<"join", "usb_events", "usb_callback">>,
  <<"destroy", "usb_handle", "usb_handle">>,
  <<"destroy", "usb", "usb">>,
  <<"join", "fps", "screen">>,
  <<"join", "disconnect", "disconnect">>,
  <<"destroy", "screen", "screen">>>>

Applies(duty) == duty[3] \in did

(* Mutant: everything is destroyed before the first thread is joined. *)
EndingJoinsLast ==
  LET all == IF "otg" \in opt THEN OtgEnd ELSE ScrcpyEnd
  IN SelectSeq(all, LAMBDA duty : duty[1] # "join")
     \o SelectSeq(all, LAMBDA duty : duty[1] = "join")

Ending == IF "otg" \in opt THEN OtgEnd ELSE ScrcpyEnd

(* The AOA thread waits on acksync for what the receiver acknowledges (in OTG
   there is none). *)
WithAcks == "aoa" \in opt /\ "otg" \notin opt

(* The objects a thread may touch as long as it runs. *)
Uses(thread) ==
  CASE thread = "video_demuxer" ->
         (IF "playback" \in opt THEN {"screen"} ELSE {})
         \cup (opt \cap {"v4l2"})
         \cup (IF "record" \in opt THEN {"recorder"} ELSE {})
    [] thread = "audio_demuxer" -> IF "record" \in opt THEN {"recorder"} ELSE {}
    [] thread = "controller" -> {"controller"}
    [] thread = "receiver" -> {"controller"} \cup (IF WithAcks THEN {"acksync"} ELSE {})
    [] thread = "aoa" -> {"aoa", "usb_handle", "usb"} \cup (IF WithAcks THEN {"acksync"} ELSE {})
    [] thread = "usb_events" -> {"usb", "usb_handle"}
    [] thread \in {"fps", "disconnect"} -> {"screen"}
    [] thread \in {"recorder", "timeout", "file_pusher"} -> {thread}
    [] OTHER -> {}

-----------------------------------------------------------------------------
In(phase) == main.phase = phase
Enter(phase) == main' = [main EXCEPT !.phase = phase, !.i = 1]
AdvancePast(j) == main' = [main EXCEPT !.i = j + 1]

(* sc_push_event: only the first deciding event matters, since the event
   loop returns on it; nobody reads the queue later, except the dialog. *)
Post(e) ==
  event' = IF event = "none" /\ (main.phase \in {"up", "loop"} \/ e = "dis_timeout")
           THEN e ELSE event

Init ==
  /\ given \in CommandLines
  /\ opt = {}
  /\ main = [phase |-> "parse", i |-> 1, lost |-> FALSE, failed |-> "none"]
  /\ did = {} /\ made = {} /\ threads = {} /\ told = {}
  /\ link = "starting"
  /\ event = "none"
  /\ shown = FALSE
  /\ fps = [created |-> FALSE, started |-> FALSE, interrupted |-> FALSE]
  /\ gone = FALSE

(* scrcpy_parse_args(), then main() calls scrcpy() or scrcpy_otg(). *)
Parse ==
  /\ In("parse")
  /\ given' = {}
  /\ IF Accepted(given)
     THEN /\ opt' = Features(Parsed(given))
          /\ opt' \ {"require_audio"} \in Followed
          /\ Enter("up")
     ELSE Enter("done") /\ UNCHANGED opt
  /\ UNCHANGED <<did, made, threads, told, link, event, shown, fps, gone>>

(* The next step that is wanted. *)
NextStep(j) == /\ j \in main.i .. Len(Steps) /\ Wanted(Steps[j])
               /\ \A k \in main.i .. j - 1 : ~Wanted(Steps[k])

(* sc_screen_init shows the window at once if there is no video to wait for;
   sc_usb_connect starts a thread for the events only if it has a callback,
   and goes on without it if it cannot. *)
InitializeOne ==
  /\ In("up")
  /\ \E j \in DOMAIN Steps :
       LET step == Steps[j] IN
       /\ NextStep(j) /\ step # "connection"
       /\ \E callback \in IF step = "usb_handle" /\ "otg" \in opt THEN BOOLEAN ELSE {FALSE} :
            /\ threads' = threads \cup ThreadsOf(step)
                          \cup (IF callback THEN {"usb_events"} ELSE {})
            /\ did' = did \cup {step} \cup (IF callback THEN {"usb_callback"} ELSE {})
       /\ made' = made \cup ObjectOf(step)
       /\ shown' = (shown \/ (step = "screen" /\ "playback" \notin opt))
       /\ AdvancePast(j)
  /\ UNCHANGED <<given, opt, told, link, event, fps, gone>>

(* goto end *)
StepFails ==
  /\ In("up")
  /\ \E j \in DOMAIN Steps :
       /\ NextStep(j) /\ Steps[j] # "connection"
       /\ made' = made \ Undone(Steps[j])
       /\ main' = [main EXCEPT !.phase = "down", !.i = 1, !.failed = Steps[j]]
  /\ UNCHANGED <<given, opt, did, threads, told, link, event, shown, fps, gone>>

(* await_for_server. *)
AwaitServer ==
  /\ In("up")
  /\ \E j \in DOMAIN Steps :
       /\ NextStep(j) /\ Steps[j] = "connection"
       /\ \/ event = "server_connected" /\ "list" \notin opt /\ AdvancePast(j)
          \/ event \in {"server_failed", "server_connected"} /\ "list" \in opt /\ Enter("down")
          \/ event = "server_failed" /\ "list" \notin opt /\ Enter("down")
          \/ Enter("down")                                  \* SDL_EVENT_QUIT
  /\ event' = "none"
  /\ UNCHANGED <<given, opt, did, made, threads, told, link, shown, fps, gone>>

EnterLoop ==
  /\ In("up") /\ \A j \in main.i .. Len(Steps) : ~Wanted(Steps[j])
  /\ Enter("loop")
  /\ UNCHANGED <<given, opt, did, made, threads, told, link, event, shown, fps, gone>>

-----------------------------------------------------------------------------
(* The event loop. *)

(* SC_EVENT_OPEN_WINDOW, posted by the video demuxer with the first session;
   --print-fps starts the counter then. *)
OpenWindow ==
  /\ In("loop") /\ "playback" \in opt /\ "video_demuxer" \in did /\ ~shown
  /\ shown' = TRUE
  /\ UNCHANGED <<given, opt, main, did, made, threads, told, link, event, fps, gone>>

(* The next duty of the end whose flag is set. *)
NextDuty(j) == /\ j \in main.i .. Len(Ending) /\ Applies(Ending[j])
               /\ \A k \in main.i .. j - 1 : ~Applies(Ending[k])

Doing(what, j) == Ending[j][1] = what /\ NextDuty(j)

InDialog == /\ In("down") /\ main.lost /\ "disconnect" \in did
            /\ \E j \in DOMAIN Ending : Doing("dialog", j)

(* sc_fps_counter_start, sc_fps_counter_stop: the thread is created when the
   counter is started for the first time, and kept. *)
StartFps(ok) ==
  /\ fps' = [created |-> fps.created \/ ok, started |-> TRUE, interrupted |-> FALSE]
  /\ threads' = threads \cup (IF fps.created \/ ~ok THEN {} ELSE {"fps"})

(* MOD+i, handled with or without a device, in the loop and in the dialog. *)
ToggleFps ==
  /\ In("loop") \/ InDialog
  /\ shown /\ "playback" \in opt
  /\ IF fps.started
     THEN fps' = [fps EXCEPT !.started = FALSE] /\ UNCHANGED threads
     ELSE \E ok \in BOOLEAN : StartFps(ok)
  /\ UNCHANGED <<given, opt, main, did, made, told, link, event, shown, gone>>

(* A file is dropped on the window: the thread of the file pusher starts with
   the first one. *)
DropFile ==
  /\ In("loop") /\ shown /\ "file_pusher" \in did /\ "file_thread" \notin did
  /\ did' = did \cup {"file_thread"}
  /\ threads' = threads \cup {"file_pusher"}
  /\ UNCHANGED <<given, opt, main, made, told, link, event, shown, fps, gone>>

(* The device is disconnected: the screen stops the FPS counter and starts
   the timer of the dialog, if its window is shown and that works. *)
HandleDisconnected ==
  /\ In("loop") /\ event = "disconnected"
  /\ main' = [main EXCEPT !.phase = "down", !.i = 1, !.lost = TRUE]
  /\ event' = "none"
  /\ IF "screen" \in did /\ shown
     THEN /\ fps' = [fps EXCEPT !.started = FALSE]
          /\ \E ok \in BOOLEAN :
               /\ did' = did \cup (IF ok THEN {"disconnect"} ELSE {})
               /\ threads' = threads \cup (IF ok THEN {"disconnect"} ELSE {})
     ELSE UNCHANGED <<fps, did, threads>>
  /\ UNCHANGED <<given, opt, made, told, link, shown, gone>>

(* Any other event that ends the loop, or the user closes the window. *)
LeaveLoop ==
  /\ In("loop") /\ event # "disconnected"
  /\ Enter("down")
  /\ event' = "none"
  /\ UNCHANGED <<given, opt, did, made, threads, told, link, shown, fps, gone>>

-----------------------------------------------------------------------------
(* The end. *)
(* Mutant: the server is left running. *)
StopOneButServer ==
  /\ In("down")
  /\ \E j \in DOMAIN Ending :
       /\ Doing("stop", j)
       /\ told' = told \cup ({Ending[j][2]} \ {"server"})
       /\ AdvancePast(j)
  /\ UNCHANGED <<given, opt, did, made, threads, link, event, shown, fps, gone>>

StopOne ==
  /\ In("down")
  /\ \E j \in DOMAIN Ending :
       /\ Doing("stop", j)
       /\ told' = told \cup {Ending[j][2]}
       /\ AdvancePast(j)
  /\ UNCHANGED <<given, opt, did, made, threads, link, event, shown, fps, gone>>

(* sc_screen_interrupt. *)
InterruptFps ==
  /\ In("down")
  /\ \E j \in DOMAIN Ending : Doing("interrupt", j) /\ AdvancePast(j)
  /\ fps' = [fps EXCEPT !.interrupted = @ \/ fps.created]
  /\ UNCHANGED <<given, opt, did, made, threads, told, link, event, shown, gone>>

(* sc_screen_handle_disconnection, until the timer or the user ends it, and
   sc_screen_hide_window. *)
EndDialog ==
  /\ In("down")
  /\ \E j \in DOMAIN Ending : Doing("dialog", j) /\ AdvancePast(j)
  /\ \/ ~(main.lost /\ "disconnect" \in did) /\ UNCHANGED told
     \/ event = "dis_timeout" /\ UNCHANGED told
     \/ /\ main.lost /\ "disconnect" \in did       \* SDL_EVENT_QUIT
        /\ told' = told \cup {"disconnect"}
  /\ shown' = FALSE
  /\ UNCHANGED <<given, opt, did, made, threads, link, event, fps, gone>>

JoinOne ==
  /\ In("down")
  /\ \E j \in DOMAIN Ending :
       /\ Doing("join", j)
       /\ Ending[j][2] \notin threads
       /\ AdvancePast(j)
  /\ UNCHANGED <<given, opt, did, made, threads, told, link, event, shown, fps, gone>>

DestroyOne ==
  /\ In("down")
  /\ \E j \in DOMAIN Ending :
       /\ Doing("destroy", j)
       /\ made' = made \ {Ending[j][2]}
       /\ AdvancePast(j)
  /\ UNCHANGED <<given, opt, did, threads, told, link, event, shown, fps, gone>>

Return ==
  /\ In("down") /\ \A j \in main.i .. Len(Ending) : ~Applies(Ending[j])
  /\ Enter("done")
  /\ UNCHANGED <<given, opt, did, made, threads, told, link, event, shown, fps, gone>>

MainEnds == StopOne \/ InterruptFps \/ EndDialog \/ JoinOne \/ DestroyOne \/ Return
MainProceeds == InitializeOne \/ EnterLoop \/ HandleDisconnected
                \/ (event # "none" /\ (AwaitServer \/ LeaveLoop)) \/ MainEnds

-----------------------------------------------------------------------------
(* The threads.  The steps of the server thread are those of ServerThread. *)
Rest == UNCHANGED <<given, opt, main, did, made, shown, fps, gone>>
Leave(thread) == thread \in threads /\ threads' = threads \ {thread}

ServerSettles ==
  /\ threads' = threads /\ told' = told
  /\ \/ "list" \notin opt /\ Server!Connect /\ Post("server_connected")
     \/ "list" \in opt /\ Server!List /\ Post("server_connected")
     \/ Server!Fail /\ Post("server_failed")
  /\ Rest

ServerEnds ==
  /\ Leave("server") /\ told' = told
  /\ Server!End
  /\ UNCHANGED event /\ Rest

(* The end of file, from the device, or because the server thread has shut
   the sockets down. *)
Eof == gone \/ "server" \notin threads

(* The demuxer closes its sinks, and the recorder stops with any of them; a
   stream that fails before its sinks are open closes nothing. *)
Closes(closed) ==
  told' = told \cup (IF closed /\ "record" \in opt THEN {"recorder"} ELSE {})

VideoDemuxer ==
  /\ Leave("video_demuxer")
  /\ \/ Eof /\ Post("disconnected") /\ Closes(TRUE)
     \/ Post("demuxer_error") /\ \E closed \in BOOLEAN : Closes(closed)
  /\ UNCHANGED link /\ Rest

AudioDemuxer ==
  /\ Leave("audio_demuxer")
  /\ \/ Eof /\ Post("disconnected") /\ Closes(TRUE)
     \/ Post("demuxer_error") /\ \E closed \in BOOLEAN : Closes(closed)
     \/ /\ UNCHANGED told                      \* disabled by the device
        /\ IF "require_audio" \in opt THEN Post("demuxer_error") ELSE UNCHANGED event
  /\ UNCHANGED link /\ Rest

(* The controller ends when it is stopped, or when it cannot send; both it and
   the receiver report their end. *)
Controller ==
  /\ Leave("controller")
  /\ \/ (Eof \/ "controller" \in told) /\ Post("disconnected")
     \/ Post("controller_error")
  /\ UNCHANGED <<told, link>> /\ Rest

Receiver ==
  /\ Leave("receiver")
  /\ \/ Eof /\ Post("disconnected")
     \/ Post("controller_error")
  /\ UNCHANGED <<told, link>> /\ Rest

(* A recording that ends without an error is not reported. *)
Recorder ==
  /\ Leave("recorder")
  /\ ("recorder" \in told /\ UNCHANGED event) \/ Post("recorder_error")
  /\ UNCHANGED <<told, link>> /\ Rest

(* An AOA device that cannot be opened is reported; a transfer to a device
   that has left reports it, if there is a callback for it (OTG). *)
AoaReports ==
  /\ "aoa" \in threads /\ "aoa" \notin told /\ event = "none"
  /\ Post("aoa_error") \/ (gone /\ "otg" \in opt /\ Post("disconnected"))
  /\ UNCHANGED <<threads, told, link>> /\ Rest

Aoa == /\ Leave("aoa") /\ "aoa" \in told
       /\ UNCHANGED <<told, link, event>> /\ Rest

UsbReports == /\ "usb_events" \in threads /\ gone /\ event = "none"
              /\ Post("disconnected")
              /\ UNCHANGED <<threads, told, link>> /\ Rest

UsbEvents == /\ Leave("usb_events") /\ "usb_events" \in told
             /\ UNCHANGED <<told, link, event>> /\ Rest

(* The deadline, or sc_timeout_stop: on_timeout is called in both cases. *)
Timeout == /\ Leave("timeout") /\ Post("time_limit")
           /\ UNCHANGED <<told, link>> /\ Rest

FilePusher == /\ Leave("file_pusher") /\ "file_pusher" \in told
              /\ UNCHANGED <<told, link, event>> /\ Rest

Fps == /\ Leave("fps") /\ fps.interrupted
       /\ UNCHANGED <<told, link, event>> /\ Rest

Disconnect ==
  /\ Leave("disconnect")
  /\ IF "disconnect" \in told THEN UNCHANGED event ELSE Post("dis_timeout")
  /\ UNCHANGED <<told, link>> /\ Rest

Go == /\ ~gone /\ main.phase \in {"up", "loop"}
      /\ gone' = TRUE
      /\ UNCHANGED <<given, opt, main, did, made, threads, told, link, event, shown, fps>>

Threads == ServerSettles \/ ServerEnds \/ VideoDemuxer \/ AudioDemuxer \/ Controller
           \/ Receiver \/ Recorder \/ AoaReports \/ Aoa \/ UsbReports \/ UsbEvents
           \/ Timeout \/ FilePusher \/ Fps \/ Disconnect

Next ==
  \/ Parse \/ InitializeOne \/ StepFails \/ AwaitServer \/ EnterLoop
  \/ OpenWindow \/ ToggleFps \/ DropFile \/ HandleDisconnected \/ LeaveLoop
  \/ MainEnds \/ Threads \/ Go

Spec == Init /\ [][Next]_vars

(* Threads are scheduled: the main thread does what is next; a thread that has
   a reason to end sees it.  Only the end of the streams, being told and the
   clock are reasons that must come; errors need not. *)
FairSpec ==
  /\ Spec
  /\ WF_vars(MainProceeds)
  /\ WF_vars(ServerEnds) /\ WF_vars("server" \in told /\ ServerSettles)
  /\ WF_vars(Eof /\ VideoDemuxer) /\ WF_vars(Eof /\ AudioDemuxer)
  /\ WF_vars(Eof /\ Receiver) /\ WF_vars("controller" \in told /\ Controller)
  /\ WF_vars("recorder" \in told /\ Recorder)
  /\ WF_vars(Aoa) /\ WF_vars(UsbReports) /\ WF_vars(UsbEvents) /\ WF_vars(Timeout)
  /\ WF_vars(FilePusher) /\ WF_vars(Fps) /\ WF_vars(Disconnect)

-----------------------------------------------------------------------------
(* What the command line lets through satisfies what the rest of the client
   asserts about its options. *)
AcceptedIsConsistent == In("parse") /\ Accepted(given) => Assertions(Parsed(given))

(* The end has come past scrcpy.c:981, where acksync is destroyed. *)
AckDestroyed ==
  In("down") /\ \E j \in DOMAIN Ending :
    j < main.i /\ Ending[j] = <<"destroy", "acksync", "aoa_thread">>

(* No thread runs with an object that has been destroyed, wherever the
   initialization stopped and in whatever order the threads end: this is what
   the order at the end of scrcpy() and scrcpy_otg() is for.  With one
   exception: the receiver, which is joined with the controller at
   scrcpy.c:994, may outlive the acksync it acknowledges to. *)
UsedObjectsLive ==
  \A thread \in threads :
    Uses(thread) \ (IF thread = "receiver" /\ AckDestroyed THEN {"acksync"} ELSE {})
      \subseteq made

(* Nothing survives the session: every thread has been joined and every object
   destroyed, but for acksync when the USB device is not found. *)
NothingSurvives ==
  In("done") => /\ threads = {}
                /\ made \subseteq (IF main.failed = "usb_device" THEN {"acksync"} ELSE {})

(* The end comes to an end: nothing it joins waits for something that comes
   later, the FPS counter that was restarted in the dialog aside. *)
JoiningFps == In("down") /\ \E j \in DOMAIN Ending : Doing("join", j) /\ Ending[j][2] = "fps"
FpsForgotten == JoiningFps /\ "fps" \in threads /\ ~fps.interrupted
TeardownEnds == In("down") ~> (In("done") \/ FpsForgotten)

(* The client does not outlive its device: when it is gone the loop ends,
   whichever streams there are (OTG without a thread for the USB events
   notices it with the next input only). *)
SessionEndsWithDevice ==
  (In("loop") /\ gone /\ ("otg" \in opt => "usb_events" \in threads)) ~> ~In("loop")

(* Two promises that do not hold (README, Known deviations): what a thread
   uses is destroyed after the thread has ended, "because otherwise the
   screen could receive new frames after destruction" (scrcpy.c:986), *)
EveryUsedObjectLives == \A thread \in threads : Uses(thread) \subseteq made

(* and fps_counter.c:154, "interrupted must be set by the thread calling
   join()", and it asserts so. *)
FpsIsInterrupted ==
  JoiningFps /\ fps.created => fps.interrupted
=============================================================================
