---------------------------- MODULE VideoPathProofs ----------------------------
(***************************************************************************)
(* For any number of frames, sessions and inputs, of any sizes, and whether *)
(* or not the screen is behind the delay buffer: each pending frame is      *)
(* announced once, frames meet the session they belong to and are never     *)
(* followed by older ones, and the window is as large as it should be.      *)
(***************************************************************************)
EXTENDS VideoPath, SequenceTheorems, FiniteSetTheorems, TLAPS

Packets == [kind : {"session"}, session : Sessions] \cup [kind : {"frame"}, frame : Frames]

Events == {"open", "frame", "leave"}

Contents == Sizes \X Orientations

DemuxerTypes ==
  /\ delayed \in BOOLEAN /\ session \in Sessions /\ sent \in 0 .. MaxFrames
  /\ demuxer \in {"open", "open v4l2", "recv", "delay", "screen", "event", "v4l2",
                  "close v4l2", "join v4l2", "close delay", "join delay", "ended"}
  /\ item \in Frames \cup {None}
  /\ demuxer \in {"delay", "screen", "event", "v4l2"} => item \in Frames /\ item.n = sent

BufferTypes ==
  /\ db \in [queue : Seq(Packets), stopped : BOOLEAN, clocked : BOOLEAN]
  /\ buffering \in {"off", "idle", "session", "wait", "event", "ended"}
  /\ buffering = "session" => held \in Packets /\ held.kind = "session"
  /\ buffering = "wait" => held \in Packets /\ held.kind = "frame"

V4l2Types ==
  /\ v4l2 \in [fb : Frames \cup {None}, has : BOOLEAN, stopped : BOOLEAN,
               header : BOOLEAN, last : Nat]
  /\ v4l2.has <=> v4l2.fb # None
  /\ writer \in {"off", "idle", "write", "ended"}
  /\ taken \in Frames \cup {None} /\ (writer = "write" => taken \in Frames)

Sinks == [fb : Frames \cup {None}, prevent : BOOLEAN, session : Sessions,
          last : Nat, open : BOOLEAN]

Screens == [shown : Nat, resume : Frames \cup {None}, paused : BOOLEAN,
            windowShown : BOOLEAN, size : Sizes, orientation : Orientations,
            content : Contents, pending : BOOLEAN, owed : Contents]

Windows == [flags : SUBSET Modes, fitted : Contents]

ScreenTypes ==
  sink \in Sinks /\ ui \in Screens /\ window \in Windows /\ events \in Seq(Events)

TypeInv ==
  DemuxerTypes /\ BufferTypes /\ V4l2Types /\ ScreenTypes /\ inputs \in Nat /\ failed \in BOOLEAN

(* OneAnnouncementPerFrame, without counting: who announces the pending frame
   does so alone, and there is someone unless a push has failed. *)
PostedIn(q) == \E i \in 1 .. Len(q) : q[i] = "frame"
Posted == PostedIn(events)

PostedOnce(q) == \A i, j \in 1 .. Len(q) : q[i] = "frame" /\ q[j] = "frame" => i = j

AnnouncedOnce ==
  /\ PostedOnce(events)
  /\ ~(Posted /\ demuxer = "event") /\ ~(Posted /\ buffering = "event")
  /\ ~(demuxer = "event" /\ buffering = "event")
  /\ Posted \/ demuxer = "event" \/ buffering = "event" => sink.fb # None
  /\ sink.fb # None => Posted \/ demuxer = "event" \/ buffering = "event" \/ failed

(* Before the window is shown the user does nothing to it, and a resize that
   waits has an event to wait for. *)
WindowIsOwed ==
  /\ demuxer = "open" => events = <<>> /\ ~ui.windowShown /\ buffering = "off"
  /\ \A i \in 1 .. Len(events) : events[i] = "open" => i = 1 /\ ~ui.windowShown
  /\ ~ui.windowShown => window.flags = {} /\ ~ui.pending
  /\ ui.windowShown /\ ~ui.pending => window.fitted = ui.owed
  /\ ui.pending /\ Windowed => \E i \in 1 .. Len(events) : events[i] = "leave"
  /\ ui.content = Content(ui.size, ui.orientation)

(* The session the sink is in once all that is before position i of the queue
   has been pushed. *)
NextSession == IF buffering = "session" THEN held.session ELSE sink.session

Governs(s, q, i, first) ==
  \/ /\ s = first
     /\ \A k \in 1 .. i - 1 : q[k].kind = "frame"
  \/ \E j \in 1 .. i - 1 :
       /\ q[j].kind = "session" /\ q[j].session = s
       /\ \A k \in j + 1 .. i - 1 : q[k].kind = "frame"

(* Each frame of the queue belongs to the session before it, and the device is
   in the last one. *)
Governed(q, first, s) ==
  /\ \A i \in 1 .. Len(q) : q[i].kind = "frame" => Governs(q[i].frame.session, q, i, first)
  /\ Governs(s, q, Len(q) + 1, first)

(* Sessions and frames go through the delay buffer in order; only the first frame
   goes past it. *)
SessionsInOrder ==
  /\ sink.fb # None /\ sink.fb.n > 1 => sink.prevent = sink.fb.session.resized
  /\ demuxer = "screen" /\ item.n > 1 => item.session = sink.session
  /\ buffering = "wait" /\ held.frame.n > 1 => held.frame.session = sink.session
  /\ demuxer \in {"delay", "screen"} => item.session = session
  /\ ~delayed => /\ db.queue = <<>> /\ buffering = "off" /\ demuxer # "delay"
                 /\ demuxer \notin {"open", "ended"} => sink.session = session
  /\ delayed /\ demuxer = "screen" => item.n = 1
  /\ delayed /\ ~db.clocked => /\ demuxer \in {"open", "open v4l2", "recv"} => sent = 0
                               /\ demuxer = "delay" => item.n = 1
                               /\ demuxer \notin {"screen", "event", "v4l2"}
  /\ demuxer = "open" => db.queue = <<>>
  /\ demuxer = "ended" => buffering \in {"off", "ended"}
  /\ delayed /\ ~db.stopped /\ demuxer \notin {"open", "ended"} =>
       Governed(db.queue, NextSession, session)

(* The numbers of the frames grow from the screen back to the decoder. *)
Pushing == demuxer \in {"delay", "screen"}

FramesInOrder ==
  /\ sink.last <= sent /\ (Pushing => sink.last < sent)
  /\ sink.fb # None => sink.fb.n = sink.last
  /\ ui.shown <= sink.last
  /\ ui.resume # None => ui.paused /\ ui.shown <= ui.resume.n /\ ui.resume.n <= sink.last
  /\ buffering = "wait" =>
       /\ sink.last < held.frame.n
       /\ held.frame.n <= sent /\ (Pushing => held.frame.n < sent)
  /\ \A i \in 1 .. Len(db.queue) : db.queue[i].kind = "frame" =>
       /\ sink.last < db.queue[i].frame.n
       /\ buffering = "wait" => held.frame.n < db.queue[i].frame.n
       /\ db.queue[i].frame.n <= sent /\ (Pushing => db.queue[i].frame.n < sent)
       /\ \A j \in 1 .. i - 1 : db.queue[j].kind = "frame" =>
            db.queue[j].frame.n < db.queue[i].frame.n

V4l2InOrder ==
  /\ v4l2.last <= sent
  /\ taken # None => v4l2.last <= taken.n /\ taken.n <= sent
  /\ v4l2.fb # None => /\ v4l2.last <= v4l2.fb.n /\ v4l2.fb.n <= sent
                       /\ taken # None => taken.n <= v4l2.fb.n

VInv ==
  TypeInv /\ AnnouncedOnce /\ WindowIsOwed /\ SessionsInOrder /\ FramesInOrder /\ V4l2InOrder

-----------------------------------------------------------------------------
(* Types.                                                                  *)

(* The program starts with values of the right types. *)
LEMMA InitTypes == Init => TypeInv
<1> SUFFICES ASSUME Init PROVE TypeInv
  OBVIOUS
<1> USE VideoAssumption
<1>1. DemuxerTypes
  BY DEF Init, DemuxerTypes, Sessions
<1>2. BufferTypes
  BY DEF Init, BufferTypes
<1>3. V4l2Types
  BY DEF Init, V4l2Types
<1>4. ScreenTypes
  BY DEF Init, ScreenTypes, Sinks, Screens, Windows, Sessions, Contents, Content, Orientations
<1> QED BY <1>1, <1>2, <1>3, <1>4 DEF TypeInv, Init

(* The demuxer's variables: a frame is being pushed only between its reception
   and the last sink. *)
LEMMA DemuxerStepTypes == TypeInv /\ [Next]_vars => DemuxerTypes'
<1> SUFFICES ASSUME TypeInv, [Next]_vars PROVE DemuxerTypes'
  OBVIOUS
<1> USE DEF TypeInv, DemuxerTypes
<1>1. CASE Demuxer
  BY <1>1 DEF Demuxer, OpenScreen, OpenScreenFails, OpenV4l2, PushDelayed, ScreenPush, PostFrame,
    V4l2Push, CloseV4l2, JoinV4l2, CloseDelay, JoinDelay
<1>2. CASE Device
  <2>1. CASE ReceiveSession
    BY <2>1 DEF ReceiveSession
  <2>2. CASE ReceiveFrame
    <3>1. sent + 1 \in 1 .. MaxFrames /\ sent + 1 \in 0 .. MaxFrames
      BY <2>2, VideoAssumption DEF ReceiveFrame
    <3>2. item' = [n |-> sent + 1, session |-> session] /\ sent' = sent + 1
          /\ demuxer' \in {"delay", "screen"} /\ UNCHANGED <<delayed, session>>
      BY <2>2 DEF ReceiveFrame
    <3>3. item' \in Frames /\ item'.n = sent'
      BY <3>1, <3>2 DEF Frames
    <3> QED BY <3>1, <3>2, <3>3
  <2>3. CASE EndOfStream
    BY <2>3 DEF EndOfStream
  <2> QED BY <1>2, <2>1, <2>2, <2>3 DEF Device
<1>3. CASE Buffering \/ Writer \/ Main \/ User \/ UNCHANGED vars
  <2>1. UNCHANGED producing
    BY <1>3 DEF Buffering, BufferTakes, BufferPushesSession, BufferPushesFrame, BufferPostsFrame,
      BufferEnds, Writer, V4l2Takes, V4l2Writes, V4l2Ends, Main, OpenWindow, NewFrame, LeaveMode,
      User, SetPaused, SetOrientation, Toggle, vars
  <2> QED BY <2>1 DEF producing
<1> QED BY <1>1, <1>2, <1>3 DEF Next

(* The delay buffer's: its thread holds what its state says it holds. *)
LEMMA BufferStepTypes == TypeInv /\ [Next]_vars => BufferTypes'
<1> SUFFICES ASSUME TypeInv, [Next]_vars PROVE BufferTypes'
  OBVIOUS
<1> USE DEF TypeInv, BufferTypes
<1>1. CASE OpenScreen
  BY <1>1 DEF OpenScreen
<1>2. CASE ReceiveSession
  <2>1. ASSUME NEW s \in Sessions
        PROVE  [db EXCEPT !.queue = Append(db.queue, [kind |-> "session", session |-> s])]
                 \in [queue : Seq(Packets), stopped : BOOLEAN, clocked : BOOLEAN]
    <3>1. [kind |-> "session", session |-> s] \in Packets
      BY DEF Packets
    <3> QED BY <3>1
  <2> QED BY <1>2, <2>1 DEF ReceiveSession
<1>3. CASE PushDelayed
  <2>1. item \in Frames
    BY <1>3 DEF PushDelayed, DemuxerTypes
  <2>2. [kind |-> "frame", frame |-> item] \in Packets
    BY <2>1 DEF Packets
  <2>3. Append(db.queue, [kind |-> "frame", frame |-> item]) \in Seq(Packets)
    BY <2>2
  <2> QED BY <1>3, <2>3 DEF PushDelayed
<1>4. CASE BufferTakes
  <2>1. Head(db.queue) \in Packets /\ Tail(db.queue) \in Seq(Packets)
    BY <1>4 DEF BufferTakes
  <2>2. \A p \in Packets : p.kind \in {"frame", "session"}
    BY DEF Packets
  <2> QED BY <1>4, <2>1, <2>2 DEF BufferTakes
<1>5. CASE BufferPushesSession \/ BufferPushesFrame \/ BufferPostsFrame \/ BufferEnds
  <2>1. CASE BufferPushesSession \/ BufferPushesFrame
    BY <2>1 DEF BufferPushesSession, BufferPushesFrame
  <2>2. CASE BufferPostsFrame \/ BufferEnds
    <3>1. \/ UNCHANGED db
          \/ db' = [db EXCEPT !.stopped = TRUE, !.queue = <<>>]
          \/ db' = [db EXCEPT !.queue = <<>>]
      BY <2>2 DEF BufferPostsFrame, BufferEnds
    <3>2. db' \in [queue : Seq(Packets), stopped : BOOLEAN, clocked : BOOLEAN]
      <4>1. <<>> \in Seq(Packets)
        OBVIOUS
      <4>2. db \in [queue : Seq(Packets), stopped : BOOLEAN, clocked : BOOLEAN]
        OBVIOUS
      <4> QED BY ONLY <3>1, <4>1, <4>2
    <3> QED BY <2>2, <3>2 DEF BufferPostsFrame, BufferEnds
  <2> QED BY <1>5, <2>1, <2>2
<1>6. CASE CloseDelay
  BY <1>6 DEF CloseDelay
<1>7. CASE UNCHANGED delaying
  BY <1>7 DEF delaying
<1>8. \/ OpenScreen \/ ReceiveSession \/ PushDelayed \/ Buffering \/ CloseDelay
      \/ UNCHANGED delaying
  BY DEF Next, Demuxer, OpenScreenFails, OpenV4l2, ScreenPush, PostFrame, V4l2Push, CloseV4l2,
    JoinV4l2, JoinDelay, Device, ReceiveFrame, EndOfStream, Writer, V4l2Takes, V4l2Writes,
    V4l2Ends, Main, OpenWindow, NewFrame, LeaveMode, User, SetPaused, SetOrientation, Toggle,
    vars
<1> QED BY <1>1, <1>2, <1>3, <1>4, <1>5, <1>6, <1>7, <1>8 DEF Buffering

(* The V4L2 sink's: has_frame says whether the frame buffer holds one. *)
LEMMA V4l2StepTypes == TypeInv /\ [Next]_vars => V4l2Types'
<1> SUFFICES ASSUME TypeInv, [Next]_vars PROVE V4l2Types'
  OBVIOUS
<1> USE DEF TypeInv, V4l2Types
<1>1. CASE OpenV4l2
  BY <1>1 DEF OpenV4l2
<1>2. CASE V4l2Push
  <2>1. item \in Frames
    BY <1>2 DEF V4l2Push, DemuxerTypes
  <2>2. v4l2' = [v4l2 EXCEPT !.fb = item, !.has = v4l2.has \/ v4l2.fb = None]
        /\ UNCHANGED <<writer, taken>>
    BY <1>2 DEF V4l2Push
  <2>3. v4l2'.fb = item /\ v4l2'.has = TRUE
    BY <2>2
  <2>4. v4l2' \in [fb : Frames \cup {None}, has : BOOLEAN, stopped : BOOLEAN,
                  header : BOOLEAN, last : Nat]
    BY <2>1, <2>2
  <2> QED BY <2>1, <2>2, <2>3, <2>4, VideoAssumption
<1>3. CASE V4l2Takes
  BY <1>3, VideoAssumption DEF V4l2Takes
<1>4. CASE V4l2Writes
  <2>1. taken \in Frames /\ taken.n \in Nat
    BY <1>4 DEF V4l2Writes, Frames
  <2>2. /\ v4l2' \in [fb : Frames \cup {None}, has : BOOLEAN, stopped : BOOLEAN,
                      header : BOOLEAN, last : Nat]
        /\ v4l2'.has = v4l2.has /\ v4l2'.fb = v4l2.fb
    BY <1>4, <2>1 DEF V4l2Writes
  <2> QED BY <1>4, <2>2 DEF V4l2Writes
<1>5. CASE V4l2Ends \/ CloseV4l2
  BY <1>5 DEF V4l2Ends, CloseV4l2
<1>6. CASE UNCHANGED looping
  BY <1>6 DEF looping
<1>7. \/ OpenV4l2 \/ V4l2Push \/ Writer \/ CloseV4l2 \/ UNCHANGED looping
  BY DEF Next, Demuxer, OpenScreen, OpenScreenFails, PushDelayed, ScreenPush, PostFrame,
    JoinV4l2, CloseDelay, JoinDelay, Device, ReceiveSession, ReceiveFrame, EndOfStream,
    Buffering, BufferTakes, BufferPushesSession, BufferPushesFrame, BufferPostsFrame, BufferEnds,
    Main, OpenWindow, NewFrame, LeaveMode, User, SetPaused, SetOrientation, Toggle, vars
<1> QED BY <1>1, <1>2, <1>3, <1>4, <1>5, <1>6, <1>7 DEF Writer

(* The bounds, and the numbers of frames, are numbers. *)
LEMMA Bounds ==
  0 .. MaxFrames \subseteq Nat /\ \A f \in Frames : f.n \in 1 .. MaxFrames /\ f.n \in Nat
<1>1. MaxFrames \in Nat
  BY VideoAssumption
<1> QED BY <1>1 DEF Frames

(* What set_content_size makes of the screen, and of the window. *)
LEMMA ContentSet ==
  ASSUME NEW u \in Screens, NEW content \in Contents, NEW resize \in BOOLEAN
  PROVE  LET r == SetContentSize(u, content, resize) IN
         /\ r \in Screens
         /\ r.content = content
         /\ r.pending = (u.pending \/ (resize /\ ~Windowed))
         /\ r.owed = IF resize THEN content ELSE u.owed
         /\ r.shown = u.shown /\ r.resume = u.resume /\ r.paused = u.paused
         /\ r.windowShown = u.windowShown /\ r.size = u.size
         /\ r.orientation = u.orientation
BY DEF SetContentSize, Screens, Windowed

(* What sc_screen_apply_frame makes of the screen. *)
LEMMA FrameApplied ==
  ASSUME NEW u \in Screens, NEW f \in Frames, NEW resize \in BOOLEAN
  PROVE  LET r == Applied(u, f, resize)
             content == Content(f.session.size, u.orientation)
             follows == resize /\ f.session.size # u.size IN
         /\ r \in Screens /\ f.n \in Nat
         /\ r.shown = f.n /\ r.size = f.session.size /\ r.orientation = u.orientation
         /\ r.content = IF f.session.size # u.size THEN content ELSE u.content
         /\ r.pending = (u.pending \/ (follows /\ ~Windowed))
         /\ r.owed = IF follows THEN content ELSE u.owed
         /\ r.resume = u.resume /\ r.paused = u.paused /\ r.windowShown = u.windowShown
<1> DEFINE content == Content(f.session.size, u.orientation)
           changed == f.session.size # u.size
           v == IF changed THEN SetContentSize(u, content, resize) ELSE u
           r == [v EXCEPT !.shown = f.n, !.size = f.session.size]
<1>1. content \in Contents /\ f.n \in Nat /\ f.session.size \in Sizes
  BY DEF Content, Contents, Frames, Sessions, Screens
<1>2. /\ v \in Screens
      /\ v.content = IF changed THEN content ELSE u.content
      /\ v.pending = (u.pending \/ (resize /\ changed /\ ~Windowed))
      /\ v.owed = IF resize /\ changed THEN content ELSE u.owed
      /\ v.resume = u.resume /\ v.paused = u.paused /\ v.windowShown = u.windowShown
      /\ v.orientation = u.orientation
  <2>1. CASE changed
    BY <1>1, <2>1, ContentSet
  <2>2. CASE ~changed
    BY <2>2 DEF Screens
  <2> QED BY <2>1, <2>2
<1>3. r = Applied(u, f, resize)
  BY DEF Applied
<1> HIDE DEF v
<1>4. /\ r \in Screens
      /\ r.shown = f.n /\ r.size = f.session.size
      /\ r.content = v.content /\ r.pending = v.pending /\ r.owed = v.owed
      /\ r.resume = v.resume /\ r.paused = v.paused /\ r.windowShown = v.windowShown
      /\ r.orientation = v.orientation
  BY <1>1, <1>2 DEF Screens
<1> HIDE DEF content, changed, r
<1> QED BY <1>1, <1>2, <1>3, <1>4 DEF content, changed

(* The window is resized only while it can be. *)
LEMMA WindowFits ==
  ASSUME window \in Windows, NEW content \in Contents, NEW resize, Fit(content, resize)
  PROVE  /\ window' \in Windows /\ window'.flags = window.flags
         /\ window'.fitted = IF resize /\ Windowed THEN content ELSE window.fitted
BY DEF Fit, Windows

(* The two frames that the main thread applies: the one the sink holds, and the
   one it kept while it was paused. *)
LEMMA ApplyKeepsTypes ==
  ASSUME window \in Windows, NEW u \in Screens, NEW f \in Frames, NEW resize \in BOOLEAN,
         ApplyFrame(u, f, resize)
  PROVE  LET content == Content(f.session.size, u.orientation)
             follows == resize /\ f.session.size # u.size IN
         /\ ui' \in Screens /\ window' \in Windows
         /\ ui'.shown = f.n /\ ui'.size = f.session.size /\ ui'.orientation = u.orientation
         /\ ui'.content = IF f.session.size # u.size THEN content ELSE u.content
         /\ ui'.pending = (u.pending \/ (follows /\ ~Windowed))
         /\ ui'.owed = IF follows THEN content ELSE u.owed
         /\ ui'.resume = u.resume /\ ui'.paused = u.paused
         /\ ui'.windowShown = u.windowShown
         /\ window'.flags = window.flags
         /\ window'.fitted = IF follows /\ Windowed THEN content ELSE window.fitted
<1> DEFINE content == Content(f.session.size, u.orientation)
           follows == resize /\ f.session.size # u.size
<1>1. ui' = Applied(u, f, resize) /\ Fit(ui'.content, follows)
  BY DEF ApplyFrame
<1>2. /\ ui' \in Screens
      /\ ui'.shown = f.n /\ ui'.size = f.session.size /\ ui'.orientation = u.orientation
      /\ ui'.content = IF f.session.size # u.size THEN content ELSE u.content
      /\ ui'.pending = (u.pending \/ (follows /\ ~Windowed))
      /\ ui'.owed = IF follows THEN content ELSE u.owed
      /\ ui'.resume = u.resume /\ ui'.paused = u.paused /\ ui'.windowShown = u.windowShown
  BY <1>1, FrameApplied
<1>3. ui'.content \in Contents
  BY <1>2 DEF Screens
<1> HIDE DEF follows
<1>4. /\ window' \in Windows /\ window'.flags = window.flags
      /\ window'.fitted = IF follows /\ Windowed THEN ui'.content ELSE window.fitted
  BY <1>1, <1>3, WindowFits
<1>5. follows => ui'.content = content
  BY <1>2 DEF follows
<1> QED BY <1>2, <1>4, <1>5 DEF follows

(* The screen's sink, the screen, the window and the event queue. *)
LEMMA ScreenStepTypes == TypeInv /\ [Next]_vars => ScreenTypes'
<1> SUFFICES ASSUME TypeInv, [Next]_vars PROVE ScreenTypes'
  OBVIOUS
<1> USE DEF TypeInv, ScreenTypes
<1>0. \A o \in Orientations, s \in Sizes : Content(s, o) \in Contents
  BY DEF Content, Contents
<1>a. \A e \in Events : Append(events, e) \in Seq(Events)
  OBVIOUS
<1>b. events # <<>> => Tail(events) \in Seq(Events)
  OBVIOUS
<1>1. CASE OpenScreen
  <2>1. session.size \in Sizes /\ session \in Sessions
    BY DEF DemuxerTypes, Sessions
  <2>2. sink' \in Sinks
    BY <1>1, <2>1 DEF OpenScreen, Sinks
  <2>3. Content(session.size, ui.orientation) \in Contents
    BY <1>0, <2>1 DEF Screens
  <2>4. ui' \in Screens
    BY <1>1, <2>1, <2>3 DEF OpenScreen, Screens
  <2> QED BY <1>1, <1>a, <2>2, <2>4 DEF OpenScreen, Events
<1>2. CASE ReceiveSession \/ JoinDelay
  <2>1. UNCHANGED <<ui, window, events>>
    BY <1>2 DEF ReceiveSession, JoinDelay, showing
  <2>2. sink' \in Sinks
    BY <1>2 DEF ReceiveSession, JoinDelay, Sinks
  <2> QED BY <2>1, <2>2
<1>3. ASSUME NEW f \in Frames, PushFrame(f), UNCHANGED <<ui, window, events>>
      PROVE  ScreenTypes'
  <2>1. f.n \in Nat /\ sink.session.resized \in BOOLEAN
    BY DEF Frames, Sinks, Sessions
  <2> QED BY <1>3, <2>1 DEF PushFrame, Sinks
<1>4. CASE ScreenPush
  BY <1>3, <1>4 DEF ScreenPush, DemuxerTypes, showing
<1>5. CASE BufferPushesFrame
  <2>1. held.frame \in Frames
    BY <1>5 DEF BufferPushesFrame, BufferTypes, Packets
  <2> QED BY <1>3, <1>5, <2>1 DEF BufferPushesFrame, showing
<1>6. CASE BufferPushesSession
  <2>1. held.session \in Sessions
    BY <1>6 DEF BufferPushesSession, BufferTypes, Packets
  <2> QED BY <1>6, <2>1 DEF BufferPushesSession, Sinks, showing
<1>7. CASE PostFrame \/ BufferPostsFrame
  BY <1>7, <1>a DEF PostFrame, BufferPostsFrame, showing, Events
<1>8. CASE OpenWindow
  <2>1. ui.content \in Contents
    BY DEF Screens
  <2>2. window' \in Windows
    BY <1>8, <2>1, WindowFits DEF OpenWindow
  <2>3. ui' \in Screens
    BY <1>8, <2>1 DEF OpenWindow, Screens
  <2> QED BY <1>8, <1>b, <2>2, <2>3 DEF OpenWindow
<1>9. CASE NewFrame
  <2>1. sink.fb \in Frames /\ (~sink.prevent) \in BOOLEAN
    BY <1>9 DEF NewFrame, Sinks
  <2>2. sink' \in Sinks
    BY <1>9 DEF NewFrame, Sinks
  <2>3. ui' \in Screens /\ window' \in Windows
    <3>1. CASE ui.paused
      BY <1>9, <2>1, <3>1 DEF NewFrame, Screens
    <3>2. CASE ~ui.paused
      BY <1>9, <2>1, <3>2, ApplyKeepsTypes DEF NewFrame
    <3> QED BY <3>1, <3>2
  <2> QED BY <1>9, <1>b, <2>2, <2>3 DEF NewFrame
<1>10. CASE LeaveMode
  <2>1. ui.content \in Contents
    BY DEF Screens
  <2>2. window' \in Windows
    BY <1>10, <2>1, WindowFits DEF LeaveMode
  <2>3. ui' \in Screens
    BY <1>10, <2>1 DEF LeaveMode, Screens, Windowed
  <2> QED BY <1>10, <1>b, <2>2, <2>3 DEF LeaveMode
<1>11. ASSUME NEW paused \in BOOLEAN, SetPaused(paused)
       PROVE  ScreenTypes'
  <2> DEFINE u == [ui EXCEPT !.paused = paused, !.resume = None]
  <2>1. u \in Screens
    BY DEF Screens
  <2>2. ui' \in Screens /\ window' \in Windows
    <3>1. CASE ui.paused /\ ui.resume # None
      <4>1. ui.resume \in Frames /\ ApplyFrame(u, ui.resume, TRUE)
        BY <1>11, <3>1 DEF SetPaused, Screens
      <4> HIDE DEF u
      <4> QED BY <2>1, <4>1, ApplyKeepsTypes
    <3>2. CASE ~(ui.paused /\ ui.resume # None)
      BY <1>11, <3>2 DEF SetPaused, Screens
    <3> QED BY <3>1, <3>2
  <2> QED BY <1>11, <2>2 DEF SetPaused
<1>12. ASSUME NEW o \in Orientations, SetOrientation(o)
       PROVE  ScreenTypes'
  <2> DEFINE content == Content(ui.size, o)
  <2>1. content \in Contents
    BY <1>0 DEF Screens
  <2>2. SetContentSize(ui, content, TRUE) \in Screens
    BY <2>1, ContentSet
  <2>3. ui' = [SetContentSize(ui, content, TRUE) EXCEPT !.orientation = o]
        /\ Fit(content, TRUE) /\ UNCHANGED <<sink, events>>
    BY <1>12 DEF SetOrientation
  <2> HIDE DEF content
  <2>4. ui' \in Screens
    BY <2>2, <2>3 DEF Screens
  <2> QED BY <2>1, <2>3, <2>4, WindowFits
<1>13. ASSUME NEW mode \in Modes, Toggle(mode)
       PROVE  ScreenTypes'
  <2>1. window' \in Windows
    <3>1. \A F \in SUBSET Modes : [window EXCEPT !.flags = F] \in Windows
      BY <1>a DEF Windows
    <3>2. window.flags \in SUBSET Modes
      BY <1>a DEF Windows
    <3>3. \E F \in SUBSET Modes : window' = [window EXCEPT !.flags = F]
      BY <1>13, <3>2 DEF Toggle
    <3> QED BY <3>1, <3>3
  <2>2. events' \in Seq(Events)
    <3>1. events' = events \/ events' = Append(events, "leave")
      BY <1>13 DEF Toggle
    <3> QED BY <1>a, <3>1 DEF Events
  <2> QED BY <1>13, <1>a, <2>1, <2>2 DEF Toggle
<1>14. CASE UNCHANGED <<sink, ui, window, events>>
  BY <1>14
<1>15. \/ OpenScreen \/ ReceiveSession \/ JoinDelay \/ ScreenPush \/ PostFrame
       \/ BufferPushesFrame \/ BufferPushesSession \/ BufferPostsFrame \/ Main \/ User
       \/ UNCHANGED <<sink, ui, window, events>>
  BY DEF Next, Demuxer, OpenScreenFails, OpenV4l2, PushDelayed, V4l2Push, CloseV4l2,
    JoinV4l2, CloseDelay, Device, ReceiveFrame, EndOfStream, Buffering, BufferTakes,
    BufferEnds, Writer, V4l2Takes, V4l2Writes, V4l2Ends, showing, vars
<1> QED BY <1>1, <1>2, <1>4, <1>5, <1>6, <1>7, <1>8, <1>9, <1>10, <1>11, <1>12, <1>13,
           <1>14, <1>15 DEF Main, User

(* Every variable keeps its type. *)
LEMMA TypeStep == TypeInv /\ [Next]_vars => TypeInv'
<1> SUFFICES ASSUME TypeInv, [Next]_vars PROVE TypeInv'
  OBVIOUS
<1>1. inputs' \in Nat
  <2>1. inputs' = inputs \/ inputs' = inputs + 1
    BY DEF Next, Demuxer, OpenScreen, OpenScreenFails, OpenV4l2, PushDelayed, ScreenPush, PostFrame,
      V4l2Push, CloseV4l2, JoinV4l2, CloseDelay, JoinDelay, Device, ReceiveSession, ReceiveFrame,
      EndOfStream, Buffering, BufferTakes, BufferPushesSession, BufferPushesFrame,
      BufferPostsFrame, BufferEnds, Writer, V4l2Takes, V4l2Writes, V4l2Ends, Main, OpenWindow,
      NewFrame, LeaveMode, User, SetPaused, SetOrientation, Toggle, Input, showing, vars
  <2> QED BY <2>1 DEF TypeInv
<1>2. failed' \in BOOLEAN
  <2>1. failed' = failed \/ failed' = TRUE
    BY DEF Next, Demuxer, OpenScreen, OpenScreenFails, OpenV4l2, PushDelayed, ScreenPush, PostFrame,
      V4l2Push, CloseV4l2, JoinV4l2, CloseDelay, JoinDelay, Device, ReceiveSession, ReceiveFrame,
      EndOfStream, Buffering, BufferTakes, BufferPushesSession, BufferPushesFrame,
      BufferPostsFrame, BufferEnds, Writer, V4l2Takes, V4l2Writes, V4l2Ends, Main, OpenWindow,
      NewFrame, LeaveMode, User, SetPaused, SetOrientation, Toggle, vars
  <2> QED BY <2>1 DEF TypeInv
<1> QED BY <1>1, <1>2, DemuxerStepTypes, BufferStepTypes, V4l2StepTypes, ScreenStepTypes DEF TypeInv

-----------------------------------------------------------------------------
(* The announcements.                                                      *)

(* Posting an event adds an announcement exactly when the event is one. *)
LEMMA PostedAppend ==
  ASSUME NEW q \in Seq(Events), NEW e \in Events
  PROVE  /\ PostedIn(Append(q, e)) <=> PostedIn(q) \/ e = "frame"
         /\ PostedOnce(q) /\ (e = "frame" => ~PostedIn(q)) => PostedOnce(Append(q, e))
<1> DEFINE r == Append(q, e)
<1>1. Len(r) = Len(q) + 1 /\ r[Len(q) + 1] = e /\ \A i \in 1 .. Len(q) : r[i] = q[i]
  OBVIOUS
<1>2. Len(q) \in Nat
  OBVIOUS
<1> HIDE DEF r
<1>3. PostedIn(r) <=> PostedIn(q) \/ e = "frame"
  BY <1>1, <1>2 DEF PostedIn
<1>4. PostedOnce(q) /\ (e = "frame" => ~PostedIn(q)) => PostedOnce(r)
  BY <1>1, <1>2 DEF PostedIn, PostedOnce
<1> QED BY <1>3, <1>4 DEF r

(* Handling an event takes an announcement exactly when the event is one. *)
LEMMA PostedTail ==
  ASSUME NEW q \in Seq(Events), q # <<>>, PostedOnce(q)
  PROVE  /\ PostedOnce(Tail(q))
         /\ PostedIn(Tail(q)) <=> PostedIn(q) /\ Head(q) # "frame"
<1> DEFINE r == Tail(q)
<1>1. /\ Len(q) \in Nat /\ Len(q) > 0 /\ Len(r) = Len(q) - 1 /\ Head(q) = q[1]
      /\ \A i \in 1 .. Len(r) : r[i] = q[i + 1]
  OBVIOUS
<1> HIDE DEF r
<1>2. PostedOnce(r)
  BY <1>1 DEF PostedOnce
<1>3. PostedIn(r) => PostedIn(q) /\ q[1] # "frame"
  BY <1>1 DEF PostedIn, PostedOnce
<1>4. PostedIn(q) /\ q[1] # "frame" => PostedIn(r)
  <2> SUFFICES ASSUME PostedIn(q), q[1] # "frame" PROVE PostedIn(r)
    OBVIOUS
  <2>1. PICK i \in 1 .. Len(q) : q[i] = "frame"
    BY DEF PostedIn
  <2>2. i - 1 \in 1 .. Len(r) /\ r[i - 1] = q[i]
    BY <1>1, <2>1
  <2> QED BY <2>1, <2>2 DEF PostedIn
<1> QED BY <1>1, <1>2, <1>3, <1>4 DEF r

(* No step loses the announcement of the pending frame, or makes a second one. *)
LEMMA AnnouncedStep ==
  TypeInv /\ AnnouncedOnce /\ WindowIsOwed /\ [Next]_vars => AnnouncedOnce'
<1> SUFFICES ASSUME TypeInv, AnnouncedOnce, WindowIsOwed, [Next]_vars PROVE AnnouncedOnce'
  OBVIOUS
<1>0. events \in Seq(Events) /\ {"open", "frame", "leave"} = Events /\ sink \in Sinks
  BY DEF TypeInv, ScreenTypes, Events
<1>1. ASSUME NEW e \in Events, events' = Append(events, e)
      PROVE  /\ Posted' <=> Posted \/ e = "frame"
             /\ (e = "frame" => ~Posted) => PostedOnce(events')
  BY <1>0, <1>1, PostedAppend DEF Posted, AnnouncedOnce
<1>2. ASSUME events # <<>>, events' = Tail(events)
      PROVE  PostedOnce(events') /\ (Posted' <=> Posted /\ Head(events) # "frame")
  BY <1>0, <1>2, PostedTail DEF Posted, AnnouncedOnce
<1>3. ASSUME UNCHANGED events
      PROVE  (Posted' <=> Posted) /\ PostedOnce(events')
  BY <1>3 DEF Posted, AnnouncedOnce
<1> HIDE DEF Posted
<1>4. ASSUME PostedOnce(events'), Posted' <=> Posted,
             demuxer' = "event" <=> demuxer = "event",
             buffering' = "event" <=> buffering = "event",
             sink'.fb = sink.fb, failed => failed'
      PROVE  AnnouncedOnce'
  BY <1>4 DEF AnnouncedOnce
<1>5. CASE OpenScreen \/ (\E mode \in Modes : Toggle(mode))
  <2>1. \/ UNCHANGED events \/ events' = Append(events, "open") \/ events' = Append(events, "leave")
    BY <1>5 DEF OpenScreen, Toggle
  <2>2. (Posted' <=> Posted) /\ PostedOnce(events')
    BY <1>0, <1>1, <1>3, <2>1
  <2>3. /\ demuxer' = "event" <=> demuxer = "event"
        /\ buffering' = "event" <=> buffering = "event"
        /\ failed => failed'
    <3>1. CASE OpenScreen
      <4>1. demuxer = "open" /\ buffering = "off"
        BY <3>1 DEF OpenScreen, WindowIsOwed
      <4>2. demuxer = "open" /\ demuxer' = "open v4l2" /\ buffering' \in {"off", "idle"}
            /\ UNCHANGED failed
        BY <3>1 DEF OpenScreen
      <4> QED BY <4>1, <4>2
    <3>2. CASE \E mode \in Modes : Toggle(mode)
      BY <3>2 DEF Toggle, producing, delaying
    <3> QED BY <1>5, <3>1, <3>2
  <2>4. sink'.fb = sink.fb
    BY <1>0, <1>5 DEF OpenScreen, Toggle, Sinks
  <2> QED BY <1>4, <2>2, <2>3, <2>4
<1>6. CASE ScreenPush
  <2>1. sink'.fb = item /\ item # None /\ UNCHANGED <<buffering, failed>> /\ demuxer = "screen"
    BY <1>0, <1>6, VideoAssumption
    DEF ScreenPush, PushFrame, Sinks, TypeInv, DemuxerTypes, delaying
  <2>2. demuxer' = IF sink.fb = None THEN "event" ELSE "v4l2"
    BY <1>6 DEF ScreenPush, MustAnnounce
  <2> QED BY <1>3, <1>6, <2>1, <2>2 DEF AnnouncedOnce, ScreenPush
<1>7. CASE BufferPushesFrame
  <2>1. /\ sink'.fb = held.frame /\ held.frame # None /\ UNCHANGED <<demuxer, failed>>
        /\ buffering = "wait"
    BY <1>0, <1>7, VideoAssumption
    DEF BufferPushesFrame, PushFrame, Sinks, TypeInv, BufferTypes, Packets, producing
  <2>2. buffering' = IF sink.fb = None THEN "event" ELSE "idle"
    BY <1>7 DEF BufferPushesFrame, MustAnnounce
  <2> QED BY <1>3, <1>7, <2>1, <2>2 DEF AnnouncedOnce, BufferPushesFrame
<1>8. CASE PostFrame
  <2>1. CASE events' = Append(events, "frame") /\ demuxer' = "v4l2" /\ UNCHANGED failed
    BY <1>0, <1>1, <1>8, <2>1 DEF AnnouncedOnce, PostFrame, delaying
  <2>2. CASE demuxer' = "close v4l2" /\ failed' = TRUE /\ UNCHANGED events
    BY <1>3, <1>8, <2>2 DEF AnnouncedOnce, PostFrame, delaying
  <2> QED BY <1>8, <2>1, <2>2 DEF PostFrame
<1>9. CASE BufferPostsFrame
  <2>1. CASE events' = Append(events, "frame") /\ buffering' = "idle" /\ UNCHANGED failed
    BY <1>0, <1>1, <1>9, <2>1 DEF AnnouncedOnce, BufferPostsFrame, producing
  <2>2. CASE buffering' = "ended" /\ failed' = TRUE /\ UNCHANGED events
    BY <1>3, <1>9, <2>2 DEF AnnouncedOnce, BufferPostsFrame, producing
  <2> QED BY <1>9, <2>1, <2>2 DEF BufferPostsFrame
<1>10. CASE OpenWindow \/ LeaveMode
  <2>1. PostedOnce(events') /\ (Posted' <=> Posted)
    BY <1>2, <1>10 DEF OpenWindow, LeaveMode
  <2> QED BY <1>4, <1>10, <2>1 DEF OpenWindow, LeaveMode, producing, delaying
<1>11. CASE NewFrame
  <2>1. PostedOnce(events') /\ ~Posted' /\ Posted
    BY <1>0, <1>2, <1>11 DEF NewFrame, Posted, PostedIn
  <2>2. sink'.fb = None /\ UNCHANGED <<demuxer, buffering>>
    BY <1>0, <1>11 DEF NewFrame, Sinks, producing, delaying
  <2> QED BY <2>1, <2>2 DEF AnnouncedOnce
<1>12. CASE BufferTakes \/ BufferPushesSession \/ BufferEnds
  <2>1. sink'.fb = sink.fb
    BY <1>0, <1>12 DEF BufferTakes, BufferPushesSession, BufferEnds, Sinks
  <2> QED BY <1>3, <1>4, <1>12, <2>1 DEF BufferTakes, BufferPushesSession, BufferEnds, producing
<1>13. CASE \/ OpenScreenFails \/ OpenV4l2 \/ PushDelayed \/ V4l2Push \/ CloseV4l2 \/ JoinV4l2
            \/ CloseDelay \/ JoinDelay \/ Device \/ Writer \/ UNCHANGED vars
            \/ (\E paused \in BOOLEAN : SetPaused(paused))
            \/ (\E o \in Orientations : SetOrientation(o))
  <2>1. sink'.fb = sink.fb
    BY <1>0, <1>13 DEF OpenScreenFails, OpenV4l2, PushDelayed, V4l2Push, CloseV4l2, JoinV4l2,
      CloseDelay, JoinDelay, Device, ReceiveSession, ReceiveFrame, EndOfStream, Writer,
      V4l2Takes, V4l2Writes, V4l2Ends, SetPaused, SetOrientation, vars, Sinks
  <2>2. UNCHANGED events /\ UNCHANGED buffering
    BY <1>13 DEF OpenScreenFails, OpenV4l2, PushDelayed, V4l2Push, CloseV4l2, JoinV4l2,
      CloseDelay, JoinDelay, Device, ReceiveSession, ReceiveFrame, EndOfStream, Writer,
      V4l2Takes, V4l2Writes, V4l2Ends, SetPaused, SetOrientation, vars, delaying
  <2>4. failed' = failed \/ failed' = TRUE
    BY <1>13 DEF OpenScreenFails, OpenV4l2, PushDelayed, V4l2Push, CloseV4l2, JoinV4l2,
      CloseDelay, JoinDelay, Device, ReceiveSession, ReceiveFrame, EndOfStream, Writer,
      V4l2Takes, V4l2Writes, V4l2Ends, SetPaused, SetOrientation, vars
  <2>3. demuxer' = "event" <=> demuxer = "event"
    BY <1>13 DEF OpenScreenFails, OpenV4l2, PushDelayed, V4l2Push, CloseV4l2, JoinV4l2,
      CloseDelay, JoinDelay, Device, ReceiveSession, ReceiveFrame, EndOfStream, Writer,
      V4l2Takes, V4l2Writes, V4l2Ends, SetPaused, SetOrientation, vars, producing
  <2> QED BY <1>3, <1>4, <2>1, <2>2, <2>3, <2>4
<1> QED BY <1>5, <1>6, <1>7, <1>8, <1>9, <1>10, <1>11, <1>12, <1>13
        DEF Next, Demuxer, Buffering, Main, User

-----------------------------------------------------------------------------
(* The window.                                                             *)

(* The event queue while the window is not open yet, and the end of a mode that
   is still announced, after an event was posted ... *)
LEMMA QueuedAppend ==
  ASSUME NEW q \in Seq(Events), NEW e \in Events
  PROVE  /\ \A i \in 1 .. Len(Append(q, e)) : Append(q, e)[i] = "open" =>
               (i <= Len(q) /\ q[i] = "open") \/ (e = "open" /\ i = Len(q) + 1)
         /\ (\E i \in 1 .. Len(Append(q, e)) : Append(q, e)[i] = "leave")
              <=> e = "leave" \/ \E i \in 1 .. Len(q) : q[i] = "leave"
<1> DEFINE r == Append(q, e)
<1>1. /\ Len(q) \in Nat /\ Len(r) = Len(q) + 1
      /\ r[Len(q) + 1] = e /\ \A i \in 1 .. Len(q) : r[i] = q[i]
  OBVIOUS
<1> HIDE DEF r
<1>2. \A i \in 1 .. Len(r) : r[i] = "open" =>
        (i <= Len(q) /\ q[i] = "open") \/ (e = "open" /\ i = Len(q) + 1)
  BY <1>1
<1>3. (\E i \in 1 .. Len(r) : r[i] = "leave") <=> e = "leave" \/ \E i \in 1 .. Len(q) : q[i] = "leave"
  BY <1>1
<1> QED BY <1>2, <1>3 DEF r

(* ... and after one was handled. *)
LEMMA QueuedTail ==
  ASSUME NEW q \in Seq(Events), q # <<>>,
         \A i \in 1 .. Len(q) : q[i] = "open" => i = 1
  PROVE  /\ \A i \in 1 .. Len(Tail(q)) : Tail(q)[i] # "open"
         /\ Head(q) # "leave" /\ (\E i \in 1 .. Len(q) : q[i] = "leave")
              => \E i \in 1 .. Len(Tail(q)) : Tail(q)[i] = "leave"
         /\ Head(q) = q[1] /\ 1 \in 1 .. Len(q)
<1> DEFINE r == Tail(q)
<1>1. /\ Len(q) \in Nat /\ Len(q) > 0 /\ Len(r) = Len(q) - 1 /\ Head(q) = q[1]
      /\ \A i \in 1 .. Len(r) : r[i] = q[i + 1]
  OBVIOUS
<1> HIDE DEF r
<1>2. \A i \in 1 .. Len(r) : r[i] # "open"
  BY <1>1
<1>3. Head(q) # "leave" /\ (\E i \in 1 .. Len(q) : q[i] = "leave")
        => \E i \in 1 .. Len(r) : r[i] = "leave"
  <2> SUFFICES ASSUME Head(q) # "leave", NEW i \in 1 .. Len(q), q[i] = "leave"
               PROVE  \E j \in 1 .. Len(r) : r[j] = "leave"
    OBVIOUS
  <2>1. i - 1 \in 1 .. Len(r) /\ r[i - 1] = q[i]
    BY <1>1
  <2> QED BY <2>1
<1> QED BY <1>1, <1>2, <1>3 DEF r

(* No step leaves the window, or what waits to be done to it, wrong. *)
LEMMA WindowStep == TypeInv /\ WindowIsOwed /\ [Next]_vars => WindowIsOwed'
<1> SUFFICES ASSUME TypeInv, WindowIsOwed, [Next]_vars PROVE WindowIsOwed'
  OBVIOUS
<1>0. /\ events \in Seq(Events) /\ {"open", "frame", "leave"} = Events
      /\ sink \in Sinks /\ ui \in Screens /\ window \in Windows
  BY DEF TypeInv, ScreenTypes, Events
<1> DEFINE Leaving == \E i \in 1 .. Len(events) : events[i] = "leave"
           OpenFirst == \A i \in 1 .. Len(events) : events[i] = "open" => i = 1 /\ ~ui.windowShown
<1>p. OpenFirst
  BY DEF WindowIsOwed
<1>1. ASSUME NEW e \in Events, events' = Append(events, e),
             e # "open" /\ ui'.windowShown = ui.windowShown
      PROVE  OpenFirst' /\ (Leaving' <=> Leaving \/ e = "leave")
  <2>1. /\ \A i \in 1 .. Len(events') : events'[i] = "open" => i <= Len(events) /\ events[i] = "open"
        /\ Leaving' <=> Leaving \/ e = "leave"
    BY <1>0, <1>1, QueuedAppend
  <2>2. OpenFirst'
    <3> SUFFICES ASSUME NEW i \in 1 .. Len(events'), events'[i] = "open"
                 PROVE  i = 1 /\ ~ui'.windowShown
      OBVIOUS
    <3>1. i \in 1 .. Len(events) /\ events[i] = "open"
      BY <2>1
    <3> QED BY <3>1, <1>1, <1>p
  <2> QED BY <2>1, <2>2
<1>2. ASSUME events # <<>>, events' = Tail(events)
      PROVE  /\ OpenFirst' /\ (Leaving /\ Head(events) # "leave" => Leaving')
             /\ Head(events) = "open" => ~ui.windowShown
  BY <1>0, <1>2, <1>p, QueuedTail
<1>3. ASSUME UNCHANGED events, ui'.windowShown = ui.windowShown
      PROVE  OpenFirst' /\ (Leaving' <=> Leaving)
  BY <1>3, <1>p
<1>4. ASSUME demuxer' # "open", OpenFirst', UNCHANGED <<ui, window>>, Leaving => Leaving'
      PROVE  WindowIsOwed'
  BY <1>4 DEF WindowIsOwed, Windowed
<1>q. /\ ~ui.windowShown => window.flags = {} /\ ~ui.pending
      /\ ui.windowShown /\ ~ui.pending => window.fitted = ui.owed
      /\ ui.pending /\ Windowed => Leaving
      /\ ui.content = Content(ui.size, ui.orientation)
      /\ demuxer = "open" => events = <<>> /\ ~ui.windowShown /\ buffering = "off"
  BY DEF WindowIsOwed
<1> HIDE DEF Leaving, OpenFirst
<1>r. ASSUME OpenFirst',
             demuxer' = "open" => events' = <<>> /\ ~ui'.windowShown /\ buffering' = "off",
             ~ui'.windowShown => window'.flags = {} /\ ~ui'.pending,
             ui'.windowShown /\ ~ui'.pending => window'.fitted = ui'.owed,
             ui'.pending /\ Windowed' => Leaving',
             ui'.content = Content(ui'.size, ui'.orientation)
      PROVE  WindowIsOwed'
  BY <1>r DEF WindowIsOwed, Leaving, OpenFirst
<1>5. ASSUME NEW u \in Screens, NEW f \in Frames, NEW resize \in BOOLEAN, ApplyFrame(u, f, resize),
             u.windowShown = ui.windowShown, u.pending = ui.pending, u.owed = ui.owed,
             u.content = ui.content, u.size = ui.size, u.orientation = ui.orientation,
             demuxer' # "open", OpenFirst', Leaving => Leaving'
      PROVE  WindowIsOwed'
  <2> DEFINE content == Content(f.session.size, u.orientation)
             follows == resize /\ f.session.size # u.size
  <2>1. /\ ui'.size = f.session.size /\ ui'.orientation = u.orientation
        /\ ui'.content = IF f.session.size # u.size THEN content ELSE u.content
        /\ ui'.pending = (u.pending \/ (follows /\ ~Windowed))
        /\ ui'.owed = IF follows THEN content ELSE u.owed
        /\ ui'.windowShown = u.windowShown
        /\ window'.flags = window.flags
        /\ window'.fitted = IF follows /\ Windowed THEN content ELSE window.fitted
    BY <1>0, <1>5, ApplyKeepsTypes
  <2>2. Windowed' <=> Windowed
    BY <2>1 DEF Windowed
  <2>3. ui'.content = Content(ui'.size, ui'.orientation)
    BY <1>5, <1>q, <2>1
  <2> HIDE DEF content, follows
  <2>4. ~ui'.windowShown => window'.flags = {} /\ ~ui'.pending
    BY <1>5, <1>q, <2>1 DEF Windowed
  <2>5. ui'.windowShown /\ ~ui'.pending => window'.fitted = ui'.owed
    BY <1>5, <1>q, <2>1
  <2>6. ui'.pending /\ Windowed' => Leaving'
    BY <1>5, <1>q, <2>1, <2>2
  <2> QED BY <1>5, <1>r, <2>3, <2>4, <2>5, <2>6
<1>6. CASE OpenScreen
  <2>1. /\ demuxer' = "open v4l2" /\ events' = Append(events, "open") /\ UNCHANGED window
        /\ events = <<>> /\ ~ui.windowShown /\ ~ui.pending /\ window.flags = {}
    BY <1>6, <1>q DEF OpenScreen
  <2>2. /\ ui'.windowShown = ui.windowShown /\ ui'.pending = ui.pending
        /\ ui'.content = Content(ui'.size, ui'.orientation)
    BY <1>0, <1>6 DEF OpenScreen, Screens
  <2>3. Len(events') = 1
    <3>1. Len(Append(events, "open")) = Len(events) + 1
      BY <1>0
    <3>2. Len(events) = 0
      BY <2>1
    <3>3. events' = Append(events, "open")
      BY <2>1
    <3> QED BY ONLY <3>1, <3>2, <3>3
  <2>4. OpenFirst'
    <3>1. \A i \in 1 .. Len(events') : i = 1
      BY <2>3
    <3> QED BY <2>1, <2>2, <3>1 DEF OpenFirst
  <2> QED BY <1>r, <2>1, <2>2, <2>4
<1>7. CASE OpenWindow
  <2>1. OpenFirst' /\ ~ui.windowShown /\ ~ui.pending /\ window.flags = {} /\ demuxer # "open"
    BY <1>2, <1>7, <1>q DEF OpenWindow
  <2>2. /\ ui'.windowShown /\ ui'.owed = ui.content /\ ui'.content = ui.content
        /\ ui'.size = ui.size /\ ui'.orientation = ui.orientation /\ ui'.pending = ui.pending
    BY <1>0, <1>7 DEF OpenWindow, Screens
  <2>3. window'.fitted = ui.content
    BY <1>0, <1>7, <2>1 DEF OpenWindow, Fit, Windowed, Windows
  <2>4. UNCHANGED demuxer
    BY <1>7 DEF OpenWindow, producing
  <2> QED BY <1>q, <1>r, <2>1, <2>2, <2>3, <2>4
<1>8. CASE NewFrame
  <2>1. /\ OpenFirst' /\ (Leaving => Leaving') /\ demuxer' # "open"
        /\ sink.fb \in Frames /\ (~sink.prevent) \in BOOLEAN
    BY <1>0, <1>2, <1>8, <1>q DEF NewFrame, producing, Sinks
  <2>2. CASE ui.paused
    <3>1. /\ ui'.windowShown = ui.windowShown /\ ui'.pending = ui.pending /\ ui'.owed = ui.owed
          /\ ui'.content = ui.content /\ ui'.size = ui.size /\ ui'.orientation = ui.orientation
          /\ UNCHANGED window
      BY <1>0, <1>8, <2>2 DEF NewFrame, Screens
    <3> QED BY <1>q, <1>r, <2>1, <3>1 DEF Windowed
  <2>3. CASE ~ui.paused
    BY <1>0, <1>5, <1>8, <2>1, <2>3 DEF NewFrame
  <2> QED BY <2>2, <2>3
<1>9. CASE LeaveMode
  <2>1. OpenFirst' /\ demuxer' # "open"
    BY <1>2, <1>9, <1>q DEF LeaveMode, producing
  <2>2. /\ ui'.pending = (ui.pending /\ ~Windowed)
        /\ ui'.owed = IF ui.pending /\ Windowed THEN ui.content ELSE ui.owed
        /\ ui'.windowShown = ui.windowShown /\ ui'.content = ui.content
        /\ ui'.size = ui.size /\ ui'.orientation = ui.orientation
    <3>1. (ui.pending /\ ~Windowed) \in BOOLEAN
      BY DEF Windowed
    <3> QED BY <1>0, <1>9, <3>1 DEF LeaveMode, Screens
  <2>3. /\ window'.flags = window.flags
        /\ window'.fitted = IF ui.pending /\ Windowed THEN ui.content ELSE window.fitted
    <3>1. ui.content \in Contents
      BY <1>0 DEF Screens
    <3> QED BY <1>0, <1>9, <3>1, WindowFits DEF LeaveMode
  <2> QED BY <1>q, <1>r, <2>1, <2>2, <2>3 DEF Windowed
<1>i. ASSUME Input, UNCHANGED producing PROVE demuxer' # "open" /\ ui.windowShown
  BY <1>i, <1>q DEF Input, producing
<1>10. ASSUME NEW paused \in BOOLEAN, SetPaused(paused)
       PROVE  WindowIsOwed'
  <2> DEFINE u == [ui EXCEPT !.paused = paused, !.resume = None]
  <2>1. /\ u \in Screens /\ u.windowShown = ui.windowShown /\ u.pending = ui.pending
        /\ u.owed = ui.owed /\ u.content = ui.content /\ u.size = ui.size
        /\ u.orientation = ui.orientation
    BY <1>0 DEF Screens
  <2>2. demuxer' # "open" /\ UNCHANGED events
    BY <1>10, <1>i DEF SetPaused
  <2>3. CASE ui.paused /\ ui.resume # None
    <3>1. ui.resume \in Frames /\ ApplyFrame(u, ui.resume, TRUE)
      BY <1>0, <1>10, <2>3 DEF SetPaused, Screens
    <3> HIDE DEF u
    <3>2. ui'.windowShown = ui.windowShown
      BY <1>0, <2>1, <3>1, ApplyKeepsTypes
    <3> QED BY <1>3, <1>5, <2>1, <2>2, <3>1, <3>2
  <2>4. CASE ~(ui.paused /\ ui.resume # None)
    <3>1. /\ ui'.windowShown = ui.windowShown /\ ui'.pending = ui.pending /\ ui'.owed = ui.owed
          /\ ui'.content = ui.content /\ ui'.size = ui.size /\ ui'.orientation = ui.orientation
          /\ UNCHANGED window
      BY <1>0, <1>10, <2>4 DEF SetPaused, Screens
    <3> QED BY <1>3, <1>q, <1>r, <2>2, <3>1 DEF Windowed
  <2> QED BY <2>3, <2>4
<1>11. ASSUME NEW o \in Orientations, SetOrientation(o)
       PROVE  WindowIsOwed'
  <2> DEFINE content == Content(ui.size, o)
             v == SetContentSize(ui, content, TRUE)
  <2>1. content \in Contents
    BY <1>0 DEF Screens, Content, Contents
  <2>2. /\ ui' = [v EXCEPT !.orientation = o]
        /\ Fit(content, TRUE) /\ UNCHANGED events /\ demuxer' # "open" /\ ui.windowShown
    BY <1>11, <1>i DEF SetOrientation
  <2>3. /\ v \in Screens /\ v.content = content /\ v.pending = (ui.pending \/ ~Windowed)
        /\ v.owed = content /\ v.windowShown = ui.windowShown /\ v.size = ui.size
    BY <1>0, <2>1, ContentSet
  <2> HIDE DEF v
  <2>4. /\ ui'.content = content /\ ui'.pending = (ui.pending \/ ~Windowed)
        /\ ui'.owed = content /\ ui'.windowShown = ui.windowShown /\ ui'.size = ui.size
        /\ ui'.orientation = o
    BY <2>2, <2>3 DEF Screens
  <2>5. /\ window'.flags = window.flags
        /\ window'.fitted = IF Windowed THEN content ELSE window.fitted
    <3> HIDE DEF content
    <3> QED BY <1>0, <2>1, <2>2, WindowFits
  <2>6. OpenFirst' /\ (Leaving' <=> Leaving)
    BY <1>3, <2>2, <2>4
  <2> QED BY <1>q, <1>r, <2>2, <2>4, <2>5, <2>6 DEF Windowed
<1>12. ASSUME NEW mode \in Modes, Toggle(mode)
       PROVE  WindowIsOwed'
  <2>1. UNCHANGED ui /\ demuxer' # "open" /\ ui.windowShown /\ window'.fitted = window.fitted
    BY <1>0, <1>12, <1>i DEF Toggle, Windows
  <2>2. CASE mode \in window.flags
    <3>1. events' = Append(events, "leave")
      BY <1>12, <2>2 DEF Toggle
    <3>2. OpenFirst' /\ Leaving'
      BY <1>0, <1>1, <2>1, <3>1
    <3> QED BY <1>q, <1>r, <2>1, <3>2
  <2>3. CASE mode \notin window.flags
    <3>1. UNCHANGED events /\ window'.flags = window.flags \cup {mode}
      BY <1>0, <1>12, <2>3 DEF Toggle, Windows
    <3>2. OpenFirst' /\ ~Windowed'
      BY <1>3, <2>1, <3>1 DEF Windowed
    <3> QED BY <1>q, <1>r, <2>1, <3>2
  <2> QED BY <2>2, <2>3
<1>13. CASE PostFrame \/ BufferPostsFrame
  <2>1. UNCHANGED <<ui, window>> /\ demuxer' # "open"
    BY <1>13, <1>q DEF PostFrame, BufferPostsFrame, showing, producing
  <2>2. UNCHANGED events \/ events' = Append(events, "frame")
    BY <1>13 DEF PostFrame, BufferPostsFrame
  <2>3. OpenFirst' /\ (Leaving' <=> Leaving)
    BY <1>0, <1>1, <1>3, <2>1, <2>2
  <2> QED BY <1>4, <2>1, <2>3
<1>14. CASE \/ BufferTakes \/ BufferPushesSession \/ BufferPushesFrame \/ BufferEnds
            \/ OpenScreenFails \/ OpenV4l2 \/ PushDelayed \/ ScreenPush \/ V4l2Push \/ CloseV4l2
            \/ JoinV4l2 \/ CloseDelay \/ JoinDelay \/ Device
  <2>1. UNCHANGED <<ui, window, events>>
    BY <1>14 DEF BufferTakes, BufferPushesSession, BufferPushesFrame, BufferEnds,
      OpenScreenFails, OpenV4l2, PushDelayed, ScreenPush, V4l2Push, CloseV4l2, JoinV4l2,
      CloseDelay, JoinDelay, Device, ReceiveSession, ReceiveFrame, EndOfStream, showing
  <2>2. demuxer' # "open"
    <3>1. CASE BufferTakes \/ BufferPushesSession \/ BufferPushesFrame \/ BufferEnds
      BY <3>1, <1>q DEF BufferTakes, BufferPushesSession, BufferPushesFrame, BufferEnds, producing
    <3>2. CASE \/ OpenScreenFails \/ OpenV4l2 \/ PushDelayed \/ ScreenPush \/ V4l2Push \/ CloseV4l2
               \/ JoinV4l2 \/ CloseDelay \/ JoinDelay \/ Device
      BY <3>2 DEF OpenScreenFails, OpenV4l2, PushDelayed, ScreenPush, V4l2Push, CloseV4l2, JoinV4l2,
        CloseDelay, JoinDelay, Device, ReceiveSession, ReceiveFrame, EndOfStream
    <3> QED BY <1>14, <3>1, <3>2
  <2>3. OpenFirst' /\ (Leaving' <=> Leaving)
    BY <1>3, <2>1
  <2> QED BY <1>4, <2>1, <2>2, <2>3
<1>15. CASE Writer \/ UNCHANGED vars
  <2>1. UNCHANGED <<ui, window, events, demuxer, buffering>>
    BY <1>15 DEF Writer, V4l2Takes, V4l2Writes, V4l2Ends, vars, showing, producing, delaying
  <2>2. OpenFirst' /\ (Leaving' <=> Leaving)
    BY <1>3, <2>1
  <2> QED BY <1>q, <1>r, <2>1, <2>2 DEF Windowed
<1> QED BY <1>6, <1>7, <1>8, <1>9, <1>10, <1>11, <1>12, <1>13, <1>14, <1>15
        DEF Next, Demuxer, Buffering, Main, User

-----------------------------------------------------------------------------
(* The order of sessions and frames.                                       *)

(* What comes into the delay buffer's queue: behind a session, that session
   governs; behind a frame, the one that governed the frame. *)
LEMMA GovernsAppend ==
  ASSUME NEW q \in Seq(Packets), NEW p \in Packets, NEW s, NEW first
  PROVE  /\ \A i \in 1 .. Len(q) + 1 : Governs(s, q, i, first) => Governs(s, Append(q, p), i, first)
         /\ p.kind = "session" /\ p.session = s => Governs(s, Append(q, p), Len(q) + 2, first)
         /\ p.kind = "frame" /\ Governs(s, q, Len(q) + 1, first)
              => Governs(s, Append(q, p), Len(q) + 2, first)
<1> DEFINE r == Append(q, p)
<1>1. /\ Len(q) \in Nat /\ Len(r) = Len(q) + 1
      /\ r[Len(q) + 1] = p /\ \A i \in 1 .. Len(q) : r[i] = q[i]
  OBVIOUS
<1> HIDE DEF r
<1>2. ASSUME NEW i \in 1 .. Len(q) + 1, Governs(s, q, i, first) PROVE Governs(s, r, i, first)
  <2>1. \A k \in 1 .. i - 1 : r[k] = q[k]
    BY <1>1
  <2>2. CASE s = first /\ \A k \in 1 .. i - 1 : q[k].kind = "frame"
    BY <2>1, <2>2 DEF Governs
  <2>3. ASSUME NEW j \in 1 .. i - 1, q[j].kind = "session", q[j].session = s,
               \A k \in j + 1 .. i - 1 : q[k].kind = "frame"
        PROVE  Governs(s, r, i, first)
    <3>1. \A k \in j + 1 .. i - 1 : r[k].kind = "frame"
      BY <1>1, <2>1, <2>3, SMTT(30)
    <3> QED BY <2>1, <2>3, <3>1 DEF Governs
  <2> QED BY <1>2, <2>2, <2>3 DEF Governs
<1>3. p.kind = "session" /\ p.session = s => Governs(s, r, Len(q) + 2, first)
  <2> SUFFICES ASSUME p.kind = "session", p.session = s PROVE Governs(s, r, Len(q) + 2, first)
    OBVIOUS
  <2>1. Len(q) + 1 \in 1 .. Len(q) + 2 - 1
    BY <1>1
  <2>2. \A k \in (Len(q) + 1) + 1 .. Len(q) + 2 - 1 : r[k].kind = "frame"
    BY <1>1
  <2> QED BY <1>1, <2>1, <2>2 DEF Governs
<1>4. p.kind = "frame" /\ Governs(s, q, Len(q) + 1, first) => Governs(s, r, Len(q) + 2, first)
  <2> SUFFICES ASSUME p.kind = "frame", Governs(s, q, Len(q) + 1, first)
               PROVE  Governs(s, r, Len(q) + 2, first)
    OBVIOUS
  <2>1. \A k \in 1 .. Len(q) + 2 - 1 : k \in 1 .. Len(q) + 1 - 1 \/ r[k].kind = "frame"
    BY <1>1
  <2>2. \A k \in 1 .. Len(q) + 1 - 1 : r[k] = q[k]
    BY <1>1
  <2>3. CASE s = first /\ \A k \in 1 .. Len(q) + 1 - 1 : q[k].kind = "frame"
    BY <2>1, <2>2, <2>3 DEF Governs
  <2>4. ASSUME NEW j \in 1 .. Len(q) + 1 - 1, q[j].kind = "session", q[j].session = s,
               \A k \in j + 1 .. Len(q) + 1 - 1 : q[k].kind = "frame"
        PROVE  Governs(s, r, Len(q) + 2, first)
    <3>1. j \in 1 .. Len(q) + 2 - 1 /\ r[j] = q[j]
      BY <1>1
    <3>2. \A k \in j + 1 .. Len(q) + 2 - 1 : r[k].kind = "frame"
      <4> SUFFICES ASSUME NEW k \in j + 1 .. Len(q) + 2 - 1 PROVE r[k].kind = "frame"
        OBVIOUS
      <4>1. CASE k = Len(q) + 1
        BY <1>1, <4>1
      <4>2. CASE k # Len(q) + 1
        <5>1. k \in j + 1 .. Len(q) + 1 - 1 /\ r[k] = q[k]
          BY <1>1, <4>2
        <5> QED BY <2>4, <5>1
      <4> QED BY <4>1, <4>2
    <3> QED BY <2>4, <3>1, <3>2 DEF Governs
  <2> QED BY <2>3, <2>4 DEF Governs
<1> QED BY <1>2, <1>3, <1>4 DEF r

(* What leaves it: what governed the packets behind its head still does, once
   the head has been pushed. *)
LEMMA GovernsTail ==
  ASSUME NEW q \in Seq(Packets), q # <<>>, NEW s, NEW first
  PROVE  /\ Governs(s, q, 1, first) => s = first
         /\ \A i \in 1 .. Len(q) : Governs(s, q, i + 1, first) =>
              Governs(s, Tail(q), i,
                      IF Head(q).kind = "session" THEN Head(q).session ELSE first)
<1> DEFINE r == Tail(q)
           next == IF Head(q).kind = "session" THEN Head(q).session ELSE first
<1>1. /\ Len(q) \in Nat /\ Len(q) > 0 /\ Len(r) = Len(q) - 1 /\ Head(q) = q[1]
      /\ \A i \in 1 .. Len(r) : r[i] = q[i + 1]
  OBVIOUS
<1> HIDE DEF r
<1>2. Governs(s, q, 1, first) => s = first
  BY DEF Governs
<1>3. ASSUME NEW i \in 1 .. Len(q), Governs(s, q, i + 1, first) PROVE Governs(s, r, i, next)
  <2>1. CASE s = first /\ \A k \in 1 .. i + 1 - 1 : q[k].kind = "frame"
    <3>1. next = first
      BY <1>1, <2>1
    <3>2. \A k \in 1 .. i - 1 : r[k].kind = "frame"
      BY <1>1, <2>1
    <3> QED BY <2>1, <3>1, <3>2 DEF Governs
  <2>2. ASSUME NEW j \in 1 .. i + 1 - 1, q[j].kind = "session", q[j].session = s,
               \A k \in j + 1 .. i + 1 - 1 : q[k].kind = "frame"
        PROVE  Governs(s, r, i, next)
    <3>1. \A k \in j .. i - 1 : k \in 1 .. Len(r) => r[k].kind = "frame"
      BY <1>1, <2>2
    <3>2. CASE j = 1
      <4>1. next = s
        BY <1>1, <2>2, <3>2
      <4>2. \A k \in 1 .. i - 1 : r[k].kind = "frame"
        BY <1>1, <3>1, <3>2
      <4> QED BY <4>1, <4>2 DEF Governs
    <3>3. CASE j # 1
      <4>1. j - 1 \in 1 .. i - 1 /\ r[j - 1] = q[j]
        BY <1>1, <3>3
      <4>2. \A k \in (j - 1) + 1 .. i - 1 : r[k].kind = "frame"
        BY <1>1, <3>1
      <4> QED BY <2>2, <4>1, <4>2 DEF Governs
    <3> QED BY <3>2, <3>3
  <2> QED BY <1>3, <2>1, <2>2 DEF Governs
<1> QED BY <1>2, <1>3 DEF r

(* The queue stays in order when a packet comes in ... *)
LEMMA GovernedAppend ==
  ASSUME NEW q \in Seq(Packets), NEW p \in Packets, NEW s, NEW first, Governed(q, first, s)
  PROVE  /\ p.kind = "session" => Governed(Append(q, p), first, p.session)
         /\ p.kind = "frame" /\ p.frame.session = s => Governed(Append(q, p), first, s)
<1> DEFINE r == Append(q, p)
<1>1. /\ Len(q) \in Nat /\ Len(r) = Len(q) + 1 /\ Len(r) + 1 = Len(q) + 2
      /\ r[Len(q) + 1] = p /\ \A i \in 1 .. Len(q) : r[i] = q[i]
  OBVIOUS
<1>2. /\ \A i \in 1 .. Len(q) + 1, t \in Sessions :
           Governs(t, q, i, first) => Governs(t, r, i, first)
      /\ p.kind = "session" => Governs(p.session, r, Len(q) + 2, first)
      /\ p.kind = "frame" => Governs(s, r, Len(q) + 2, first)
  BY GovernsAppend DEF Governed
<1>3. Governs(s, q, Len(q) + 1, first) => Governs(s, r, Len(q) + 1, first)
  BY <1>1, GovernsAppend
<1>4. \A x \in Packets : x.kind = "frame" => x.frame.session \in Sessions
  BY DEF Packets, Frames
<1>5. \A i \in 1 .. Len(q) : q[i] \in Packets
  OBVIOUS
<1> HIDE DEF r
<1>6. \A i \in 1 .. Len(q) : r[i].kind = "frame" => Governs(r[i].frame.session, r, i, first)
  <2> SUFFICES ASSUME NEW i \in 1 .. Len(q), r[i].kind = "frame"
               PROVE  Governs(r[i].frame.session, r, i, first)
    OBVIOUS
  <2>1. r[i] = q[i] /\ i \in 1 .. Len(q) + 1
    BY <1>1
  <2> QED BY <1>2, <1>4, <1>5, <2>1 DEF Governed
<1>7. p.kind = "frame" /\ p.frame.session = s =>
        Governs(r[Len(q) + 1].frame.session, r, Len(q) + 1, first)
  BY <1>1, <1>3 DEF Governed
<1>8. \A i \in 1 .. Len(r) : i \in 1 .. Len(q) \/ i = Len(q) + 1
  BY <1>1
<1> HIDE DEF Governs
<1>9. p.kind = "session" => Governed(r, first, p.session)
  BY <1>1, <1>2, <1>6, <1>8 DEF Governed
<1>10. p.kind = "frame" /\ p.frame.session = s => Governed(r, first, s)
  BY <1>1, <1>2, <1>6, <1>7, <1>8 DEF Governed
<1> QED BY <1>9, <1>10 DEF r

(* ... and when the buffering thread takes one. *)
LEMMA GovernedTail ==
  ASSUME NEW q \in Seq(Packets), q # <<>>, NEW s, NEW first, Governed(q, first, s)
  PROVE  /\ Head(q).kind = "frame" => Head(q).frame.session = first
         /\ Governed(Tail(q), IF Head(q).kind = "session" THEN Head(q).session ELSE first, s)
<1> DEFINE r == Tail(q)
           next == IF Head(q).kind = "session" THEN Head(q).session ELSE first
<1>1. /\ Len(q) \in Nat /\ Len(q) > 0 /\ Len(r) = Len(q) - 1 /\ Head(q) = q[1]
      /\ \A i \in 1 .. Len(r) : r[i] = q[i + 1]
  OBVIOUS
<1>2. \A t : /\ Governs(t, q, 1, first) => t = first
             /\ \A i \in 1 .. Len(q) : Governs(t, q, i + 1, first) => Governs(t, r, i, next)
  BY GovernsTail
<1> HIDE DEF r, next, Governs
<1>3. Head(q).kind = "frame" => Head(q).frame.session = first
  BY <1>1, <1>2 DEF Governed
<1>4. \A i \in 1 .. Len(r) : r[i].kind = "frame" => Governs(r[i].frame.session, r, i, next)
  <2> SUFFICES ASSUME NEW i \in 1 .. Len(r), r[i].kind = "frame"
               PROVE  Governs(r[i].frame.session, r, i, next)
    OBVIOUS
  <2>1. r[i] = q[i + 1] /\ i + 1 \in 1 .. Len(q) /\ i \in 1 .. Len(q)
    BY <1>1
  <2> QED BY <1>2, <2>1 DEF Governed
<1>5. Governs(s, r, Len(r) + 1, next)
  <2>1. Len(r) + 1 = Len(q) /\ Len(q) \in 1 .. Len(q)
    BY <1>1
  <2> QED BY <1>2, <2>1 DEF Governed
<1>6. Governed(r, next, s)
  BY <1>4, <1>5 DEF Governed
<1> QED BY <1>3, <1>6 DEF r, next

(* No step puts a frame under another session than its own. *)
LEMMA SessionsStep ==
  TypeInv /\ WindowIsOwed /\ SessionsInOrder /\ [Next]_vars => SessionsInOrder'
<1> SUFFICES ASSUME TypeInv, WindowIsOwed, SessionsInOrder, [Next]_vars PROVE SessionsInOrder'
  OBVIOUS
<1>0. /\ sink \in Sinks /\ session \in Sessions /\ sent \in Nat
      /\ db \in [queue : Seq(Packets), stopped : BOOLEAN, clocked : BOOLEAN]
  <2>1. sent \in Nat
    BY Bounds DEF TypeInv, DemuxerTypes
  <2>2. sink \in Sinks
    BY DEF TypeInv, ScreenTypes
  <2>3. session \in Sessions
    BY DEF TypeInv, DemuxerTypes
  <2>4. db \in [queue : Seq(Packets), stopped : BOOLEAN, clocked : BOOLEAN]
    BY DEF TypeInv, BufferTypes
  <2> QED BY <2>1, <2>2, <2>3, <2>4
<1>1. CASE UNCHANGED <<sink, demuxer, item, session, sent, buffering, held, db, delayed>>
  BY <1>1 DEF SessionsInOrder, NextSession
<1>2. CASE OpenScreen
  <2>1. /\ demuxer = "open" /\ demuxer' = "open v4l2" /\ db.queue = <<>> /\ buffering = "off"
        /\ sink'.session = session /\ sink'.fb = sink.fb /\ sink'.prevent = sink.prevent
        /\ UNCHANGED <<session, sent, item, db, delayed>>
        /\ buffering' = IF delayed THEN "idle" ELSE "off"
    BY <1>0, <1>2 DEF OpenScreen, SessionsInOrder, WindowIsOwed, Sinks
  <2>2. Governed(<<>>, session, session)
    <3>1. Len(<<>>) = 0 /\ 1 .. Len(<<>>) = {} /\ 1 .. Len(<<>>) + 1 - 1 = {}
      OBVIOUS
    <3> QED BY <3>1 DEF Governed, Governs
  <2> HIDE DEF Governed
  <2> QED BY <2>1, <2>2 DEF SessionsInOrder, NextSession
<1>3. CASE OpenScreenFails \/ EndOfStream \/ CloseV4l2 \/ JoinV4l2 \/ OpenV4l2 \/ V4l2Push
  <2>1. /\ UNCHANGED <<sink, session, sent, buffering, held, db, delayed>>
        /\ demuxer' \in {"ended", "close v4l2", "join v4l2", "close delay", "recv"}
        /\ demuxer' = "ended" => demuxer = "open"
        /\ demuxer' = "recv" => demuxer \in {"open v4l2", "v4l2"}
        /\ demuxer # "ended" /\ (demuxer' # "ended" => demuxer # "open")
    BY <1>3 DEF OpenScreenFails, EndOfStream, CloseV4l2, JoinV4l2, OpenV4l2, V4l2Push, delaying
  <2>2. demuxer' = "recv" /\ delayed /\ ~db.clocked => sent = 0
    BY <1>3, <2>1 DEF SessionsInOrder
  <2>3. demuxer = "open" => buffering = "off"
    BY DEF WindowIsOwed
  <2> QED BY <2>1, <2>2, <2>3 DEF SessionsInOrder, NextSession
<1>4. CASE ReceiveSession
  <2>1. PICK s \in Sessions :
          /\ session' = s
          /\ IF ~delayed
             THEN sink' = [sink EXCEPT !.session = s] /\ UNCHANGED <<db, demuxer>>
             ELSE IF db.stopped
             THEN demuxer' = "close v4l2" /\ UNCHANGED <<db, sink>>
             ELSE /\ db' = [db EXCEPT !.queue = Append(@, [kind |-> "session", session |-> s])]
                  /\ UNCHANGED <<sink, demuxer>>
    BY <1>4 DEF ReceiveSession
  <2>2. demuxer = "recv" /\ UNCHANGED <<delayed, sent, item, buffering, held>>
    BY <1>4 DEF ReceiveSession
  <2>3. CASE ~delayed
    <3>1. sink'.session = s /\ sink'.fb = sink.fb /\ sink'.prevent = sink.prevent
      BY <1>0, <2>1, <2>3 DEF Sinks
    <3>2. UNCHANGED <<db, demuxer>>
      BY <2>1, <2>3
    <3> QED BY <2>1, <2>2, <2>3, <3>1, <3>2 DEF SessionsInOrder
  <2>4. CASE delayed /\ db.stopped
    BY <2>1, <2>2, <2>4 DEF SessionsInOrder
  <2>5. CASE delayed /\ ~db.stopped
    <3>1. [kind |-> "session", session |-> s] \in Packets
      BY DEF Packets
    <3>2. /\ db'.queue = Append(db.queue, [kind |-> "session", session |-> s])
          /\ db'.clocked = db.clocked /\ db'.stopped = db.stopped /\ UNCHANGED <<sink, demuxer>>
      BY <1>0, <2>1, <2>5
    <3>3. Governed(db.queue, NextSession, session)
      BY <2>2, <2>5 DEF SessionsInOrder
    <3>4. Governed(db'.queue, NextSession, session')
      BY <1>0, <2>1, <3>1, <3>2, <3>3, GovernedAppend
    <3>5. NextSession' = NextSession
      BY <2>2, <3>2 DEF NextSession
    <3> QED BY <2>1, <2>2, <2>5, <3>2, <3>4, <3>5 DEF SessionsInOrder
  <2> QED BY <2>3, <2>4, <2>5
<1>5. CASE ReceiveFrame
  <2>1. /\ demuxer = "recv" /\ item' = [n |-> sent + 1, session |-> session]
        /\ demuxer' = IF delayed THEN "delay" ELSE "screen"
        /\ UNCHANGED <<delayed, session, db, buffering, held, sink>>
    BY <1>5 DEF ReceiveFrame, delaying
  <2>2. item'.n = sent + 1 /\ item'.session = session
    BY <2>1
  <2>3. delayed /\ ~db.clocked => item'.n = 1
    BY <1>0, <2>1, <2>2 DEF SessionsInOrder
  <2> QED BY <2>1, <2>2, <2>3 DEF SessionsInOrder, NextSession
<1>6. CASE PushDelayed
  <2>1. demuxer = "delay" /\ UNCHANGED <<delayed, session, sent, item, buffering, held, sink>>
    BY <1>6 DEF PushDelayed
  <2>2. CASE db.stopped
    <3>1. demuxer' = "close v4l2" /\ UNCHANGED db
      BY <1>6, <2>2 DEF PushDelayed
    <3>2. delayed
      BY <2>1 DEF SessionsInOrder
    <3> QED BY <2>1, <2>2, <3>1, <3>2 DEF SessionsInOrder
  <2>3. CASE ~db.stopped /\ Asap
    <3>1. demuxer' = "screen" /\ db'.queue = db.queue /\ db'.clocked = TRUE /\ db'.stopped = FALSE
      BY <1>0, <1>6, <2>3 DEF PushDelayed
    <3>2. item.n = 1 /\ delayed
      BY <2>1, <2>3 DEF SessionsInOrder, Asap
    <3> QED BY <2>1, <2>3, <3>1, <3>2 DEF SessionsInOrder, NextSession
  <2>4. CASE ~db.stopped /\ ~Asap
    <3> DEFINE p == [kind |-> "frame", frame |-> item]
    <3>1. item \in Frames /\ item.session = session /\ delayed
      BY <2>1 DEF TypeInv, DemuxerTypes, SessionsInOrder
    <3>2. p \in Packets /\ p.kind = "frame" /\ p.frame.session = session
      BY <3>1 DEF Packets
    <3>3. /\ demuxer' = "v4l2" /\ db'.queue = Append(db.queue, p)
          /\ db'.clocked = TRUE /\ db'.stopped = FALSE
      BY <1>0, <1>6, <2>4 DEF PushDelayed
    <3> HIDE DEF p
    <3>4. Governed(db.queue, NextSession, session)
      BY <2>1, <2>4, <3>1 DEF SessionsInOrder
    <3>5. Governed(db'.queue, NextSession, session)
      BY <1>0, <3>2, <3>3, <3>4, GovernedAppend
    <3>6. NextSession' = NextSession
      BY <2>1 DEF NextSession
    <3> QED BY <2>1, <3>1, <3>3, <3>5, <3>6 DEF SessionsInOrder
  <2> QED BY <2>2, <2>3, <2>4
<1>7. CASE ScreenPush
  <2>1. /\ demuxer = "screen" /\ demuxer' \in {"event", "v4l2"}
        /\ UNCHANGED <<delayed, session, sent, db, buffering, held>>
        /\ sink'.fb = item /\ sink'.prevent = sink.session.resized
        /\ sink'.session = sink.session
    BY <1>0, <1>7 DEF ScreenPush, PushFrame, Sinks, delaying
  <2>2. item.n > 1 => item.session = sink.session
    BY <2>1 DEF SessionsInOrder
  <2> QED BY <2>1, <2>2 DEF SessionsInOrder, NextSession
<1>8. CASE PostFrame
  <2>1. /\ demuxer = "event" /\ demuxer' \in {"v4l2", "close v4l2"}
        /\ UNCHANGED <<delayed, session, sent, db, buffering, held, sink, item>>
    BY <1>8 DEF PostFrame, delaying
  <2> QED BY <2>1 DEF SessionsInOrder, NextSession
<1>9. CASE BufferTakes
  <2>1. /\ buffering = "idle" /\ ~db.stopped /\ db.queue # <<>>
        /\ held' = Head(db.queue) /\ db'.queue = Tail(db.queue)
        /\ db'.clocked = db.clocked /\ db'.stopped = db.stopped
        /\ buffering' = IF held'.kind = "frame" THEN "wait" ELSE "session"
        /\ UNCHANGED <<delayed, session, sent, demuxer, item, sink>>
    BY <1>0, <1>9 DEF BufferTakes, producing
  <2>2. delayed /\ demuxer \notin {"open", "ended"}
    BY <2>1 DEF SessionsInOrder
  <2>3. Governed(db.queue, sink.session, session)
    BY <2>1, <2>2 DEF SessionsInOrder, NextSession
  <2>4. /\ held'.kind = "frame" => held'.frame.session = sink.session
        /\ Governed(db'.queue, IF held'.kind = "session" THEN held'.session ELSE sink.session,
                    session)
    BY <1>0, <2>1, <2>3, GovernedTail
  <2>5. held'.kind \in {"frame", "session"}
    BY <1>0, <2>1 DEF Packets
  <2>6. NextSession' = IF held'.kind = "session" THEN held'.session ELSE sink.session
    BY <2>1, <2>5 DEF NextSession
  <2> QED BY <2>1, <2>2, <2>4, <2>6 DEF SessionsInOrder
<1>10. CASE BufferPushesSession
  <2>1. /\ buffering = "session" /\ buffering' = "idle" /\ sink'.session = held.session
        /\ sink'.fb = sink.fb /\ sink'.prevent = sink.prevent
        /\ UNCHANGED <<delayed, session, sent, demuxer, item, db>>
    BY <1>0, <1>10 DEF BufferPushesSession, producing, Sinks
  <2>2. delayed /\ demuxer # "ended" /\ NextSession' = NextSession
    BY <2>1 DEF SessionsInOrder, NextSession
  <2>3. ~(demuxer = "screen" /\ item.n > 1)
    <3>1. demuxer = "screen" => item.n = 1
      BY <2>2 DEF SessionsInOrder
    <3>2. ~(1 > 1)
      OBVIOUS
    <3> QED BY <3>1, <3>2
  <2> QED BY <2>1, <2>2, <2>3 DEF SessionsInOrder
<1>11. CASE BufferPushesFrame
  <2>1. /\ buffering = "wait" /\ buffering' \in {"event", "idle"}
        /\ sink'.session = sink.session /\ sink'.fb = held.frame
        /\ sink'.prevent = sink.session.resized
        /\ UNCHANGED <<delayed, session, sent, demuxer, item, db>>
    BY <1>0, <1>11 DEF BufferPushesFrame, PushFrame, producing, Sinks
  <2>2. delayed /\ demuxer # "ended" /\ NextSession' = NextSession
    BY <2>1 DEF SessionsInOrder, NextSession
  <2>3. held.frame.n > 1 => held.frame.session = sink.session
    BY <2>1 DEF SessionsInOrder
  <2> QED BY <2>1, <2>2, <2>3 DEF SessionsInOrder
<1>12. CASE BufferPostsFrame \/ BufferEnds
  <2>1. /\ buffering \in {"event", "idle", "wait"}
        /\ UNCHANGED <<delayed, session, sent, demuxer, item, sink>>
        /\ db'.clocked = db.clocked
    BY <1>0, <1>12 DEF BufferPostsFrame, BufferEnds, producing
  <2>2. \/ buffering' = "idle" /\ UNCHANGED db
        \/ buffering' = "ended" /\ db'.stopped /\ db'.queue = <<>>
    BY <1>0, <1>12 DEF BufferPostsFrame, BufferEnds
  <2>3. delayed /\ demuxer # "ended"
    BY <2>1 DEF SessionsInOrder
  <2>4. CASE buffering' = "idle" /\ UNCHANGED db
    <3>1. buffering = "event"
      BY <1>0, <1>12, <2>4 DEF BufferPostsFrame, BufferEnds
    <3>2. NextSession' = NextSession
      BY <2>1, <2>4, <3>1 DEF NextSession
    <3> QED BY <2>1, <2>3, <2>4, <3>2 DEF SessionsInOrder
  <2>5. CASE buffering' = "ended" /\ db'.stopped /\ db'.queue = <<>>
    BY <2>1, <2>3, <2>5 DEF SessionsInOrder
  <2> QED BY <2>2, <2>4, <2>5
<1>13. CASE CloseDelay
  <2>1. /\ demuxer' = "join delay" /\ db'.queue = db.queue /\ db'.clocked = db.clocked /\ db'.stopped
        /\ UNCHANGED <<delayed, session, sent, item, buffering, held, sink>>
        /\ demuxer = "close delay"
    BY <1>0, <1>13 DEF CloseDelay
  <2> QED BY <2>1 DEF SessionsInOrder, NextSession
<1>14. CASE JoinDelay
  <2>1. /\ demuxer' = "ended" /\ buffering \in {"off", "ended"}
        /\ sink'.session = sink.session /\ sink'.fb = sink.fb /\ sink'.prevent = sink.prevent
        /\ UNCHANGED <<delayed, session, sent, item, db, buffering, held>>
    BY <1>0, <1>14 DEF JoinDelay, delaying, Sinks
  <2> QED BY <2>1 DEF SessionsInOrder
<1>15. CASE NewFrame
  <2>1. /\ sink'.fb = None /\ sink'.session = sink.session
        /\ UNCHANGED <<delayed, session, sent, demuxer, item, db, buffering, held>>
    BY <1>0, <1>15 DEF NewFrame, producing, delaying, Sinks
  <2> QED BY <2>1 DEF SessionsInOrder, NextSession
<1>16. CASE Writer \/ OpenWindow \/ LeaveMode \/ User \/ UNCHANGED vars
  BY <1>1, <1>16 DEF Writer, V4l2Takes, V4l2Writes, V4l2Ends, OpenWindow, LeaveMode, User,
    SetPaused, SetOrientation, Toggle, vars, producing, delaying
<1> QED BY <1>2, <1>3, <1>4, <1>5, <1>6, <1>7, <1>8, <1>9, <1>10, <1>11, <1>12, <1>13, <1>14,
           <1>15, <1>16 DEF Next, Demuxer, Device, Buffering, Main

-----------------------------------------------------------------------------
(* The order of frames.                                                    *)

(* The frame numbers in the queue are above what the sink has and what the
   buffering thread holds. *)
LEMMA FramesStep ==
  TypeInv /\ SessionsInOrder /\ FramesInOrder /\ [Next]_vars =>
    FramesInOrder' /\ sink'.last >= sink.last /\ ui'.shown >= ui.shown
<1> SUFFICES ASSUME TypeInv, SessionsInOrder, FramesInOrder, [Next]_vars
             PROVE  FramesInOrder' /\ sink'.last >= sink.last /\ ui'.shown >= ui.shown
  OBVIOUS
<1>0. /\ sink \in Sinks /\ ui \in Screens /\ sent \in Nat
      /\ db \in [queue : Seq(Packets), stopped : BOOLEAN, clocked : BOOLEAN]
  BY Bounds DEF TypeInv, ScreenTypes, DemuxerTypes, BufferTypes
<1>a. sink.last \in Nat /\ ui.shown \in Nat
  BY <1>0 DEF Sinks, Screens
<1>b. \A p \in Packets : p.kind = "frame" => p.frame \in Frames /\ p.frame.n \in Nat
  BY Bounds DEF Packets
<1>c. \A i \in 1 .. Len(db.queue) : db.queue[i] \in Packets
  BY <1>0
<1>1. ASSUME UNCHANGED <<sink, sent, ui, db, held>>,
             Pushing' => Pushing, buffering' = "wait" => buffering = "wait"
      PROVE  FramesInOrder'
  BY <1>1 DEF FramesInOrder
<1>2. CASE \/ OpenScreenFails \/ EndOfStream \/ CloseV4l2 \/ JoinV4l2 \/ OpenV4l2 \/ V4l2Push
           \/ PostFrame
  <2>1. UNCHANGED <<sink, sent, ui, db, held, buffering>>
    BY <1>2 DEF OpenScreenFails, EndOfStream, CloseV4l2, JoinV4l2, OpenV4l2, V4l2Push,
      PostFrame, showing, delaying
  <2>2. ~Pushing'
    BY <1>2 DEF OpenScreenFails, EndOfStream, CloseV4l2, JoinV4l2, OpenV4l2, V4l2Push,
      PostFrame, Pushing
  <2> HIDE DEF Pushing
  <2> QED BY <1>1, <1>a, <2>1, <2>2
<1>3. CASE Writer \/ UNCHANGED vars
  BY <1>1, <1>3, <1>a DEF Writer, V4l2Takes, V4l2Writes, V4l2Ends, vars, showing, delaying, producing,
    Pushing
<1>4. ASSUME sink'.last = sink.last, sink'.fb \in {sink.fb, None}, UNCHANGED sent, UNCHANGED held,
             ui'.shown = ui.shown, ui'.resume = ui.resume, ui'.paused = ui.paused,
             db'.queue = db.queue, Pushing' => Pushing, buffering' = "wait" => buffering = "wait"
      PROVE  FramesInOrder' /\ sink'.last >= sink.last /\ ui'.shown >= ui.shown
  BY <1>4, <1>a DEF FramesInOrder
<1>5. CASE OpenScreen
  BY <1>0, <1>4, <1>5 DEF OpenScreen, Sinks, Screens, Pushing
<1>6. CASE ReceiveSession
  <2>1. PICK s \in Sessions :
          /\ session' = s
          /\ IF ~delayed
             THEN sink' = [sink EXCEPT !.session = s] /\ UNCHANGED <<db, demuxer>>
             ELSE IF db.stopped
             THEN demuxer' = "close v4l2" /\ UNCHANGED <<db, sink>>
             ELSE /\ db' = [db EXCEPT !.queue = Append(@, [kind |-> "session", session |-> s])]
                  /\ UNCHANGED <<sink, demuxer>>
    BY <1>6 DEF ReceiveSession
  <2>2. demuxer = "recv" /\ UNCHANGED <<sent, held, buffering, ui>>
    BY <1>6 DEF ReceiveSession, showing
  <2>3. CASE ~(delayed /\ ~db.stopped)
    <3>1. sink'.last = sink.last /\ sink'.fb = sink.fb /\ ~Pushing' /\ db'.queue = db.queue
      BY <1>0, <2>1, <2>2, <2>3 DEF Sinks, Pushing
    <3> QED BY <1>4, <2>2, <3>1
  <2>4. CASE delayed /\ ~db.stopped
    <3> DEFINE p == [kind |-> "session", session |-> s]
    <3>1. db'.queue = Append(db.queue, p) /\ UNCHANGED <<sink, demuxer>> /\ p \in Packets
          /\ p.kind = "session"
      BY <1>0, <2>1, <2>4 DEF Packets
    <3> HIDE DEF p
    <3>2. /\ Len(db.queue) \in Nat /\ Len(db'.queue) = Len(db.queue) + 1
          /\ db'.queue[Len(db.queue) + 1].kind # "frame"
          /\ \A i \in 1 .. Len(db.queue) : db'.queue[i] = db.queue[i]
      BY <1>0, <3>1
    <3>3. \A i \in 1 .. Len(db'.queue) : db'.queue[i].kind = "frame" =>
            i \in 1 .. Len(db.queue) /\ db'.queue[i] = db.queue[i]
      BY <3>2
    <3>4. \A i \in 1 .. Len(db.queue) : \A j \in 1 .. i - 1 : db'.queue[j] = db.queue[j]
      BY <3>2
    <3> HIDE DEF Pushing
    <3>5. (Pushing' <=> Pushing) /\ UNCHANGED <<sink, sent, ui, held, buffering>>
      BY <2>2, <3>1 DEF Pushing
    <3> QED BY <1>a, <3>3, <3>4, <3>5, SMTT(30) DEF FramesInOrder
  <2> QED BY <2>3, <2>4
<1>7. CASE ReceiveFrame
  <2>1. /\ sent' = sent + 1 /\ ~Pushing
        /\ UNCHANGED <<sink, ui, db, held, buffering>>
    BY <1>7 DEF ReceiveFrame, Pushing, delaying, showing
  <2>2. buffering = "wait" => held.frame.n \in Nat
    BY <1>b DEF TypeInv, BufferTypes
  <2> HIDE DEF Pushing
  <2> QED BY <1>0, <1>a, <1>b, <1>c, <2>1, <2>2 DEF FramesInOrder
<1>8. CASE PushDelayed
  <2>1. demuxer = "delay" /\ UNCHANGED <<sink, sent, ui, held, buffering>> /\ Pushing
    BY <1>8 DEF PushDelayed, Pushing, showing
  <2>2. CASE db.stopped \/ Asap
    <3>1. db'.queue = db.queue
      BY <1>0, <1>8, <2>2 DEF PushDelayed
    <3> QED BY <1>4, <2>1, <3>1
  <2>3. CASE ~db.stopped /\ ~Asap
    <3> DEFINE p == [kind |-> "frame", frame |-> item]
    <3>1. item \in Frames /\ item.n = sent
      BY <2>1 DEF TypeInv, DemuxerTypes
    <3>2. /\ db'.queue = Append(db.queue, p) /\ p \in Packets /\ p.kind = "frame" /\ p.frame.n = sent
          /\ demuxer' = "v4l2"
      BY <1>0, <1>8, <2>3, <3>1 DEF Packets, PushDelayed
    <3> HIDE DEF p
    <3>3. /\ Len(db.queue) \in Nat /\ Len(db'.queue) = Len(db.queue) + 1
          /\ db'.queue[Len(db.queue) + 1] = p
          /\ \A i \in 1 .. Len(db.queue) : db'.queue[i] = db.queue[i]
      BY <1>0, <3>2
    <3>4. ~Pushing' /\ sink.last < sent /\ (buffering = "wait" => held.frame.n < sent)
      BY <2>1, <3>2 DEF Pushing, FramesInOrder
    <3> HIDE DEF Pushing
    <3>5. ASSUME NEW i \in 1 .. Len(db'.queue), db'.queue[i].kind = "frame"
          PROVE  /\ sink.last < db'.queue[i].frame.n
                 /\ buffering = "wait" => held.frame.n < db'.queue[i].frame.n
                 /\ db'.queue[i].frame.n <= sent
                 /\ \A j \in 1 .. i - 1 : db'.queue[j].kind = "frame" =>
                      db'.queue[j].frame.n < db'.queue[i].frame.n
      <4>1. CASE i = Len(db.queue) + 1
        <5>1. \A j \in 1 .. i - 1 : db.queue[j].kind = "frame" => db.queue[j].frame.n < sent
          BY <2>1, <3>3, <4>1 DEF FramesInOrder
        <5>2. \A j \in 1 .. i - 1 : db'.queue[j] = db.queue[j]
          BY <3>3, <4>1
        <5> QED BY <1>0, <3>2, <3>3, <3>4, <4>1, <5>1, <5>2
      <4>2. CASE i # Len(db.queue) + 1
        <5>1. i \in 1 .. Len(db.queue)
          BY <3>3, <4>2
        <5>2. \A j \in 1 .. i - 1 : db'.queue[j] = db.queue[j]
          BY <3>3, <5>1
        <5> QED BY <3>3, <3>5, <5>1, <5>2 DEF FramesInOrder
      <4> QED BY <4>1, <4>2
    <3>6. \A i \in 1 .. Len(db'.queue) : db'.queue[i].kind = "frame" =>
                 /\ sink.last < db'.queue[i].frame.n
                 /\ buffering = "wait" => held.frame.n < db'.queue[i].frame.n
                 /\ db'.queue[i].frame.n <= sent
                 /\ \A j \in 1 .. i - 1 : db'.queue[j].kind = "frame" =>
                      db'.queue[j].frame.n < db'.queue[i].frame.n
      BY <3>5
    <3> QED BY <1>a, <2>1, <3>4, <3>6 DEF FramesInOrder
  <2> QED BY <2>2, <2>3
<1>9. CASE ScreenPush
  <2>1. /\ demuxer = "screen" /\ Pushing /\ ~Pushing'
        /\ UNCHANGED <<sent, ui, db, held, buffering>>
        /\ sink'.fb = item /\ sink'.last = item.n
    BY <1>0, <1>9 DEF ScreenPush, PushFrame, Sinks, Pushing, delaying, showing
  <2>2. item.n = sent /\ item # None
    BY <2>1, VideoAssumption DEF TypeInv, DemuxerTypes
  <2>3. \A i \in 1 .. Len(db.queue) : db.queue[i].kind # "frame"
    <3>1. CASE delayed
      <4>1. sent = 1
        BY <2>1, <2>2, <3>1 DEF SessionsInOrder
      <4>2. SUFFICES ASSUME NEW i \in 1 .. Len(db.queue), db.queue[i].kind = "frame" PROVE FALSE
        OBVIOUS
      <4>3. sink.last < db.queue[i].frame.n /\ db.queue[i].frame.n < sent
            /\ db.queue[i].frame.n \in Nat
        BY <1>b, <1>c, <2>1, <4>2 DEF FramesInOrder
      <4> QED BY <1>a, <4>1, <4>3
    <3>2. CASE ~delayed
      <4>1. db.queue = <<>>
        BY <3>2 DEF SessionsInOrder
      <4>2. 1 .. Len(db.queue) = {}
        BY <4>1
      <4> QED BY <4>2
    <3> QED BY <3>1, <3>2
  <2>4. buffering # "wait"
    <3>1. CASE delayed
      <4>1. sent = 1
        BY <2>1, <2>2, <3>1 DEF SessionsInOrder
      <4>2. SUFFICES ASSUME buffering = "wait" PROVE FALSE
        OBVIOUS
      <4>3. sink.last < held.frame.n /\ held.frame.n < sent /\ held.frame.n \in Nat
        BY <1>b, <2>1, <4>2 DEF FramesInOrder, TypeInv, BufferTypes
      <4> QED BY <1>a, <4>1, <4>3
    <3>2. CASE ~delayed
      BY <3>2 DEF SessionsInOrder
    <3> QED BY <3>1, <3>2
  <2>5. sink.last < sent /\ ui.shown <= sink.last /\ (ui.resume # None => ui.resume.n <= sink.last)
    BY <2>1 DEF FramesInOrder
  <2>6. ui.resume # None => ui.resume.n \in Nat
    BY <1>0, Bounds DEF Screens
  <2> HIDE DEF Pushing
  <2> QED BY <1>0, <1>a, <2>1, <2>2, <2>3, <2>4, <2>5, <2>6 DEF FramesInOrder
<1>10. CASE BufferTakes
  <2>1. /\ buffering = "idle" /\ db.queue # <<>> /\ held' = Head(db.queue)
        /\ db'.queue = Tail(db.queue)
        /\ buffering' = IF held'.kind = "frame" THEN "wait" ELSE "session"
        /\ UNCHANGED <<sink, ui, sent, demuxer>>
    BY <1>0, <1>10 DEF BufferTakes, producing, showing
  <2>2. /\ Len(db.queue) \in Nat /\ Len(db.queue) > 0 /\ Len(db'.queue) = Len(db.queue) - 1
        /\ held' = db.queue[1]
        /\ \A i \in 1 .. Len(db'.queue) : db'.queue[i] = db.queue[i + 1]
    BY <1>0, <2>1
  <2>3. Pushing' <=> Pushing
    BY <2>1 DEF Pushing
  <2> HIDE DEF Pushing
  <2>4. buffering' = "wait" =>
          /\ sink.last < held'.frame.n
          /\ held'.frame.n <= sent /\ (Pushing => held'.frame.n < sent)
    BY <2>1, <2>2 DEF FramesInOrder
  <2>5. ASSUME NEW i \in 1 .. Len(db'.queue), db'.queue[i].kind = "frame"
        PROVE  /\ sink.last < db'.queue[i].frame.n
               /\ buffering' = "wait" => held'.frame.n < db'.queue[i].frame.n
               /\ db'.queue[i].frame.n <= sent /\ (Pushing => db'.queue[i].frame.n < sent)
               /\ \A j \in 1 .. i - 1 : db'.queue[j].kind = "frame" =>
                    db'.queue[j].frame.n < db'.queue[i].frame.n
    <3>1. i + 1 \in 1 .. Len(db.queue) /\ db'.queue[i] = db.queue[i + 1] /\ 1 \in 1 .. i + 1 - 1
      BY <2>2
    <3>2. \A j \in 1 .. i - 1 : j + 1 \in 1 .. i + 1 - 1 /\ db'.queue[j] = db.queue[j + 1]
      BY <2>2, <3>1, SMTT(30)
    <3>3. \A k \in 1 .. i + 1 - 1 : db.queue[k].kind = "frame" =>
            db.queue[k].frame.n < db.queue[i + 1].frame.n
      BY <2>5, <3>1 DEF FramesInOrder
    <3>4. \A j \in 1 .. i - 1 : db'.queue[j].kind = "frame" =>
            db'.queue[j].frame.n < db'.queue[i].frame.n
      BY <3>1, <3>2, <3>3
    <3>5. buffering' = "wait" => held'.frame.n < db'.queue[i].frame.n
      BY <2>1, <2>2, <3>1, <3>3
    <3>6. /\ sink.last < db'.queue[i].frame.n
          /\ db'.queue[i].frame.n <= sent /\ (Pushing => db'.queue[i].frame.n < sent)
      BY <2>5, <3>1 DEF FramesInOrder
    <3> QED BY <3>4, <3>5, <3>6
  <2> QED BY <1>a, <2>1, <2>3, <2>4, <2>5 DEF FramesInOrder
<1>11. CASE BufferPushesSession \/ BufferPostsFrame \/ BufferEnds
  <2>1. /\ UNCHANGED <<ui, sent, demuxer>>
        /\ sink'.last = sink.last /\ sink'.fb = sink.fb
        /\ db'.queue \in {db.queue, <<>>} /\ buffering' # "wait"
    BY <1>0, <1>11 DEF BufferPushesSession, BufferPostsFrame, BufferEnds, producing, showing, Sinks
  <2>2. \A i \in 1 .. Len(db'.queue) : db'.queue = db.queue
    BY <2>1
  <2>3. Pushing' <=> Pushing
    BY <2>1 DEF Pushing
  <2> HIDE DEF Pushing
  <2> QED BY <1>a, <2>1, <2>2, <2>3 DEF FramesInOrder
<1>12. CASE BufferPushesFrame
  <2>1. /\ buffering = "wait" /\ buffering' # "wait" /\ UNCHANGED <<ui, sent, demuxer, db>>
        /\ sink'.fb = held.frame /\ sink'.last = held.frame.n
    BY <1>0, <1>12 DEF BufferPushesFrame, PushFrame, producing, showing, Sinks
  <2>2. held.frame.n \in Nat /\ held.frame # None
    BY <1>b, <2>1, VideoAssumption DEF TypeInv, BufferTypes
  <2>3. Pushing' <=> Pushing
    BY <2>1 DEF Pushing
  <2>4. ui.resume # None => ui.resume.n \in Nat
    BY <1>0, Bounds DEF Screens
  <2> HIDE DEF Pushing
  <2> QED BY <1>0, <1>a, <2>1, <2>2, <2>3, <2>4 DEF FramesInOrder
<1>13. CASE CloseDelay
  BY <1>0, <1>4, <1>13 DEF CloseDelay, showing, Pushing
<1>14. CASE JoinDelay
  BY <1>0, <1>4, <1>14 DEF JoinDelay, showing, delaying, Pushing, Sinks
<1>m. ASSUME UNCHANGED producing, UNCHANGED delaying
      PROVE  /\ UNCHANGED <<sent, db, held, buffering>> /\ (Pushing' <=> Pushing)
  BY <1>m DEF producing, delaying, Pushing
<1>15. CASE OpenWindow \/ LeaveMode
  <2>1. ui'.shown = ui.shown /\ ui'.resume = ui.resume /\ ui'.paused = ui.paused
    BY <1>0, <1>15 DEF OpenWindow, LeaveMode, Screens
  <2> QED BY <1>4, <1>m, <1>15, <2>1 DEF OpenWindow, LeaveMode
<1>16. CASE NewFrame
  <2>1. /\ sink.fb # None /\ sink.fb \in Frames /\ sink.fb.n \in Nat /\ (~sink.prevent) \in BOOLEAN
        /\ sink'.fb = None /\ sink'.last = sink.last
    BY <1>0, <1>16, Bounds DEF NewFrame, Sinks
  <2>2. /\ UNCHANGED <<sent, db, held, buffering>> /\ (Pushing' <=> Pushing)
    BY <1>m, <1>16 DEF NewFrame
  <2> HIDE DEF Pushing
  <2>3. sink.fb.n = sink.last /\ ui.shown <= sink.last
    BY <2>1 DEF FramesInOrder
  <2>4. CASE ui.paused
    <3>1. ui'.shown = ui.shown /\ ui'.resume = sink.fb /\ ui'.paused
      BY <1>0, <1>16, <2>1, <2>4 DEF NewFrame, Screens
    <3> QED BY <1>a, <2>1, <2>2, <2>3, <3>1 DEF FramesInOrder
  <2>5. CASE ~ui.paused
    <3>1. ui'.shown = sink.fb.n /\ ui'.resume = ui.resume /\ ui'.paused = ui.paused
      <4>1. window \in Windows /\ ApplyFrame(ui, sink.fb, ~sink.prevent)
        BY <1>16, <2>5 DEF NewFrame, TypeInv, ScreenTypes
      <4> QED BY <1>0, <2>1, <4>1, ApplyKeepsTypes
    <3>2. ui'.resume = None
      BY <2>5, <3>1 DEF FramesInOrder
    <3> QED BY <1>a, <2>1, <2>2, <2>3, <3>1, <3>2 DEF FramesInOrder
  <2> QED BY <2>4, <2>5
<1>17. ASSUME NEW paused \in BOOLEAN, SetPaused(paused)
       PROVE  FramesInOrder' /\ sink'.last >= sink.last /\ ui'.shown >= ui.shown
  <2>1. /\ UNCHANGED <<sink, sent, db, held, buffering>> /\ (Pushing' <=> Pushing)
        /\ paused \/ ui.paused
    BY <1>m, <1>17 DEF SetPaused
  <2>2. CASE ui.paused /\ ui.resume # None
    <3> DEFINE u == [ui EXCEPT !.paused = paused, !.resume = None]
    <3>1. /\ ui.resume \in Frames /\ ui.resume.n \in Nat /\ window \in Windows
          /\ ApplyFrame(u, ui.resume, TRUE)
      BY <1>0, <1>17, <2>2, Bounds DEF SetPaused, Screens, TypeInv, ScreenTypes
    <3>2. u \in Screens /\ u.resume = None
      BY <1>0 DEF Screens
    <3> HIDE DEF u
    <3>3. ui'.shown = ui.resume.n /\ ui'.resume = None
      BY <3>1, <3>2, ApplyKeepsTypes
    <3>4. ui.shown <= ui.resume.n /\ ui.resume.n <= sink.last
      BY <2>2 DEF FramesInOrder
    <3> HIDE DEF Pushing
    <3> QED BY <1>a, <2>1, <3>1, <3>3, <3>4 DEF FramesInOrder
  <2>3. CASE ~(ui.paused /\ ui.resume # None)
    <3>1. ui'.shown = ui.shown /\ ui'.resume = ui.resume /\ ui'.paused = paused
      BY <1>0, <1>17, <2>3 DEF SetPaused, Screens
    <3>2. ui.resume = None
      BY <2>3 DEF FramesInOrder
    <3> HIDE DEF Pushing
    <3> QED BY <1>a, <2>1, <3>1, <3>2 DEF FramesInOrder
  <2> QED BY <2>2, <2>3
<1>18. ASSUME NEW o \in Orientations, SetOrientation(o)
       PROVE  FramesInOrder' /\ sink'.last >= sink.last /\ ui'.shown >= ui.shown
  <2> DEFINE content == Content(ui.size, o)
             v == SetContentSize(ui, content, TRUE)
  <2>1. content \in Contents
    BY <1>0 DEF Screens, Content, Contents
  <2>2. /\ ui' = [v EXCEPT !.orientation = o]
        /\ UNCHANGED <<sink, sent, db, held, buffering>> /\ (Pushing' <=> Pushing)
    BY <1>18, <1>m DEF SetOrientation
  <2>3. v \in Screens /\ v.shown = ui.shown /\ v.resume = ui.resume /\ v.paused = ui.paused
    BY <1>0, <2>1, ContentSet
  <2> HIDE DEF v, Pushing
  <2>4. ui'.shown = ui.shown /\ ui'.resume = ui.resume /\ ui'.paused = ui.paused
    BY <2>2, <2>3 DEF Screens
  <2> QED BY <1>4, <2>2, <2>4
<1>19. ASSUME NEW mode \in Modes, Toggle(mode)
       PROVE  FramesInOrder' /\ sink'.last >= sink.last /\ ui'.shown >= ui.shown
  BY <1>4, <1>m, <1>19 DEF Toggle
<1> QED BY <1>2, <1>3, <1>5, <1>6, <1>7, <1>8, <1>9, <1>10, <1>11, <1>12, <1>13, <1>14, <1>15,
           <1>16, <1>17, <1>18, <1>19 DEF Next, Demuxer, Device, Buffering, Main, User

(* The V4L2 device never encodes a frame older than one it has written. *)
LEMMA V4l2Step ==
  TypeInv /\ V4l2InOrder /\ [Next]_vars => V4l2InOrder' /\ v4l2'.last >= v4l2.last
<1> SUFFICES ASSUME TypeInv, V4l2InOrder, [Next]_vars
             PROVE  V4l2InOrder' /\ v4l2'.last >= v4l2.last
  OBVIOUS
<1>0. /\ v4l2 \in [fb : Frames \cup {None}, has : BOOLEAN, stopped : BOOLEAN,
                   header : BOOLEAN, last : Nat]
      /\ sent \in Nat /\ v4l2.last \in Nat
  BY Bounds DEF TypeInv, V4l2Types, DemuxerTypes
<1>1. /\ taken # None => taken.n \in Nat
      /\ v4l2.fb # None => v4l2.fb.n \in Nat
  BY <1>0, Bounds DEF TypeInv, V4l2Types
<1>2. ASSUME v4l2'.fb = v4l2.fb, v4l2'.last = v4l2.last, UNCHANGED taken,
             sent' \in {sent, sent + 1}
      PROVE  V4l2InOrder' /\ v4l2'.last >= v4l2.last
  BY <1>0, <1>1, <1>2 DEF V4l2InOrder
<1>3. CASE V4l2Push
  <2>1. /\ item \in Frames /\ item.n = sent /\ item # None
        /\ v4l2'.fb = item /\ v4l2'.last = v4l2.last /\ UNCHANGED <<sent, taken>>
    BY <1>0, <1>3, VideoAssumption DEF V4l2Push, TypeInv, DemuxerTypes
  <2> QED BY <1>0, <1>1, <2>1 DEF V4l2InOrder
<1>4. CASE V4l2Takes
  <2>1. /\ v4l2.fb # None /\ taken' = v4l2.fb /\ v4l2'.fb = None /\ v4l2'.last = v4l2.last
        /\ UNCHANGED sent
    BY <1>0, <1>4 DEF V4l2Takes, TypeInv, V4l2Types, producing
  <2> QED BY <1>0, <1>1, <2>1 DEF V4l2InOrder
<1>5. CASE V4l2Writes
  <2>1. /\ taken # None /\ taken' = None /\ UNCHANGED sent /\ v4l2'.fb = v4l2.fb
        /\ v4l2'.last \in {v4l2.last, taken.n}
    <3>1. taken \in Frames
      BY <1>5 DEF V4l2Writes, TypeInv, V4l2Types
    <3> QED BY <1>0, <1>5, <3>1, VideoAssumption DEF V4l2Writes, producing
  <2> QED BY <1>0, <1>1, <2>1 DEF V4l2InOrder
<1>6. CASE CloseV4l2
  <2>1. v4l2'.fb = v4l2.fb /\ v4l2'.last = v4l2.last /\ UNCHANGED <<taken, sent>>
    BY <1>0, <1>6 DEF CloseV4l2
  <2> QED BY <1>2, <2>1
<1>7. CASE UNCHANGED <<v4l2, taken>> /\ sent' \in {sent, sent + 1}
  BY <1>2, <1>7
<1>8. \/ V4l2Push \/ V4l2Takes \/ V4l2Writes \/ CloseV4l2
      \/ UNCHANGED <<v4l2, taken>> /\ sent' \in {sent, sent + 1}
  BY DEF Next, Demuxer, OpenScreen, OpenScreenFails, OpenV4l2, PushDelayed, ScreenPush, PostFrame,
    JoinV4l2, CloseDelay, JoinDelay, Device, ReceiveSession, ReceiveFrame, EndOfStream,
    Buffering, BufferTakes, BufferPushesSession, BufferPushesFrame, BufferPostsFrame, BufferEnds,
    Writer, V4l2Ends, Main, OpenWindow, NewFrame, LeaveMode, User, SetPaused, SetOrientation,
    Toggle, vars, looping, producing
<1> QED BY <1>3, <1>4, <1>5, <1>6, <1>7, <1>8

-----------------------------------------------------------------------------
(* The program starts with nothing announced, queued or owed. *)
LEMMA InitVInv == Init => VInv
<1> SUFFICES ASSUME Init PROVE VInv
  OBVIOUS
<1>1. TypeInv
  BY InitTypes
<1>2. /\ events = <<>> /\ 1 .. Len(events) = {}
      /\ db.queue = <<>> /\ 1 .. Len(db.queue) = {}
  BY DEF Init
<1>3. AnnouncedOnce
  BY <1>2 DEF Init, AnnouncedOnce, PostedOnce, Posted, PostedIn
<1>4. WindowIsOwed
  BY <1>2 DEF Init, WindowIsOwed, Windowed
<1>5. SessionsInOrder
  BY <1>2 DEF Init, SessionsInOrder
<1>6. FramesInOrder
  BY <1>2 DEF Init, FramesInOrder, Pushing
<1>7. V4l2InOrder
  BY DEF Init, V4l2InOrder
<1> QED BY <1>1, <1>3, <1>4, <1>5, <1>6, <1>7 DEF VInv

(* The order of events, sessions and frames is inductive. *)
THEOREM VideoInvariant == Spec => []VInv
<1>1. VInv /\ [Next]_vars => VInv'
  BY TypeStep, AnnouncedStep, WindowStep, SessionsStep, FramesStep, V4l2Step DEF VInv
<1> QED BY <1>1, InitVInv, PTL DEF Spec

(* With every frame that waits there is exactly one announcement of it, so that
   the assertion of sc_frame_buffer_consume holds, whatever the threads do between
   the mutex and the event. *)
THEOREM FramesAreAnnouncedOnce == Spec => []OneAnnouncementPerFrame
<1>1. VInv => OneAnnouncementPerFrame
  <2> SUFFICES ASSUME VInv PROVE OneAnnouncementPerFrame
    OBVIOUS
  <2> DEFINE posted == {i \in DOMAIN events : events[i] = "frame"}
             byDemuxer == IF demuxer = "event" THEN 1 ELSE 0
             byBuffer == IF buffering = "event" THEN 1 ELSE 0
  <2>1. events \in Seq(Events) /\ DOMAIN events = 1 .. Len(events)
    BY DEF VInv, TypeInv, ScreenTypes
  <2>2. Cardinality(posted) = IF Posted THEN 1 ELSE 0
    <3>1. CASE ~Posted
      <4>1. posted = {}
        BY <2>1, <3>1 DEF Posted, PostedIn
      <4> QED BY <3>1, <4>1, FS_EmptySet
    <3>2. CASE Posted
      <4>1. PICK i \in 1 .. Len(events) : events[i] = "frame"
        BY <3>2 DEF Posted, PostedIn
      <4>2. posted = {i}
        BY <2>1, <4>1 DEF VInv, AnnouncedOnce, PostedOnce
      <4> QED BY <3>2, <4>2, FS_Singleton
    <3> QED BY <3>1, <3>2
  <2>3. Announced = (IF Posted THEN 1 ELSE 0) + byDemuxer + byBuffer
    BY <2>2 DEF Announced
  <2>4. sink.fb = None => Announced = 0
    BY <2>3 DEF VInv, AnnouncedOnce
  <2>5. sink.fb # None => Announced = 1 \/ (failed /\ Announced = 0)
    <3>1. ~(Posted /\ demuxer = "event") /\ ~(Posted /\ buffering = "event")
          /\ ~(demuxer = "event" /\ buffering = "event")
          /\ (sink.fb # None => Posted \/ demuxer = "event" \/ buffering = "event" \/ failed)
      BY DEF VInv, AnnouncedOnce
    <3> QED BY <2>3, <3>1
  <2>6. v4l2.has <=> v4l2.fb # None
    BY DEF VInv, TypeInv, V4l2Types
  <2> QED BY <2>4, <2>5, <2>6 DEF OneAnnouncementPerFrame
<1> QED BY <1>1, VideoInvariant, PTL

(* However resizes, rotations, pauses and changes of the window's mode follow each
   other, the window has the size of the last content it should follow as soon as
   it can have it, and what it shows is described as it is. *)
THEOREM TheWindowFollows == Spec => []WindowFollowsContent
<1>1. VInv => WindowFollowsContent
  <2> SUFFICES ASSUME VInv PROVE WindowFollowsContent
    OBVIOUS
  <2>1. events \in Seq(Events)
    BY DEF VInv, TypeInv, ScreenTypes
  <2>2. NoResizeLost
    <3> SUFFICES ASSUME Windowed, ui.windowShown, ~Contains(events, "leave")
                 PROVE  window.fitted = ui.owed
      BY DEF NoResizeLost
    <3>1. ~ \E i \in 1 .. Len(events) : events[i] = "leave"
      BY <2>1 DEF Contains
    <3> QED BY <3>1 DEF VInv, WindowIsOwed
  <2>3. ContentIsFrame
    BY DEF VInv, WindowIsOwed, ContentIsFrame
  <2> QED BY <2>2, <2>3 DEF WindowFollowsContent
<1> QED BY <1>1, VideoInvariant, PTL

(* A frame resizes the window according to its own session, through any delay. *)
THEOREM SessionsStayWithFrames == Spec => []FrameKeepsItsSession
<1>1. VInv => FrameKeepsItsSession
  BY DEF VInv, SessionsInOrder, FrameKeepsItsSession
<1> QED BY <1>1, VideoInvariant, PTL

(* Nobody is shown, or given, a frame older than the one before it. *)
THEOREM FramesOnlyGrow == Spec => NeverAnOlderFrame
<1> DEFINE Grows == ui'.shown >= ui.shown /\ v4l2'.last >= v4l2.last /\ sink'.last >= sink.last
<1>1. VInv /\ [Next]_vars => [Grows]_vars
  BY FramesStep, V4l2Step DEF VInv
<1>2. [][Grows]_vars <=> NeverAnOlderFrame
  BY DEF NeverAnOlderFrame
<1> HIDE DEF Grows
<1>3. Spec => [][Grows]_vars
  BY <1>1, VideoInvariant, PTL DEF Spec
<1> QED BY <1>2, <1>3
=============================================================================
