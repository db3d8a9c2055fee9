--------------------------- MODULE ScreenGeometry ---------------------------
(***************************************************************************)
(* The sizes of the screen (screen.c): which window the content gets, where *)
(* in the window it is drawn, which point of the device's frame a click    *)
(* hits, and, with --flex-display, which size the device's display is       *)
(* asked to take.  VideoPath has the frames; here are their dimensions.     *)
(*                                                                         *)
(* A size is a pair <<width, height>> of uint16_t.  A rectangle or a ratio *)
(* that the code computes in floating point is an exact fraction here.     *)
(* SDL keeps at most one resize event of a window, the last.  The icon     *)
(* that replaces the video, and the density of the pixels, are left out.   *)
(***************************************************************************)
EXTENDS Integers, Sequences

CONSTANTS
  Frames,       \* sizes the device's display takes by itself
  Windows,      \* sizes the user gives the window
  Bounds,       \* the usable display bounds, less the margins
  Full,         \* the size of the window in fullscreen
  Orientations, \* of 0..7: the ones --display-orientation may choose
  Transforms,   \* of 0..7: the ones the user sets with a shortcut
  Fits,         \* of "letterbox", "unscaled" and "stretched": --render-fit
  MaxSteps,     \* bound: what the user and the device do
  None          \* no size

SizeRange == 65536
Sizes == (1..SizeRange - 1) \X (1..SizeRange - 1)

ASSUME GeometryAssumption ==
  /\ Frames \cup Windows \cup {Bounds, Full} \subseteq Sizes
  /\ Orientations \cup Transforms \subseteq 0..7
  /\ Fits \subseteq {"letterbox", "unscaled", "stretched"}
  /\ MaxSteps \in Nat /\ None \notin Sizes \cup [size: Sizes, tracked: BOOLEAN]

VARIABLES
  flex,        \* --flex-display
  fit,         \* screen->render_fit
  orientation, \* screen->orientation
  frame,       \* screen->frame_size
  content,     \* screen->content_size
  rect,        \* screen->rect, a fraction
  size,        \* of the window when it is neither fullscreen nor maximized
  full,        \* it is
  pending,     \* screen->windowed_content_size, or None: resize_pending
  tracker,     \* screen->resize_tracker
  event,       \* the resize event in SDL's queue: its size, and whether the
               \* tracker is meant for it
  left,        \* SDL_EVENT_WINDOW_LEAVE_FULLSCREEN is in the queue
  request,     \* the size that the controller sends: at most one
  display,     \* the device's display
  sessions,    \* what the video stream brings: sizes, and client_resized
  steps,       \* what the user and the device have done
  crossed,     \* the display or the orientation turned while a resize was
               \* under way, or the user acted before a turn was shown
  history      \* touched: the size of the window is the user's, not the
               \* program's; swallowed: a resize that the tracker was not meant
               \* for was ignored

shown == <<orientation, frame, content, rect, pending>>
window == <<size, full, event, left>>
device == <<display, sessions>>
vars == <<flex, fit, shown, window, tracker, request, device, steps, crossed, history>>

-----------------------------------------------------------------------------
(* Sizes.                                                                  *)

Smaller(a, b) == IF a < b THEN a ELSE b
Larger(a, b) == IF a < b THEN b ELSE a

(* sc_orientation_is_swap, get_oriented_size *)
Swaps(o) == o % 2 = 1
Oriented(s, o) == IF Swaps(o) THEN <<s[2], s[1]>> ELSE s

(* One dimension is what the content makes of the other. *)
IsOptimal(s, c) == s[2] = (s[1] * c[2]) \div c[1] \/ s[1] = (s[2] * c[1]) \div c[2]

(* s without the black borders around the content. *)
Cropped(s, c) ==
  IF IsOptimal(s, c) THEN s
  ELSE IF c[1] * s[2] > c[2] * s[1] THEN <<s[1], (c[2] * s[1]) \div c[1]>>
       ELSE <<(c[1] * s[2]) \div c[2], s[2]>>

Within(s) == <<Smaller(s[1], Bounds[1]), Smaller(s[2], Bounds[2])>>

(* get_optimal_size *)
OptimalSize(s, c, bounded) == Cropped(IF bounded THEN Within(s) ELSE s, c)

(* s in proportion to the change of the content, in 16 bits. *)
Scaled(s, old, new) == <<((s[1] * new[1]) \div old[1]) % SizeRange,
                         ((s[2] * new[2]) \div old[2]) % SizeRange>>

(* compute_content_rect: x, y, w and h over d. *)
ContentRect(win, c) ==
  CASE fit = "unscaled" -> [d |-> 2, x |-> Larger(0, win[1] - c[1]),
                            y |-> Larger(0, win[2] - c[2]),
                            w |-> 2 * c[1], h |-> 2 * c[2]]
    [] fit = "stretched" \/ (fit = "letterbox" /\ IsOptimal(win, c)) ->
         [d |-> 1, x |-> 0, y |-> 0, w |-> win[1], h |-> win[2]]
    [] fit = "letterbox" /\ ~IsOptimal(win, c) /\ c[1] * win[2] > c[2] * win[1] ->
         [d |-> 2 * c[1], x |-> 0, y |-> c[1] * win[2] - win[1] * c[2],
          w |-> 2 * c[1] * win[1], h |-> 2 * win[1] * c[2]]
    [] OTHER ->
         [d |-> 2 * c[2], x |-> c[2] * win[1] - win[2] * c[1], y |-> 0,
          w |-> 2 * win[2] * c[1], h |-> 2 * c[2] * win[2]]

(* get_initial_optimal_size: --window-width and --window-height are optional. *)
InitialSizes(c) ==
  {OptimalSize(c, c, TRUE)} \cup Windows
    \cup {<<w[1], (w[1] * c[2]) \div c[1]>> : w \in Windows}
    \cup {<<(w[2] * c[1]) \div c[2], w[2]>> : w \in Windows}

Window == IF full THEN Full ELSE size

-----------------------------------------------------------------------------
(* Clicks.                                                                 *)

(* sc_screen_convert_window_to_frame_coords, in two steps. *)
ToContent(x, y) ==
  <<((((x * rect.d - rect.x) \div rect.d) * content[1]) * rect.d) \div rect.w,
    ((((y * rect.d - rect.y) \div rect.d) * content[2]) * rect.d) \div rect.h>>

(* Mutant: a mirrored quarter turn is taken for the other one. *)
ToFrameFlipped(p) ==
  LET x == p[1] y == p[2] w == content[1] h == content[2] IN
  CASE orientation = 0 -> <<x, y>>
    [] orientation = 1 -> <<y, w - x>>
    [] orientation = 2 -> <<w - x, h - y>>
    [] orientation = 3 -> <<h - y, x>>
    [] orientation = 4 -> <<w - x, y>>
    [] orientation = 5 -> <<y, x>>
    [] orientation = 6 -> <<x, h - y>>
    [] orientation = 7 -> <<h - y, w - x>>

ToFrame(p) ==
  LET x == p[1] y == p[2] w == content[1] h == content[2] IN
  CASE orientation = 0 -> <<x, y>>
    [] orientation = 1 -> <<y, w - x>>
    [] orientation = 2 -> <<w - x, h - y>>
    [] orientation = 3 -> <<h - y, x>>
    [] orientation = 4 -> <<w - x, y>>
    [] orientation = 5 -> <<h - y, w - x>>
    [] orientation = 6 -> <<x, h - y>>
    [] orientation = 7 -> <<y, x>>

(* sc_screen_render: where the texture's point p is drawn in the content: the
   frame is mirrored, and then turned clockwise by quarters. *)
Mirrored(p) == IF orientation \div 4 = 1 THEN <<frame[1] - p[1], p[2]>> ELSE p

Drawn(p) ==
  LET q == Mirrored(p) IN
  CASE orientation % 4 = 0 -> q
    [] orientation % 4 = 1 -> <<frame[2] - q[2], q[1]>>
    [] orientation % 4 = 2 -> <<frame[1] - q[1], frame[2] - q[2]>>
    [] orientation % 4 = 3 -> <<q[2], frame[1] - q[1]>>

-----------------------------------------------------------------------------
(* Mutant: the display is asked to take the size as the window shows it. *)
RequestUpright(s, o) == request' = s

(* sc_screen_request_resize_display; the controller keeps the last one only. *)
Request(s, o) == request' = Oriented(s, o)

(* sc_sdl_set_window_size: SDL refuses a size without width or height, and
   there is an event when the size changes. *)
SetWindowSize(s, tracked) ==
  IF s \notin Sizes
  THEN UNCHANGED <<size, event>> /\ history' = [history EXCEPT !.touched = TRUE]
  ELSE /\ size' = s
       /\ event' = IF s = size THEN event ELSE [size |-> s, tracked |-> tracked]
       /\ history' = [history EXCEPT !.touched = FALSE]

(* resize_for_content *)
ResizeForContent(old, new, tracked) ==
  SetWindowSize(OptimalSize(IF flex THEN new ELSE Scaled(size, old, new), new, TRUE), tracked)

(* set_content_size.  In fullscreen the window cannot be resized: the resize is
   for later, or the device's display must follow instead. *)
SetContentSize(new, resize, tracked) ==
  /\ content' = new
  /\ CASE ~resize ->
            /\ history' = [history EXCEPT !.touched = TRUE]
            /\ UNCHANGED <<size, event, request, pending>>
       [] resize /\ ~full ->
            ResizeForContent(content, new, tracked) /\ UNCHANGED <<request, pending>>
       [] resize /\ full /\ flex ->
            /\ Request(Full, orientation)
            /\ history' = [history EXCEPT !.touched = TRUE]
            /\ UNCHANGED <<size, event, pending>>
       [] resize /\ full /\ ~flex ->
            /\ pending' = IF pending = None THEN content ELSE pending
            /\ UNCHANGED <<size, event, request, history>>

(* sc_screen_update_content_rect *)
UpdateRect == rect' = ContentRect(IF full THEN Full ELSE size', content')

Quiet == event = None /\ request = None /\ sessions = <<>>
Turning == \E n \in DOMAIN sessions : ~sessions[n].client

Acts(crosses) ==
  /\ steps < MaxSteps /\ steps' = steps + 1
  /\ crossed' = (crossed \/ crosses)

-----------------------------------------------------------------------------
(* sc_screen_show_initial_window, for the first session of the stream. *)
Init ==
  /\ flex \in BOOLEAN /\ fit \in Fits /\ orientation \in Orientations
  /\ frame \in Frames /\ display = frame
  /\ content = Oriented(frame, orientation)
  /\ size \in InitialSizes(content) \cap Sizes
  /\ rect = ContentRect(size, content)
  /\ tracker = IF flex /\ size = content THEN size ELSE None
  /\ event = [size |-> size, tracked |-> TRUE]
  /\ full = FALSE /\ left = FALSE /\ pending = None /\ request = None
  /\ sessions = <<>> /\ steps = 0 /\ crossed = FALSE
  /\ history = [touched |-> size \in Windows, swallowed |-> FALSE]

(* sc_screen_apply_frame, when the dimensions of the frame change; the frames
   of earlier sessions may have been skipped. *)
NewFrame ==
  \E n \in DOMAIN sessions :
    LET session == sessions[n] new == Oriented(session.size, orientation) IN
    /\ sessions' = SubSeq(sessions, n + 1, Len(sessions))
    /\ frame' = session.size
    /\ IF session.size = frame
       THEN UNCHANGED <<content, rect, tracker, size, event, request, pending, history>>
       ELSE /\ tracker' = IF flex THEN new ELSE tracker
            /\ SetContentSize(new, ~session.client, TRUE)
            /\ UpdateRect
    /\ UNCHANGED <<flex, fit, orientation, full, left, display, steps, crossed>>

(* sc_screen_set_orientation *)
SetOrientation(o) ==
  /\ Acts(~Quiet) /\ o # orientation
  /\ SetContentSize(Oriented(frame, o), TRUE, FALSE)
  /\ orientation' = o
  /\ UNCHANGED <<flex, fit, frame, full, left, tracker, device>>
  /\ UpdateRect

(* The user drags a border of the window. *)
UserResizes(s) ==
  /\ Acts(Turning) /\ ~full /\ s # size
  /\ size' = s /\ event' = [size |-> s, tracked |-> FALSE]
  /\ history' = [history EXCEPT !.touched = TRUE]
  /\ UNCHANGED <<flex, fit, shown, full, left, tracker, request, device>>

(* The resize is the program's own, of less than three seconds ago. *)
Ignored(s) == flex /\ tracker = s

(* sc_screen_on_resize.  A tracked resize may be obsolete. *)
OnResize ==
  /\ event # None
  /\ event' = None
  /\ \E obsolete \in BOOLEAN :
       IF Ignored(event.size) /\ ~obsolete
       THEN /\ tracker' = None /\ UNCHANGED request
            /\ history' = [history EXCEPT !.swallowed = @ \/ ~event.tracked]
       ELSE /\ tracker' = IF obsolete THEN None ELSE tracker
            /\ IF flex THEN Request(event.size, orientation) ELSE UNCHANGED request
            /\ UNCHANGED history
  /\ UNCHANGED <<flex, fit, orientation, frame, content, pending, size, full, left,
                 device, steps, crossed>>
  /\ UpdateRect

(* sc_screen_toggle_fullscreen, or the user maximizes the window. *)
ToggleFullscreen ==
  /\ Acts(Turning)
  /\ full' = ~full /\ left' = (left \/ full)
  /\ event' = [size |-> IF full THEN size ELSE Full, tracked |-> FALSE]
  /\ UNCHANGED <<flex, fit, shown, size, tracker, request, device, history>>

(* Mutant: the resize that was pending is forgotten. *)
OnLeaveFullscreenForgets ==
  /\ left /\ left' = FALSE
  /\ pending' = None
  /\ UNCHANGED <<flex, fit, orientation, frame, content, full, tracker, request,
                 device, steps, crossed, size, event, history>>
  /\ UpdateRect

(* SDL_EVENT_WINDOW_LEAVE_FULLSCREEN and SDL_EVENT_WINDOW_RESTORED:
   apply_pending_resize. *)
OnLeaveFullscreen ==
  /\ left /\ left' = FALSE
  /\ IF full \/ pending = None
     THEN UNCHANGED <<pending, size, event, history>>
     ELSE pending' = None /\ ResizeForContent(pending, content, FALSE)
  /\ UNCHANGED <<flex, fit, orientation, frame, content, full, tracker, request,
                 device, steps, crossed>>
  /\ UpdateRect

(* sc_screen_resize_to_fit *)
ResizeToFit ==
  /\ Acts(Turning) /\ ~full
  /\ CASE fit = "stretched" -> UNCHANGED <<size, event, history>>
       [] fit = "unscaled" -> SetWindowSize(content, FALSE)
       [] fit = "letterbox" -> SetWindowSize(OptimalSize(size, content, FALSE), FALSE)
  /\ UNCHANGED <<flex, fit, shown, full, left, tracker, request, device>>

(* sc_screen_resize_to_pixel_perfect *)
PixelPerfect ==
  /\ Acts(Turning) /\ ~full
  /\ SetWindowSize(content, FALSE)
  /\ UNCHANGED <<flex, fit, shown, full, left, tracker, request, device>>

(* The device (external): its display turns by itself, or does as it is asked. *)
DeviceTurns(s) ==
  /\ Acts(~Quiet) /\ s # display
  /\ display' = s
  /\ sessions' = Append(sessions, [size |-> s, client |-> FALSE])
  /\ UNCHANGED <<flex, fit, shown, window, tracker, request, history>>

DeviceResizes ==
  /\ request # None /\ request' = None
  /\ display' = request
  /\ sessions' = IF request = display THEN sessions
                 ELSE Append(sessions, [size |-> request, client |-> TRUE])
  /\ UNCHANGED <<flex, fit, shown, window, tracker, steps, crossed, history>>

User == \/ \E s \in Windows : UserResizes(s)
        \/ \E o \in Transforms : SetOrientation(o)
        \/ ToggleFullscreen \/ ResizeToFit \/ PixelPerfect
Main == NewFrame \/ OnResize \/ OnLeaveFullscreen
Device == DeviceResizes \/ \E s \in Frames : DeviceTurns(s)

Next == User \/ Main \/ Device

Spec == Init /\ [][Next]_vars

-----------------------------------------------------------------------------
Inside(x, y) ==
  /\ rect.x <= x * rect.d /\ x * rect.d < rect.x + rect.w
  /\ rect.y <= y * rect.d /\ y * rect.d < rect.y + rect.h

(* The offset of a + b/c from a pixel, in a direction of which a pixel of the
   frame takes step pixels of the window, is less than one pixel of each. *)
Near(x, start, point, extent, of) ==
  LET off == of * (x * rect.d - start) - point * extent
  IN -(of * rect.d + extent) < off /\ off < of * rect.d + extent

(* Once the window's events have been handled, the video is drawn as the size
   the window has now and the content ask for; and a click on it is sent to the
   point of the frame that is drawn under it, to within a pixel of each,
   whatever the orientation, the fit and the resizes so far (screen.c:1247). *)
ClickHitsWhatIsShown ==
  event = None =>
    /\ rect = ContentRect(Window, content)
    /\ \A x \in 0..Window[1] - 1, y \in 0..Window[2] - 1 :
         Inside(x, y) =>
           LET p == ToFrame(ToContent(x, y)) IN
           /\ p \in (0..frame[1]) \X (0..frame[2])
           /\ Near(x, rect.x, Drawn(p)[1], rect.w, content[1])
           /\ Near(y, rect.y, Drawn(p)[2], rect.h, content[2])

(* A window whose size is the program's has no black borders: it has the
   proportions of the content, unless that must wait for the end of fullscreen;
   and removing the borders never makes it grow (screen.c:1056). *)
WindowFitsContent ==
  /\ fit = "letterbox" /\ ~history.touched /\ pending = None =>
       IsOptimal(size, content)
  /\ LET fitted == OptimalSize(size, content, FALSE)
     IN fitted[1] <= size[1] /\ fitted[2] <= size[2]

(* The content is too large for the screen, and the window that sc_screen wants
   for it is the one that it has, or none at all: no resize, no event, and nobody
   asks the device for anything. *)
NothingToResize ==
  LET wanted == OptimalSize(content, content, TRUE)
  IN content # Within(content) /\ (wanted = size \/ wanted \notin Sizes)

(* With --flex-display, the device's display ends up with the size of the
   window, in the orientation it is shown in: unless it changed by itself while
   something was under way, the window is fullscreen, the tracker took another
   resize for the one it was meant for, or there was NothingToResize. *)
DisplayFollowsWindow ==
  flex /\ Quiet /\ ~full /\ ~crossed /\ ~history.swallowed =>
    display = Oriented(size, orientation) \/ NothingToResize

(* Promises that do not hold (README, Known deviations).  window.md:101, the
   display "is continuously resized to match the window". *)
DisplayMatchesWindow ==
  flex /\ Quiet /\ ~full /\ ~crossed /\ ~history.swallowed =>
    display = Oriented(size, orientation)

(* screen.c:855, in fullscreen the display is resized instead of the window. *)
DisplayFillsTheScreen ==
  flex /\ Quiet /\ full /\ ~crossed /\ ~history.swallowed =>
    display = Oriented(Full, orientation)

(* screen.c:350, only the resize that follows the frame is ignored. *)
OnlyOwnResizesIgnored == ~history.swallowed
=============================================================================
