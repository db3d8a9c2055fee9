------------------------ MODULE ScreenGeometryProofs ------------------------
(***************************************************************************)
(* The window fits its content whatever the sizes of the frames, of the    *)
(* screen and of the user's windows are.  A click is mapped by exactly the *)
(* inverse of the transformation that draws the frame, in all eight        *)
(* orientations, and hits what is shown there but for the rounding of the  *)
(* rectangle.  Under --flex-display the display follows the window.        *)
(***************************************************************************)
EXTENDS ScreenGeometry, SequenceTheorems, TLAPS

(* What the stream announces: sc_video_session. *)
Session == [size: Sizes, client: BOOLEAN]

(* The part of the state that holds sizes. *)
TypeInv ==
  /\ flex \in BOOLEAN /\ full \in BOOLEAN /\ orientation \in 0..7
  /\ fit \in {"letterbox", "unscaled", "stretched"}
  /\ frame \in Sizes /\ content \in Sizes /\ size \in Sizes /\ display \in Sizes
  /\ request \in Sizes \cup {None} /\ pending \in Sizes \cup {None}
  /\ event # None => event.size \in Sizes
  /\ sessions \in Seq(Session)
  /\ history \in [touched: BOOLEAN, swallowed: BOOLEAN]

(* screen->content_size is kept in step with the frame and the orientation. *)
ContentIsOriented == content = Oriented(frame, orientation)

(* WindowFitsContent of every --render-fit: set_content_size does not look. *)
ProgramsSizeIsOptimal ==
  ~history.touched /\ pending = None => IsOptimal(size, content)

GInv == TypeInv /\ ContentIsOriented /\ ProgramsSizeIsOptimal

-----------------------------------------------------------------------------
(* Sizes.                                                                  *)

(* The numbers from 1 are natural numbers above 0. *)
LEMMA FromOne ==
  ASSUME NEW m, NEW i \in 1..m
  PROVE  i \in Nat /\ i > 0
OBVIOUS

(* A size has a width and a height, and turned it is a size. *)
LEMMA SizeParts ==
  ASSUME NEW s \in Sizes
  PROVE  /\ s = <<s[1], s[2]>> /\ s \in Nat \X Nat
         /\ s[1] \in Nat /\ s[2] \in Nat /\ s[1] > 0 /\ s[2] > 0
         /\ \A o : Oriented(s, o) \in Sizes
<1> DEFINE D == 1..SizeRange - 1
<1>1. s \in D \X D
  BY DEF Sizes
<1>7. \A i \in D : i \in Nat /\ i > 0
  BY FromOne
<1> HIDE DEF D
<1>2. s = <<s[1], s[2]>> /\ s[1] \in D /\ s[2] \in D
  BY <1>1
<1>3. \A o : Oriented(s, o) = s \/ Oriented(s, o) = <<s[2], s[1]>>
  BY DEF Oriented
<1>4. <<s[2], s[1]>> \in Sizes
  BY <1>2 DEF Sizes, D
<1>5. s[1] \in Nat /\ s[2] \in Nat /\ s[1] > 0 /\ s[2] > 0
  BY <1>2, <1>7
<1>6. s \in Nat \X Nat
  BY <1>2, <1>5
<1> QED BY <1>2, <1>3, <1>4, <1>5, <1>6

(* A quotient rounded down is at most what it is compared with. *)
LEMMA DivAtMost ==
  ASSUME NEW a \in Nat, NEW b \in Nat, NEW c \in Nat, c > 0, a <= b * c
  PROVE  a \div c \in Nat /\ a \div c <= b
<1>1. PICK m \in Int : m = b * c
  OBVIOUS
<1>2. (b * c) \div c = b
  OBVIOUS
<1>3. a \div c <= m \div c
  BY <1>1
<1> QED BY <1>1, <1>2, <1>3

(* is_optimal_size: the size of the content is optimal for it. *)
LEMMA ContentIsOptimal ==
  ASSUME NEW c \in Sizes
  PROVE  IsOptimal(c, c)
<1>1. c[1] \in Nat /\ c[2] \in Nat /\ c[1] > 0 /\ c[2] > 0
  BY SizeParts
<1>2. (c[1] * c[2]) \div c[1] = c[2]
  BY <1>1
<1> QED BY <1>2 DEF IsOptimal

(* get_optimal_size returns an optimal size. *)
LEMMA CroppedIsOptimal ==
  ASSUME NEW s \in Nat \X Nat, NEW c \in Sizes
  PROVE  IsOptimal(Cropped(s, c), c)
<1>1. /\ c[1] \in Nat /\ c[2] \in Nat /\ s[1] \in Nat /\ s[2] \in Nat
  BY SizeParts
<1>2. c[1] * s[2] = s[2] * c[1] /\ c[2] * s[1] = s[1] * c[2]
  BY <1>1
<1> QED BY <1>2 DEF IsOptimal, Cropped

(* get_optimal_size only removes black borders. *)
LEMMA CroppedNeverGrows ==
  ASSUME NEW s \in Nat \X Nat, NEW c \in Sizes
  PROVE  Cropped(s, c)[1] <= s[1] /\ Cropped(s, c)[2] <= s[2]
<1>1. /\ c[1] \in Nat /\ c[2] \in Nat /\ s[1] \in Nat /\ s[2] \in Nat
      /\ c[1] > 0 /\ c[2] > 0
  BY SizeParts
<1>2. CASE IsOptimal(s, c)
  BY <1>1, <1>2 DEF Cropped
<1>3. CASE ~IsOptimal(s, c) /\ c[1] * s[2] > c[2] * s[1]
  <2>1. (c[2] * s[1]) \div c[1] <= s[2]
    <3>1. PICK a \in Nat : a = c[2] * s[1]
      BY <1>1
    <3>2. a <= s[2] * c[1]
      BY <1>1, <1>3, <3>1
    <3> QED BY <1>1, <3>1, <3>2, DivAtMost
  <2> QED BY <1>1, <1>3, <2>1 DEF Cropped
<1>4. CASE ~IsOptimal(s, c) /\ ~(c[1] * s[2] > c[2] * s[1])
  <2>1. (c[1] * s[2]) \div c[2] <= s[1]
    <3>1. PICK a \in Nat : a = c[1] * s[2]
      BY <1>1
    <3>2. a <= s[1] * c[2]
      BY <1>1, <1>4, <3>1
    <3> QED BY <1>1, <3>1, <3>2, DivAtMost
  <2> QED BY <1>1, <1>4, <2>1 DEF Cropped
<1> QED BY <1>2, <1>3, <1>4

(* get_optimal_size, within the display bounds or not. *)
LEMMA OptimalSizeIsOptimal ==
  ASSUME NEW s \in Nat \X Nat, NEW c \in Sizes, NEW bounded \in BOOLEAN
  PROVE  IsOptimal(OptimalSize(s, c, bounded), c)
<1>1. Bounds \in Sizes
  BY GeometryAssumption
<1>2. Within(s) \in Nat \X Nat
  BY <1>1, SizeParts DEF Within, Smaller
<1> QED BY <1>2, CroppedIsOptimal DEF OptimalSize

(* resize_for_content: a size that is scaled stays in 16 bits. *)
LEMMA ScaledIsNatural ==
  ASSUME NEW s \in Sizes, NEW old \in Sizes, NEW new \in Sizes
  PROVE  Scaled(s, old, new) \in Nat \X Nat
<1>1. /\ s[1] \in Nat /\ s[2] \in Nat /\ new[1] \in Nat /\ new[2] \in Nat
      /\ old[1] \in Nat /\ old[2] \in Nat /\ old[1] > 0 /\ old[2] > 0
  BY SizeParts
<1>2. ASSUME NEW a \in Nat, NEW b \in Nat, NEW d \in Nat, d > 0
      PROVE  ((a * b) \div d) % SizeRange \in Nat
  <2>1. PICK p \in Nat : p = a * b
    OBVIOUS
  <2>2. p \div d \in Nat
    BY <1>2
  <2> QED BY <2>1, <2>2 DEF SizeRange
<1> QED BY <1>1, <1>2 DEF Scaled

-----------------------------------------------------------------------------
(* The window.                                                             *)

(* sc_sdl_set_window_size: if the size that is set is optimal, then the size of
   the window is, or is not the program's. *)
LEMMA SetWindowSizeFits ==
  ASSUME TypeInv, NEW s, NEW tracked, NEW c, IsOptimal(s, c), SetWindowSize(s, tracked)
  PROVE  /\ size' \in Sizes
         /\ event' # None => event'.size \in Sizes
         /\ history' \in [touched: BOOLEAN, swallowed: BOOLEAN]
         /\ ~history'.touched => IsOptimal(size', c)
<1>1. CASE s \notin Sizes
  BY <1>1 DEF SetWindowSize, TypeInv
<1>2. CASE s \in Sizes
  <2>1. size' = s /\ history' = [history EXCEPT !.touched = FALSE]
        /\ event' = IF s = size THEN event ELSE [size |-> s, tracked |-> tracked]
    BY <1>2 DEF SetWindowSize
  <2>2. event' # None => event'.size \in Sizes
    BY <1>2, <2>1 DEF TypeInv
  <2> QED BY <1>2, <2>1, <2>2 DEF TypeInv
<1> QED BY <1>1, <1>2

(* resize_for_content, to a new content or to the one it has. *)
LEMMA ResizeFits ==
  ASSUME TypeInv, NEW old \in Sizes, NEW new \in Sizes,
         NEW tracked, ResizeForContent(old, new, tracked)
  PROVE  /\ size' \in Sizes
         /\ event' # None => event'.size \in Sizes
         /\ history' \in [touched: BOOLEAN, swallowed: BOOLEAN]
         /\ ~history'.touched => IsOptimal(size', new)
<1> DEFINE s == IF flex THEN new ELSE Scaled(size, old, new)
<1>1. s \in Nat \X Nat
  <2>1. size \in Sizes
    BY DEF TypeInv
  <2> QED BY <2>1, ScaledIsNatural, SizeParts
<1> HIDE DEF s
<1>2. IsOptimal(OptimalSize(s, new, TRUE), new)
  BY <1>1, OptimalSizeIsOptimal
<1>3. SetWindowSize(OptimalSize(s, new, TRUE), tracked)
  BY DEF ResizeForContent, s
<1> QED BY <1>2, <1>3, SetWindowSizeFits

(* set_content_size: the window fits the new content, or will when fullscreen
   ends, or is left as the user wants it. *)
LEMMA SetContentSizeFits ==
  ASSUME TypeInv, NEW new \in Sizes, NEW resize \in BOOLEAN,
         NEW tracked, SetContentSize(new, resize, tracked)
  PROVE  /\ content' = new /\ size' \in Sizes
         /\ request' \in Sizes \cup {None} /\ pending' \in Sizes \cup {None}
         /\ event' # None => event'.size \in Sizes
         /\ history' \in [touched: BOOLEAN, swallowed: BOOLEAN]
         /\ ~history'.touched /\ pending' = None => IsOptimal(size', new)
<1>1. CASE ~resize
  BY <1>1 DEF SetContentSize, TypeInv
<1>2. CASE resize /\ ~full
  <2>1. /\ content' = new /\ UNCHANGED <<request, pending>>
        /\ ResizeForContent(content, new, tracked)
    BY <1>2 DEF SetContentSize
  <2>2. content \in Sizes /\ request \in Sizes \cup {None}
        /\ pending \in Sizes \cup {None}
    BY DEF TypeInv
  <2> QED BY <2>1, <2>2, ResizeFits
<1>3. CASE resize /\ full /\ flex
  <2>1. /\ content' = new /\ UNCHANGED <<size, event, pending>>
        /\ Request(Full, orientation) /\ history' = [history EXCEPT !.touched = TRUE]
    BY <1>3 DEF SetContentSize
  <2>2. request' \in Sizes
    BY <2>1, GeometryAssumption, SizeParts DEF Request, TypeInv
  <2> QED BY <2>1, <2>2 DEF TypeInv
<1>4. CASE resize /\ full /\ ~flex
  <2>1. /\ content' = new /\ UNCHANGED <<size, event, request, history>>
        /\ pending' = IF pending = None THEN content ELSE pending
    BY <1>4 DEF SetContentSize
  <2>2. pending' # None /\ pending' \in Sizes \cup {None}
    BY <2>1, GeometryAssumption DEF TypeInv
  <2> QED BY <2>1, <2>2 DEF TypeInv
<1> QED BY <1>1, <1>2, <1>3, <1>4

-----------------------------------------------------------------------------
(* The inductive invariant.                                                *)

(* sc_screen_show_initial_window: a size that --window-width and
   --window-height do not both give is optimal for the content. *)
LEMMA InitialSizeIsOptimal ==
  ASSUME NEW c \in Sizes, NEW s \in InitialSizes(c), s \notin Windows
  PROVE  IsOptimal(s, c)
<1>1. CASE s = OptimalSize(c, c, TRUE)
  BY <1>1, SizeParts, OptimalSizeIsOptimal
<1>2. CASE \E w \in Windows : s = <<w[1], (w[1] * c[2]) \div c[1]>>
  BY <1>2 DEF IsOptimal
<1>3. CASE \E w \in Windows : s = <<(w[2] * c[1]) \div c[2], w[2]>>
  BY <1>3 DEF IsOptimal
<1> QED BY <1>1, <1>2, <1>3 DEF InitialSizes

(* The initial states satisfy the invariant. *)
LEMMA InitGInv == Init => GInv
<1> SUFFICES ASSUME Init PROVE GInv
  OBVIOUS
<1>1. frame \in Sizes /\ display = frame /\ content = Oriented(frame, orientation)
  BY GeometryAssumption DEF Init
<1>2. content \in Sizes
  BY <1>1, SizeParts
<1>3. size \in InitialSizes(content) /\ size \in Sizes
  BY DEF Init
<1>4. TypeInv
  <2>1. /\ flex \in BOOLEAN /\ full = FALSE /\ orientation \in 0..7
        /\ fit \in {"letterbox", "unscaled", "stretched"}
        /\ request = None /\ pending = None /\ sessions = <<>>
        /\ event = [size |-> size, tracked |-> TRUE]
        /\ history = [touched |-> size \in Windows, swallowed |-> FALSE]
    BY GeometryAssumption DEF Init
  <2>2. history \in [touched: BOOLEAN, swallowed: BOOLEAN]
    BY <2>1
  <2>3. sessions \in Seq(Session) /\ event.size \in Sizes
    BY <1>3, <2>1
  <2> QED BY <1>1, <1>2, <1>3, <2>1, <2>2, <2>3 DEF TypeInv
<1>5. ProgramsSizeIsOptimal
  <2>1. history.touched = (size \in Windows)
    BY DEF Init
  <2> QED BY <1>2, <1>3, <2>1, InitialSizeIsOptimal DEF ProgramsSizeIsOptimal
<1> QED BY <1>1, <1>4, <1>5 DEF GInv, ContentIsOriented

(* Every step of the program, of the user and of the device preserves it. *)
LEMMA StepGInv == GInv /\ [Next]_vars => GInv'
<1> SUFFICES ASSUME GInv, [Next]_vars PROVE GInv'
  OBVIOUS
<1> USE DEF GInv
<1>1. CASE NewFrame
  <2>1. PICK n \in DOMAIN sessions :
          LET session == sessions[n] new == Oriented(session.size, orientation) IN
          /\ sessions' = SubSeq(sessions, n + 1, Len(sessions))
          /\ frame' = session.size
          /\ IF session.size = frame
             THEN UNCHANGED <<content, rect, tracker, size, event, request, pending, history>>
             ELSE SetContentSize(new, ~session.client, TRUE)
          /\ UNCHANGED <<flex, fit, orientation, full, left, display, steps, crossed>>
    BY <1>1 DEF NewFrame
  <2> DEFINE session == sessions[n]
             new == Oriented(session.size, orientation)
  <2>0. sessions \in Seq(Session) /\ n \in 1..Len(sessions)
    BY DEF TypeInv
  <2>2. session \in Session
    BY <2>0
  <2>3. new \in Sizes /\ session.size \in Sizes /\ (~session.client) \in BOOLEAN
    BY <2>2, SizeParts DEF Session
  <2>4. sessions' \in Seq(Session)
    <3>1. n + 1 \in Nat /\ Len(sessions) \in Nat
      BY <2>0
    <3>2. SubSeq(sessions, n + 1, Len(sessions)) \in Seq(Session)
      BY <2>0, <3>1, SubSeqProperties
    <3> QED BY <2>1, <3>2
  <2>5. CASE session.size = frame
    BY <2>1, <2>3, <2>4, <2>5
       DEF TypeInv, ContentIsOriented, ProgramsSizeIsOptimal
  <2>6. CASE session.size # frame
    <3>1. /\ SetContentSize(new, ~session.client, TRUE)
          /\ frame' = session.size
          /\ UNCHANGED <<flex, fit, full, orientation, display>>
      BY <2>1, <2>6
    <3> DEFINE resize == ~session.client
    <3> HIDE DEF new, resize
    <3>2. /\ content' = new /\ size' \in Sizes
          /\ request' \in Sizes \cup {None} /\ pending' \in Sizes \cup {None}
          /\ event' # None => event'.size \in Sizes
          /\ history' \in [touched: BOOLEAN, swallowed: BOOLEAN]
          /\ ~history'.touched /\ pending' = None => IsOptimal(size', new)
      BY <2>3, <3>1, SetContentSizeFits DEF resize
    <3> QED BY <2>3, <2>4, <3>1, <3>2
            DEF TypeInv, ContentIsOriented, ProgramsSizeIsOptimal, new
  <2> QED BY <2>5, <2>6
<1>2. ASSUME NEW o \in Transforms, SetOrientation(o)
      PROVE  GInv'
  <2> DEFINE new == Oriented(frame, o)
  <2>1. /\ SetContentSize(new, TRUE, FALSE) /\ orientation' = o
        /\ UNCHANGED <<flex, fit, full, frame, display, sessions>>
    BY <1>2 DEF SetOrientation, device
  <2>2. new \in Sizes /\ o \in 0..7
    BY GeometryAssumption, SizeParts DEF TypeInv
  <2> HIDE DEF new
  <2>3. /\ content' = new /\ size' \in Sizes
        /\ request' \in Sizes \cup {None} /\ pending' \in Sizes \cup {None}
        /\ event' # None => event'.size \in Sizes
        /\ history' \in [touched: BOOLEAN, swallowed: BOOLEAN]
        /\ ~history'.touched /\ pending' = None => IsOptimal(size', new)
    BY <2>1, <2>2, SetContentSizeFits
  <2> QED BY <2>1, <2>2, <2>3
          DEF TypeInv, ContentIsOriented, ProgramsSizeIsOptimal, new
<1>3. ASSUME NEW s \in Windows, UserResizes(s)
      PROVE  GInv'
  <2>1. s \in Sizes
    BY GeometryAssumption
  <2> QED BY <1>3, <2>1
          DEF UserResizes, TypeInv, ContentIsOriented, ProgramsSizeIsOptimal, shown, device
<1>4. CASE OnResize
  <2>1. /\ event # None /\ event' = None
        /\ UNCHANGED <<flex, fit, orientation, frame, content, pending, size, full,
                       display, sessions>>
        /\ history' = history \/ history' = [history EXCEPT !.swallowed = @ \/ ~event.tracked]
        /\ request' = request \/ request' = Oriented(event.size, orientation)
    BY <1>4 DEF OnResize, Request, device
  <2>2. request' \in Sizes \cup {None}
    BY <2>1, SizeParts DEF TypeInv
  <2>3. history' \in [touched: BOOLEAN, swallowed: BOOLEAN] /\ history'.touched = history.touched
    BY <2>1 DEF TypeInv
  <2> QED BY <2>1, <2>2, <2>3 DEF TypeInv, ContentIsOriented, ProgramsSizeIsOptimal
<1>5. CASE ToggleFullscreen
  <2>1. /\ UNCHANGED <<flex, fit, orientation, frame, content, pending, size, display, sessions,
                       request, history>>
        /\ full' = ~full
        /\ event' = [size |-> IF full THEN size ELSE Full, tracked |-> FALSE]
    BY <1>5 DEF ToggleFullscreen, shown, device
  <2>2. event'.size \in Sizes
    BY <2>1, GeometryAssumption DEF TypeInv
  <2> QED BY <2>1, <2>2 DEF TypeInv, ContentIsOriented, ProgramsSizeIsOptimal
<1>6. CASE OnLeaveFullscreen
  <2>1. UNCHANGED <<flex, fit, orientation, frame, content, full, request, display, sessions>>
    BY <1>6 DEF OnLeaveFullscreen, device
  <2>2. CASE full \/ pending = None
    <3>1. UNCHANGED <<pending, size, event, history>>
      BY <1>6, <2>2 DEF OnLeaveFullscreen
    <3> QED BY <2>1, <3>1 DEF TypeInv, ContentIsOriented, ProgramsSizeIsOptimal
  <2>3. CASE ~(full \/ pending = None)
    <3>1. ResizeForContent(pending, content, FALSE) /\ pending' = None
      BY <1>6, <2>3 DEF OnLeaveFullscreen
    <3>2. pending \in Sizes /\ content \in Sizes
      BY <2>3 DEF TypeInv
    <3>3. /\ size' \in Sizes
          /\ event' # None => event'.size \in Sizes
          /\ history' \in [touched: BOOLEAN, swallowed: BOOLEAN]
          /\ ~history'.touched => IsOptimal(size', content)
      BY <3>1, <3>2, ResizeFits
    <3> QED BY <2>1, <3>1, <3>3 DEF TypeInv, ContentIsOriented, ProgramsSizeIsOptimal
  <2> QED BY <2>2, <2>3
<1>7. ASSUME NEW s, IsOptimal(s, content), SetWindowSize(s, FALSE),
             UNCHANGED <<flex, fit, shown, full, left, tracker, request, device>>
      PROVE  GInv'
  <2>1. /\ size' \in Sizes
        /\ event' # None => event'.size \in Sizes
        /\ history' \in [touched: BOOLEAN, swallowed: BOOLEAN]
        /\ ~history'.touched => IsOptimal(size', content)
    BY <1>7, SetWindowSizeFits
  <2> QED BY <1>7, <2>1
          DEF TypeInv, ContentIsOriented, ProgramsSizeIsOptimal, shown, device
<1>8. content \in Sizes /\ size \in Nat \X Nat /\ IsOptimal(content, content)
  BY SizeParts, ContentIsOptimal DEF TypeInv
<1>9. CASE ResizeToFit
  <2>1. UNCHANGED <<flex, fit, shown, full, left, tracker, request, device>>
    BY <1>9 DEF ResizeToFit
  <2>2. CASE fit = "stretched"
    <3>1. UNCHANGED <<size, event, history>>
      BY <1>9, <2>2 DEF ResizeToFit
    <3> QED BY <2>1, <3>1
            DEF TypeInv, ContentIsOriented, ProgramsSizeIsOptimal, shown, device
  <2>3. CASE fit = "unscaled"
    <3>1. SetWindowSize(content, FALSE)
      BY <1>9, <2>3 DEF ResizeToFit
    <3> QED BY <1>7, <1>8, <2>1, <3>1
  <2>4. CASE fit = "letterbox"
    <3>1. SetWindowSize(OptimalSize(size, content, FALSE), FALSE)
      BY <1>9, <2>4 DEF ResizeToFit
    <3>2. IsOptimal(OptimalSize(size, content, FALSE), content)
      BY <1>8, OptimalSizeIsOptimal
    <3> QED BY <1>7, <2>1, <3>1, <3>2
  <2> QED BY <2>2, <2>3, <2>4 DEF TypeInv
<1>10. CASE PixelPerfect
  <2>1. /\ SetWindowSize(content, FALSE)
        /\ UNCHANGED <<flex, fit, shown, full, left, tracker, request, device>>
    BY <1>10 DEF PixelPerfect
  <2> QED BY <1>7, <1>8, <2>1
<1>11. ASSUME NEW s \in Frames, DeviceTurns(s)
       PROVE  GInv'
  <2>1. /\ display' = s /\ sessions' = Append(sessions, [size |-> s, client |-> FALSE])
        /\ UNCHANGED <<flex, fit, shown, window, request, history>>
    BY <1>11 DEF DeviceTurns
  <2>2. s \in Sizes
    BY GeometryAssumption
  <2>3. sessions' \in Seq(Session)
    <3>1. [size |-> s, client |-> FALSE] \in Session
      BY <2>2 DEF Session
    <3> QED BY <2>1, <3>1 DEF TypeInv
  <2> QED BY <2>1, <2>2, <2>3
          DEF TypeInv, ContentIsOriented, ProgramsSizeIsOptimal, shown, window
<1>12. CASE DeviceResizes
  <2>1. /\ request # None /\ request' = None /\ display' = request
        /\ sessions' = IF request = display THEN sessions
                       ELSE Append(sessions, [size |-> request, client |-> TRUE])
        /\ UNCHANGED <<flex, fit, shown, window, history>>
    BY <1>12 DEF DeviceResizes
  <2>2. request \in Sizes
    BY <2>1 DEF TypeInv
  <2>3. sessions' \in Seq(Session)
    <3>1. [size |-> request, client |-> TRUE] \in Session
      BY <2>2 DEF Session
    <3> QED BY <2>1, <3>1 DEF TypeInv
  <2> QED BY <2>1, <2>2, <2>3
          DEF TypeInv, ContentIsOriented, ProgramsSizeIsOptimal, shown, window
<1>13. CASE UNCHANGED vars
  BY <1>13 DEF vars, shown, window, device, TypeInv, ContentIsOriented, ProgramsSizeIsOptimal
<1> QED
  BY <1>1, <1>2, <1>3, <1>4, <1>5, <1>6, <1>9, <1>10, <1>11, <1>12, <1>13
     DEF Next, User, Main, Device

-----------------------------------------------------------------------------
(* The theorems.                                                           *)

(* Every reachable state satisfies the invariant: the sizes are sizes, and the
   content is the frame as it is oriented. *)
THEOREM GeometryInvariant == Spec => []GInv
<1>1. Init => GInv
  BY InitGInv
<1>2. GInv /\ [Next]_vars => GInv'
  BY StepGInv
<1> QED BY <1>1, <1>2, PTL DEF Spec

(* In every reachable state, a window whose size is the program's is optimal
   for its content, unless a resize waits for the end of fullscreen, and
   removing black borders makes no window grow (screen.c:72, 86 and 826). *)
THEOREM WindowFits == Spec => []WindowFitsContent
<1>1. GInv => WindowFitsContent
  <2> SUFFICES ASSUME GInv PROVE WindowFitsContent
    OBVIOUS
  <2>1. content \in Sizes /\ size \in Nat \X Nat
    BY SizeParts DEF GInv, TypeInv
  <2>2. /\ OptimalSize(size, content, FALSE)[1] <= size[1]
        /\ OptimalSize(size, content, FALSE)[2] <= size[2]
    BY <2>1, CroppedNeverGrows DEF OptimalSize
  <2> QED BY <2>2 DEF WindowFitsContent, GInv, ProgramsSizeIsOptimal
<1> QED BY <1>1, GeometryInvariant, PTL

(* Where a point of the content is sent is where it was drawn from. *)
ClicksInvertDrawing == \A x, y \in Int : Drawn(ToFrame(<<x, y>>)) = <<x, y>>

(* In every reachable state, sc_screen_convert_drawable_to_frame_coords is the
   inverse of the way sc_screen_render turns and mirrors the frame: a click is
   sent to the point that is drawn under it, in each of the eight orientations
   and for every size of the frame. *)
THEOREM ClicksGoWhereDrawn == Spec => []ClicksInvertDrawing
<1>1. GInv => ClicksInvertDrawing
  <2> SUFFICES ASSUME GInv, NEW x \in Int, NEW y \in Int
               PROVE  Drawn(ToFrame(<<x, y>>)) = <<x, y>>
    BY DEF ClicksInvertDrawing
  <2>1. /\ frame[1] \in Nat /\ frame[2] \in Nat
        /\ content = Oriented(frame, orientation) /\ orientation \in 0..7
    BY SizeParts DEF GInv, TypeInv, ContentIsOriented
  <2>2. CASE orientation = 0
    BY <2>1, <2>2 DEF ToFrame, Drawn, Mirrored, Oriented, Swaps
  <2>3. CASE orientation = 1
    BY <2>1, <2>3 DEF ToFrame, Drawn, Mirrored, Oriented, Swaps
  <2>4. CASE orientation = 2
    BY <2>1, <2>4 DEF ToFrame, Drawn, Mirrored, Oriented, Swaps
  <2>5. CASE orientation = 3
    BY <2>1, <2>5 DEF ToFrame, Drawn, Mirrored, Oriented, Swaps
  <2>6. CASE orientation = 4
    BY <2>1, <2>6 DEF ToFrame, Drawn, Mirrored, Oriented, Swaps
  <2>7. CASE orientation = 5
    BY <2>1, <2>7 DEF ToFrame, Drawn, Mirrored, Oriented, Swaps
  <2>8. CASE orientation = 6
    BY <2>1, <2>8 DEF ToFrame, Drawn, Mirrored, Oriented, Swaps
  <2>9. CASE orientation = 7
    BY <2>1, <2>9 DEF ToFrame, Drawn, Mirrored, Oriented, Swaps
  <2> QED BY <2>1, <2>2, <2>3, <2>4, <2>5, <2>6, <2>7, <2>8, <2>9
<1> QED BY <1>1, GeometryInvariant, PTL

-----------------------------------------------------------------------------
(* Where a click goes.                                                     *)

(* Division rounds down. *)
LEMMA DivBounds ==
  ASSUME NEW a \in Int, NEW b \in Nat, b > 0
  PROVE  LET q == a \div b IN q \in Int /\ q * b <= a /\ a < q * b + b
<1>1. a \div b \in Int
  OBVIOUS
<1>2. (a \div b) * b <= a
  OBVIOUS
<1>3. a < (a \div b) * b + b
  OBVIOUS
<1> QED BY <1>1, <1>2, <1>3

(* sc_screen_convert_drawable_to_frame_coords, in one direction: the two divisions
   lose less than a pixel of the window and one of the frame. *)
LEMMA AxisNear ==
  ASSUME NEW x \in Int, NEW start \in Int, NEW d \in Nat, d > 0,
         NEW extent \in Nat, extent > 0, NEW of \in Nat, of > 0,
         start <= x * d, x * d < start + extent
  PROVE  LET c == ((((x * d - start) \div d) * of) * d) \div extent
             off == of * (x * d - start) - c * extent IN
         /\ c \in 0 .. of
         /\ -(of * d + extent) < off /\ off < of * d + extent
<1> DEFINE t == x * d - start
           q == t \div d
           m == (q * of) * d
           c == m \div extent
<1>1. t \in Int /\ 0 <= t /\ t < extent
  OBVIOUS
<1>2. q \in Int /\ q * d <= t /\ t < q * d + d
  <2> HIDE DEF t
  <2> QED BY <1>1, DivBounds
<1> HIDE DEF t
<1>3. q >= 0
  BY <1>1, <1>2
<1> HIDE DEF q
<1>4. m \in Int /\ m = of * (q * d) /\ m >= 0
  BY <1>2, <1>3
<1>5. m <= of * t
  BY <1>1, <1>2, <1>4
<1>6. of * t < m + of * d
  BY <1>1, <1>2, <1>4
<1>7. c \in Int /\ c * extent <= m /\ m < c * extent + extent
  <2> HIDE DEF m
  <2> QED BY <1>4, DivBounds
<1> HIDE DEF m
<1> HIDE DEF c
<1>8. of * t < of * extent
  BY <1>1
<1>9. c >= 0
  BY <1>4, <1>7
<1>10. c <= of
  BY <1>1, <1>5, <1>7, <1>8, <1>4
<1>11. of * t \in Int /\ c * extent \in Int /\ of * d \in Int /\ of * d >= 0
  BY <1>1, <1>7
<1>12. /\ -(of * d + extent) < of * t - c * extent
       /\ of * t - c * extent < of * d + extent
  BY <1>4, <1>5, <1>6, <1>7, <1>11
<1> QED BY <1>7, <1>9, <1>10, <1>12 DEF c, m, q, t

(* A rectangle is not empty. *)
LEMMA RectHasSize ==
  ASSUME NEW win \in Sizes, NEW c \in Sizes, TypeInv
  PROVE  LET r == ContentRect(win, c) IN
         /\ r.d \in Nat /\ r.d > 0 /\ r.x \in Int /\ r.y \in Int
         /\ r.w \in Nat /\ r.w > 0 /\ r.h \in Nat /\ r.h > 0
<1>1. /\ win[1] \in Nat /\ win[2] \in Nat /\ win[1] > 0 /\ win[2] > 0
      /\ c[1] \in Nat /\ c[2] \in Nat /\ c[1] > 0 /\ c[2] > 0
  BY SizeParts
<1>2. ASSUME NEW i \in Nat, NEW j \in Nat, i > 0, j > 0
      PROVE  i * j \in Nat /\ i * j > 0 /\ 2 * i \in Nat /\ 2 * i > 0
             /\ 2 * i * j \in Nat /\ 2 * i * j > 0
  <2>1. i * j \in Nat /\ i * j > 0
    BY <1>2
  <2>2. 2 * i * j = (i * j) + (i * j)
    BY <1>2
  <2> QED BY <1>2, <2>1, <2>2
<1>3. /\ c[1] * win[2] \in Int /\ win[1] * c[2] \in Int
      /\ c[2] * win[1] \in Int /\ win[2] * c[1] \in Int
  BY <1>1
<1>4. Larger(0, win[1] - c[1]) \in Int /\ Larger(0, win[2] - c[2]) \in Int
  BY <1>1 DEF Larger
<1>5. CASE fit = "unscaled"
  <2>1. ContentRect(win, c) =
          [d |-> 2, x |-> Larger(0, win[1] - c[1]), y |-> Larger(0, win[2] - c[2]),
           w |-> 2 * c[1], h |-> 2 * c[2]]
    BY <1>5 DEF ContentRect
  <2> QED BY <1>1, <1>2, <1>4, <2>1
<1>6. CASE fit = "stretched" \/ (fit = "letterbox" /\ IsOptimal(win, c))
  <2>1. ContentRect(win, c) = [d |-> 1, x |-> 0, y |-> 0, w |-> win[1], h |-> win[2]]
    BY <1>6 DEF ContentRect
  <2> QED BY <1>1, <2>1
<1>7. CASE fit = "letterbox" /\ ~IsOptimal(win, c) /\ c[1] * win[2] > c[2] * win[1]
  <2>1. ContentRect(win, c) =
          [d |-> 2 * c[1], x |-> 0, y |-> c[1] * win[2] - win[1] * c[2],
           w |-> 2 * c[1] * win[1], h |-> 2 * win[1] * c[2]]
    BY <1>7 DEF ContentRect
  <2>2. c[1] * win[2] - win[1] * c[2] \in Int
    BY <1>3
  <2> QED BY <1>1, <1>2, <2>1, <2>2
<1>8. CASE fit = "letterbox" /\ ~IsOptimal(win, c) /\ ~(c[1] * win[2] > c[2] * win[1])
  <2>1. ContentRect(win, c) =
          [d |-> 2 * c[2], x |-> c[2] * win[1] - win[2] * c[1], y |-> 0,
           w |-> 2 * win[2] * c[1], h |-> 2 * c[2] * win[2]]
    BY <1>8 DEF ContentRect
  <2>2. c[2] * win[1] - win[2] * c[1] \in Int
    BY <1>3
  <2> QED BY <1>1, <1>2, <2>1, <2>2
<1> QED BY <1>5, <1>6, <1>7, <1>8 DEF TypeInv

(* The rectangle is the one of the window as it is, when no event of the window is
   left to handle. *)
RectIsCurrent == event = None => rect = ContentRect(Window, content)

(* The window has a new size, or there is an event to tell so. *)
LEMMA SizeChangesWithAnEvent ==
  ASSUME NEW s, NEW tracked \in BOOLEAN, SetWindowSize(s, tracked), event' = None
  PROVE  size' = size /\ event = None
<1>1. CASE s \notin Sizes
  BY <1>1 DEF SetWindowSize
<1>2. CASE s \in Sizes /\ s # size
  <2>1. event' = [size |-> s, tracked |-> tracked]
    BY <1>2 DEF SetWindowSize
  <2>2. event' \in [size : Sizes, tracked : BOOLEAN]
    BY <1>2, <2>1
  <2> QED BY <2>2, GeometryAssumption
<1>3. CASE s \in Sizes /\ s = size
  BY <1>3 DEF SetWindowSize
<1> QED BY <1>1, <1>2, <1>3

(* Whatever changes the window or the content updates the rectangle, or leaves an
   event that will. *)
LEMMA RectStep == GInv /\ RectIsCurrent /\ [Next]_vars => RectIsCurrent'
<1> SUFFICES ASSUME GInv, RectIsCurrent, [Next]_vars, event' = None
             PROVE  (rect = ContentRect(Window, content))'
  BY DEF RectIsCurrent
<1> DEFINE Goal == (rect = ContentRect(Window, content))'
<1>1. ASSUME UpdateRect, UNCHANGED <<fit, full>> PROVE Goal
  BY <1>1 DEF UpdateRect, ContentRect, Window
<1>2. ASSUME UNCHANGED <<fit, full, size, event, content, rect>> PROVE Goal
  <2>1. rect = ContentRect(Window, content)
    BY <1>2 DEF RectIsCurrent
  <2> QED BY <1>2, <2>1 DEF ContentRect, Window
<1>3. CASE NewFrame
  <2>1. UNCHANGED <<fit, full>> /\ (UpdateRect \/ UNCHANGED <<size, event, content, rect>>)
    BY <1>3 DEF NewFrame
  <2> QED BY <1>1, <1>2, <2>1
<1>4. CASE OnResize \/ OnLeaveFullscreen \/ \E o \in Transforms : SetOrientation(o)
  <2>1. UNCHANGED <<fit, full>> /\ UpdateRect
    BY <1>4 DEF OnResize, OnLeaveFullscreen, SetOrientation
  <2> QED BY <1>1, <2>1
<1>5. ASSUME NEW s \in Windows, UserResizes(s) PROVE Goal
  <2>1. event' = [size |-> s, tracked |-> FALSE] /\ s \in Sizes
    BY <1>5, GeometryAssumption DEF UserResizes
  <2>2. event' \in [size : Sizes, tracked : BOOLEAN]
    BY <2>1
  <2> QED BY <2>2, GeometryAssumption
<1>6. CASE ToggleFullscreen
  <2>1. event' = [size |-> IF full THEN size ELSE Full, tracked |-> FALSE]
        /\ size \in Sizes /\ Full \in Sizes
    BY <1>6, GeometryAssumption DEF ToggleFullscreen, GInv, TypeInv
  <2>2. event' \in [size : Sizes, tracked : BOOLEAN]
    BY <2>1
  <2> QED BY <2>2, GeometryAssumption
<1>7. CASE ResizeToFit \/ PixelPerfect
  <2>1. /\ UNCHANGED <<fit, full, content, rect>>
        /\ \/ UNCHANGED <<size, event>>
           \/ \E s : SetWindowSize(s, FALSE)
    BY <1>7 DEF ResizeToFit, PixelPerfect, shown, GInv, TypeInv
  <2>2. UNCHANGED <<size, event>>
    BY <2>1, SizeChangesWithAnEvent
  <2> QED BY <1>2, <2>1, <2>2
<1>8. CASE Device \/ UNCHANGED vars
  <2>1. UNCHANGED <<fit, full, size, event, content, rect>>
    BY <1>8 DEF Device, DeviceResizes, DeviceTurns, vars, shown, window
  <2> QED BY <1>2, <2>1
<1> QED BY <1>3, <1>4, <1>5, <1>6, <1>7, <1>8 DEF Next, User, Main

(* A click on the video goes to the point of the frame that is drawn under it, to
   within a pixel of the window and one of the frame in each direction, and the video
   is drawn as the window's size and the content require: for all sizes of frames and
   windows, in all orientations and fits, after any resizes (screen.c:1247). *)
THEOREM ClicksHit == Spec => []ClickHitsWhatIsShown
<1>1. Init => RectIsCurrent
  <2> SUFFICES ASSUME Init PROVE event # None
    BY DEF RectIsCurrent
  <2>1. event = [size |-> size, tracked |-> TRUE] /\ size \in Sizes
    BY DEF Init
  <2>2. event \in [size : Sizes, tracked : BOOLEAN]
    BY <2>1
  <2> QED BY <2>2, GeometryAssumption
<1>2. Spec => []RectIsCurrent
  BY <1>1, RectStep, GeometryInvariant, PTL DEF Spec
<1>3. GInv /\ RectIsCurrent /\ ClicksInvertDrawing => ClickHitsWhatIsShown
  <2> SUFFICES ASSUME GInv, rect = ContentRect(Window, content), ClicksInvertDrawing,
                      NEW x \in 0..Window[1] - 1, NEW y \in 0..Window[2] - 1, Inside(x, y)
               PROVE  LET p == ToFrame(ToContent(x, y)) IN
                      /\ p \in (0..frame[1]) \X (0..frame[2])
                      /\ Near(x, rect.x, Drawn(p)[1], rect.w, content[1])
                      /\ Near(y, rect.y, Drawn(p)[2], rect.h, content[2])
    BY DEF RectIsCurrent, ClickHitsWhatIsShown
  <2>1. Window \in Sizes /\ content \in Sizes /\ frame \in Sizes /\ TypeInv
    BY GeometryAssumption DEF Window, GInv, TypeInv
  <2>2. /\ rect.d \in Nat /\ rect.d > 0 /\ rect.x \in Int /\ rect.y \in Int
        /\ rect.w \in Nat /\ rect.w > 0 /\ rect.h \in Nat /\ rect.h > 0
    BY <2>1, RectHasSize
  <2>3. /\ content[1] \in Nat /\ content[1] > 0 /\ content[2] \in Nat /\ content[2] > 0
        /\ frame[1] \in Nat /\ frame[2] \in Nat
        /\ Window[1] \in Nat /\ Window[2] \in Nat
    BY <2>1, SizeParts
  <2>4. x \in Int /\ y \in Int
    BY <2>3
  <2> DEFINE cx == ((((x * rect.d - rect.x) \div rect.d) * content[1]) * rect.d) \div rect.w
             cy == ((((y * rect.d - rect.y) \div rect.d) * content[2]) * rect.d) \div rect.h
  <2>5. /\ rect.x <= x * rect.d /\ x * rect.d < rect.x + rect.w
        /\ rect.y <= y * rect.d /\ y * rect.d < rect.y + rect.h
    BY DEF Inside
  <2>6. cx \in 0..content[1] /\ Near(x, rect.x, cx, rect.w, content[1])
    <3>1. /\ cx \in 0 .. content[1]
          /\ -(content[1] * rect.d + rect.w) < content[1] * (x * rect.d - rect.x) - cx * rect.w
          /\ content[1] * (x * rect.d - rect.x) - cx * rect.w < content[1] * rect.d + rect.w
      BY ONLY <2>2, <2>3, <2>4, <2>5, AxisNear
    <3> HIDE DEF cx
    <3> QED BY <3>1 DEF Near
  <2>7. cy \in 0..content[2] /\ Near(y, rect.y, cy, rect.h, content[2])
    <3>1. /\ cy \in 0 .. content[2]
          /\ -(content[2] * rect.d + rect.h) < content[2] * (y * rect.d - rect.y) - cy * rect.h
          /\ content[2] * (y * rect.d - rect.y) - cy * rect.h < content[2] * rect.d + rect.h
      BY ONLY <2>2, <2>3, <2>4, <2>5, AxisNear
    <3> HIDE DEF cy
    <3> QED BY <3>1 DEF Near
  <2>8. ToContent(x, y) = <<cx, cy>>
    BY DEF ToContent
  <2> HIDE DEF cx, cy
  <2>9. cx \in Int /\ cy \in Int /\ 0 <= cx /\ cx <= content[1] /\ 0 <= cy /\ cy <= content[2]
    BY <2>3, <2>6, <2>7
  <2> DEFINE p == ToFrame(<<cx, cy>>)
  <2>10. Drawn(p) = <<cx, cy>>
    BY <2>9 DEF ClicksInvertDrawing
  <2>11. p \in (0..frame[1]) \X (0..frame[2])
    <3>1. content = (IF Swaps(orientation) THEN <<frame[2], frame[1]>> ELSE frame)
          /\ orientation \in 0..7
      BY DEF GInv, TypeInv, ContentIsOriented, Oriented
    <3>2. CASE orientation \in {0, 2, 4, 6}
      <4>1. content[1] = frame[1] /\ content[2] = frame[2]
        BY <3>1, <3>2 DEF Swaps
      <4>2. /\ cx \in 0..frame[1] /\ content[1] - cx \in 0..frame[1]
            /\ cy \in 0..frame[2] /\ content[2] - cy \in 0..frame[2]
        BY <2>3, <2>9, <4>1
      <4> QED BY <3>2, <4>2 DEF ToFrame
    <3>3. CASE orientation \in {1, 3, 5, 7}
      <4>1. content[1] = frame[2] /\ content[2] = frame[1]
        BY <3>1, <3>3 DEF Swaps
      <4>2. /\ cx \in 0..frame[2] /\ content[1] - cx \in 0..frame[2]
            /\ cy \in 0..frame[1] /\ content[2] - cy \in 0..frame[1]
        BY <2>3, <2>9, <4>1
      <4> QED BY <3>3, <4>2 DEF ToFrame
    <3> QED BY <3>1, <3>2, <3>3
  <2> HIDE DEF p
  <2>12. Drawn(p)[1] = cx /\ Drawn(p)[2] = cy
    BY <2>10
  <2> QED BY <2>6, <2>7, <2>8, <2>11, <2>12 DEF p
<1> QED BY <1>2, <1>3, ClicksGoWhereDrawn, GeometryInvariant, PTL

-----------------------------------------------------------------------------
(* The display follows the window.                                         *)

(* The size that the display has, or has been asked to take. *)
Asked == IF request # None THEN request ELSE display

(* The last session is the one of the display; a pending resize is for windows
   without --flex-display only; an event has the size of the window. *)
SizesAgree ==
  /\ display = IF sessions = <<>> THEN frame ELSE sessions[Len(sessions)].size
  /\ event # None => event.tracked \in BOOLEAN
  /\ flex => pending = None
  /\ flex /\ event # None => event.size = Window

(* A display that turned, when nothing was under way, is shown before anything
   else happens. *)
TurnsAlone ==
  Turning => /\ sessions = <<[size |-> display, client |-> FALSE]>>
             /\ display # frame /\ event = None /\ request = None

(* The event that the tracker is meant for comes before any other request, from a
   window that the display already has the size of. *)
TrackedFirst ==
  event # None /\ event.tracked =>
    /\ request = None /\ sessions = <<>> /\ ~full
    /\ tracker = event.size => display = Oriented(size, orientation)

(* Once its events are handled, the display has been asked for the window's size;
   unless nothing was to be resized, and nothing is under way. *)
Unasked == sessions = <<>> /\ request = None /\ NothingToResize

AskedForWindow ==
  ~full /\ event = None /\ ~Turning => Asked = Oriented(size, orientation) \/ Unasked

(* What the display, the requests and the events under way owe each other. *)
FInv ==
  /\ SizesAgree
  /\ flex /\ ~crossed => TurnsAlone /\ (~history.swallowed => TrackedFirst /\ AskedForWindow)

(* Turned twice, a size is what it was; and a size that fits the screen needs no
   other. *)
LEMMA TurnedBack ==
  ASSUME NEW s \in Sizes, NEW o \in 0..7
  PROVE  /\ Oriented(Oriented(s, o), o) = s
         /\ s = Within(s) => OptimalSize(s, s, TRUE) = s
<1>1. Oriented(Oriented(s, o), o) = s
  BY SizeParts DEF Oriented, Swaps
<1>2. Cropped(s, s) = s
  BY ContentIsOptimal DEF Cropped
<1> QED BY <1>1, <1>2 DEF OptimalSize

(* Whether there is something to resize depends on the content and the size. *)
LEMMA NothingKept ==
  ASSUME UNCHANGED <<content, size>>
  PROVE  NothingToResize' <=> NothingToResize
BY DEF NothingToResize, OptimalSize, Within, Cropped, IsOptimal

(* What sc_sdl_set_window_size makes of an event. *)
LEMMA WindowEvents ==
  ASSUME NEW s, NEW tracked \in BOOLEAN, SetWindowSize(s, tracked), ~full, UNCHANGED full,
         event # None => event.tracked \in BOOLEAN
  PROVE  /\ event' # None => event'.tracked \in BOOLEAN
         /\ (event # None => event.size = Window) => (event' # None => event'.size = Window')
<1>1. CASE s \notin Sizes
  BY <1>1 DEF SetWindowSize, Window
<1>2. CASE s \in Sizes
  BY <1>2 DEF SetWindowSize, Window
<1> QED BY <1>1, <1>2

(* ... and set_content_size. *)
LEMMA ContentEvents ==
  ASSUME TypeInv, SizesAgree, NEW new, NEW resize \in BOOLEAN, NEW tracked \in BOOLEAN,
         SetContentSize(new, resize, tracked), UNCHANGED full
  PROVE  /\ event' # None => event'.tracked \in BOOLEAN
         /\ flex => pending' = None
         /\ flex /\ event' # None => event'.size = Window'
<1>1. CASE ~resize
  BY <1>1 DEF SetContentSize, SizesAgree, Window
<1>2. CASE resize /\ ~full
  <2>1. UNCHANGED pending /\ \E s : SetWindowSize(s, tracked)
    BY <1>2 DEF SetContentSize, ResizeForContent
  <2>2. event # None => event.tracked \in BOOLEAN
    BY DEF SizesAgree
  <2> QED BY <1>2, <2>1, <2>2, WindowEvents DEF SizesAgree
<1>3. CASE resize /\ full /\ flex
  BY <1>3 DEF SetContentSize, SizesAgree, Window
<1>4. CASE resize /\ full /\ ~flex
  BY <1>4 DEF SetContentSize, SizesAgree, Window
<1> QED BY <1>1, <1>2, <1>3, <1>4

(* The last session. *)
LEMMA AgreeStep == GInv /\ SizesAgree /\ [Next]_vars => SizesAgree'
<1> SUFFICES ASSUME GInv, SizesAgree, [Next]_vars PROVE SizesAgree'
  OBVIOUS
<1>0. TypeInv /\ sessions \in Seq(Session)
  BY DEF GInv, TypeInv
<1>1. CASE NewFrame
  <2>1. PICK n \in DOMAIN sessions :
          LET session == sessions[n] new == Oriented(session.size, orientation) IN
          /\ sessions' = SubSeq(sessions, n + 1, Len(sessions))
          /\ frame' = session.size
          /\ IF session.size = frame
             THEN UNCHANGED <<size, event, pending>>
             ELSE SetContentSize(new, ~session.client, TRUE)
          /\ UNCHANGED <<flex, full, display>>
    BY <1>1 DEF NewFrame
  <2> DEFINE session == sessions[n]
             new == Oriented(session.size, orientation)
             resize == ~session.client
  <2>2. n \in 1..Len(sessions) /\ Len(sessions) \in Nat /\ session \in Session
    BY <1>0
  <2>3. resize \in BOOLEAN
    BY <2>2 DEF Session
  <2>4. display' = IF sessions' = <<>> THEN frame' ELSE sessions'[Len(sessions')].size
    <3>1. /\ sessions' \in Seq(Session) /\ Len(sessions') = Len(sessions) - n
          /\ \A i \in 1..Len(sessions) - n : sessions'[i] = sessions[n + i]
      <4>1. n + 1 \in Nat /\ n + 1 \in 1..Len(sessions) + 1
        BY <2>2
      <4> QED BY <1>0, <2>1, <2>2, <4>1, SubSeqProperties
    <3>2. CASE n = Len(sessions)
      <4>1. sessions' = <<>>
        BY <2>2, <3>1, <3>2
      <4>2. sessions # <<>>
        BY <2>2
      <4> QED BY <2>1, <3>2, <4>1, <4>2 DEF SizesAgree
    <3>3. CASE n # Len(sessions)
      <4>1. Len(sessions) - n \in 1..Len(sessions) - n /\ Len(sessions) - n > 0
        BY <2>2, <3>3
      <4>2. sessions'[Len(sessions')] = sessions[n + (Len(sessions) - n)]
        BY <3>1, <4>1
      <4>3. n + (Len(sessions) - n) = Len(sessions) /\ sessions' # <<>> /\ sessions # <<>>
        BY <2>2, <3>1, <4>1
      <4> QED BY <2>1, <4>2, <4>3 DEF SizesAgree
    <3> QED BY <3>2, <3>3
  <2>5. CASE session.size = frame
    BY <2>1, <2>4, <2>5 DEF SizesAgree, Window
  <2>6. CASE session.size # frame
    <3>1. SetContentSize(new, resize, TRUE)
      BY <2>1, <2>6
    <3> HIDE DEF new, resize
    <3>2. /\ event' # None => event'.tracked \in BOOLEAN
          /\ flex => pending' = None
          /\ flex /\ event' # None => event'.size = Window'
      BY <1>0, <2>1, <2>3, <3>1, ContentEvents
    <3> QED BY <2>1, <2>4, <3>2 DEF SizesAgree
  <2> QED BY <2>5, <2>6
<1>2. ASSUME NEW o \in Transforms, SetOrientation(o)
      PROVE  SizesAgree'
  <2>1. /\ SetContentSize(Oriented(frame, o), TRUE, FALSE)
        /\ UNCHANGED <<flex, full, frame, display, sessions>>
    BY <1>2 DEF SetOrientation, device
  <2>2. /\ event' # None => event'.tracked \in BOOLEAN
        /\ flex => pending' = None
        /\ flex /\ event' # None => event'.size = Window'
    BY <1>0, <2>1, ContentEvents
  <2> QED BY <2>1, <2>2 DEF SizesAgree
<1>3. ASSUME NEW s \in Windows, UserResizes(s)
      PROVE  SizesAgree'
  BY <1>3 DEF UserResizes, SizesAgree, shown, device, Window
<1>4. CASE OnResize
  BY <1>4 DEF OnResize, SizesAgree, device
<1>5. CASE ToggleFullscreen
  BY <1>0, <1>5 DEF ToggleFullscreen, SizesAgree, shown, device, Window, TypeInv
<1>6. CASE OnLeaveFullscreen
  <2>1. UNCHANGED <<flex, frame, full, display, sessions>>
    BY <1>6 DEF OnLeaveFullscreen, device
  <2>2. CASE full \/ pending = None
    <3>1. UNCHANGED <<pending, size, event>>
      BY <1>6, <2>2 DEF OnLeaveFullscreen
    <3> QED BY <2>1, <3>1 DEF SizesAgree, Window
  <2>3. CASE ~(full \/ pending = None)
    <3>1. pending' = None /\ \E s : SetWindowSize(s, FALSE)
      BY <1>6, <2>3 DEF OnLeaveFullscreen, ResizeForContent
    <3>2. event # None => event.tracked \in BOOLEAN
      BY DEF SizesAgree
    <3>3. /\ event' # None => event'.tracked \in BOOLEAN
          /\ (event # None => event.size = Window) => (event' # None => event'.size = Window')
      BY <2>1, <2>3, <3>1, <3>2, WindowEvents
    <3> QED BY <2>1, <3>1, <3>3 DEF SizesAgree
  <2> QED BY <2>2, <2>3
<1>7. CASE ResizeToFit \/ PixelPerfect
  <2>1. /\ UNCHANGED <<flex, frame, full, pending, device>> /\ ~full
        /\ \/ UNCHANGED <<size, event>>
           \/ \E s : SetWindowSize(s, FALSE)
    BY <1>0, <1>7 DEF ResizeToFit, PixelPerfect, shown, TypeInv
  <2>2. CASE UNCHANGED <<size, event>>
    BY <2>1, <2>2 DEF SizesAgree, device, Window
  <2>3. CASE \E s : SetWindowSize(s, FALSE)
    <3>1. event # None => event.tracked \in BOOLEAN
      BY DEF SizesAgree
    <3>2. /\ event' # None => event'.tracked \in BOOLEAN
          /\ (event # None => event.size = Window) => (event' # None => event'.size = Window')
      BY <2>1, <2>3, <3>1, WindowEvents
    <3> QED BY <2>1, <3>2 DEF SizesAgree, device
  <2> QED BY <2>1, <2>2, <2>3
<1>8. ASSUME NEW new \in Sizes, NEW client \in BOOLEAN, display' = new,
             sessions' = Append(sessions, [size |-> new, client |-> client]),
             UNCHANGED <<flex, shown, window>>
      PROVE  SizesAgree'
  <2>1. /\ Len(sessions') = Len(sessions) + 1 /\ Len(sessions) \in Nat
        /\ sessions'[Len(sessions) + 1] = [size |-> new, client |-> client]
    BY <1>0, <1>8
  <2>2. sessions' # <<>> /\ sessions'[Len(sessions')].size = new
    BY <1>0, <1>8, <2>1
  <2> QED BY <1>8, <2>2 DEF SizesAgree, shown, window, Window
<1>9. CASE \E s \in Frames : DeviceTurns(s)
  BY <1>8, <1>9, GeometryAssumption DEF DeviceTurns
<1>10. CASE DeviceResizes
  <2>1. /\ request # None /\ request' = None /\ display' = request
        /\ sessions' = IF request = display THEN sessions
                       ELSE Append(sessions, [size |-> request, client |-> TRUE])
        /\ UNCHANGED <<flex, shown, window>>
    BY <1>10 DEF DeviceResizes
  <2>2. CASE request = display
    BY <2>1, <2>2 DEF SizesAgree, shown, window, Window
  <2>3. CASE request # display
    <3>1. request \in Sizes
      BY <1>0, <2>1 DEF TypeInv
    <3> QED BY <1>8, <2>1, <2>3, <3>1
  <2> QED BY <2>2, <2>3
<1>11. CASE UNCHANGED vars
  BY <1>11 DEF vars, shown, window, device, SizesAgree, Window
<1> QED BY <1>1, <1>2, <1>3, <1>4, <1>5, <1>6, <1>7, <1>9, <1>10, <1>11
        DEF Next, User, Main, Device
(* The display after a new frame: the program's resize of the window makes it what
   the display already is. *)
LEMMA NewFrameFollows ==
  ASSUME GInv, FInv, NewFrame, flex, ~crossed'
  PROVE  TurnsAlone' /\ (~history'.swallowed => TrackedFirst' /\ AskedForWindow')
<1>1. PICK n \in DOMAIN sessions :
        LET session == sessions[n] new == Oriented(session.size, orientation) IN
        /\ sessions' = SubSeq(sessions, n + 1, Len(sessions))
        /\ frame' = session.size
        /\ IF session.size = frame
           THEN UNCHANGED <<content, rect, tracker, size, event, request, pending, history>>
           ELSE /\ tracker' = IF flex THEN new ELSE tracker
                /\ SetContentSize(new, ~session.client, TRUE)
        /\ UNCHANGED <<flex, fit, orientation, full, left, display, steps, crossed>>
  BY DEF NewFrame
<1> DEFINE session == sessions[n]
           new == Oriented(session.size, orientation)
<1>2. /\ n \in 1..Len(sessions) /\ Len(sessions) \in Nat /\ session \in Session
      /\ sessions \in Seq(Session) /\ sessions # <<>>
      /\ TypeInv
  <2>1. sessions \in Seq(Session) /\ TypeInv
    BY DEF GInv, TypeInv
  <2> QED BY <2>1
<1>3. session.client \in BOOLEAN /\ session.size \in Sizes /\ orientation \in 0..7
      /\ size \in Sizes /\ history.touched \in BOOLEAN
  BY <1>2 DEF Session, TypeInv
<1>4. new \in Sizes /\ Oriented(new, orientation) = session.size
  BY <1>3, SizeParts, TurnedBack
<1>5. /\ SizesAgree /\ ~crossed /\ TurnsAlone
      /\ ~history.swallowed => TrackedFirst /\ AskedForWindow
  BY <1>1 DEF FInv
<1>6. CASE Turning
  <2>1. /\ sessions = <<[size |-> display, client |-> FALSE]>>
        /\ display # frame /\ event = None /\ request = None
    BY <1>5, <1>6 DEF TurnsAlone
  <2>2. n = 1 /\ session.size = display /\ session.client = FALSE /\ Len(sessions) = 1
    BY <1>2, <2>1
  <2>3. sessions' = <<>>
    BY <1>1, <2>1, <2>2
  <2>4. ~Turning'
    BY <2>3 DEF Turning
  <2>5. /\ SetContentSize(new, TRUE, TRUE) /\ tracker' = new
        /\ UNCHANGED <<orientation, full, display>>
    <3>1. (~session.client) = TRUE /\ session.size # frame
      BY <2>1, <2>2
    <3> HIDE DEF session
    <3> QED BY <1>1, <3>1 DEF session
  <2>6. CASE full
    <3>1. event' = None /\ full'
      BY <2>1, <2>5, <2>6 DEF SetContentSize
    <3> QED BY <2>4, <3>1 DEF TurnsAlone, TrackedFirst, AskedForWindow
  <2>7. CASE ~full
    <3> DEFINE o == OptimalSize(new, new, TRUE)
    <3> HIDE DEF new
    <3>1. /\ SetWindowSize(o, TRUE) /\ content' = new /\ request' = None
      BY <2>1, <2>5, <2>7 DEF SetContentSize, ResizeForContent
    <3>2. new = Within(new) => o = new
      BY <1>3, <1>4, TurnedBack
    <3>3. NothingToResize' <=> new # Within(new) /\ (o = size' \/ o \notin Sizes)
      BY <3>1 DEF NothingToResize, Within, OptimalSize, Cropped, IsOptimal
    <3>4. Oriented(new, orientation) = display
      BY <1>4, <2>2
    <3>5. Oriented(size', orientation') = Oriented(size', orientation)
      BY <2>5
    <3>6. AskedForWindow'
      <4>1. SUFFICES ASSUME event' = None
                     PROVE  display' = Oriented(size', orientation') \/ NothingToResize'
        BY <2>3, <3>1 DEF AskedForWindow, Asked, Unasked
      <4>2. o = size' \/ o \notin Sizes
        BY <3>1 DEF SetWindowSize
      <4>3. CASE new # Within(new)
        BY <3>3, <4>2, <4>3
      <4>4. CASE new = Within(new)
        <5>1. size' = new
          BY <1>4, <3>2, <4>2, <4>4
        <5> QED BY <2>5, <3>4, <3>5, <5>1
      <4> QED BY <4>3, <4>4
    <3>7. TrackedFirst'
      <4>1. SUFFICES ASSUME event' # None, tracker' = event'.size
                     PROVE  display' = Oriented(size', orientation')
        BY <2>3, <2>5, <2>7, <3>1 DEF TrackedFirst
      <4>2. event' = [size |-> o, tracked |-> TRUE] /\ size' = o
        BY <2>1, <3>1, <4>1 DEF SetWindowSize
      <4>3. size' = new
        BY <2>5, <4>1, <4>2
      <4> QED BY <2>5, <3>4, <3>5, <4>3
    <3> QED BY <2>4, <3>6, <3>7 DEF TurnsAlone
  <2> QED BY <2>6, <2>7
<1>7. CASE ~Turning
  <2>1. session.client
    BY <1>2, <1>3, <1>7 DEF Turning
  <2>2. ~Turning'
    <3>1. /\ Len(sessions') = Len(sessions) - n /\ DOMAIN sessions' = 1..Len(sessions) - n
          /\ \A i \in 1..Len(sessions) - n : sessions'[i] = sessions[n + i]
      <4>1. n + 1 \in Nat /\ n + 1 \in 1..Len(sessions) + 1
        BY <1>2
      <4>2. /\ sessions' \in Seq(Session) /\ Len(sessions') = Len(sessions) - n
            /\ \A i \in 1..Len(sessions) - n : sessions'[i] = sessions[n + i]
        BY <1>1, <1>2, <4>1, SubSeqProperties
      <4> QED BY <4>2
    <3>2. \A i \in 1..Len(sessions) - n : n + i \in DOMAIN sessions
      BY <1>2
    <3> QED BY <1>7, <3>1, <3>2 DEF Turning
  <2>3. /\ UNCHANGED <<size, event, request, full, orientation, display>>
        /\ history'.swallowed = history.swallowed
    <3>1. CASE session.size = frame
      BY <1>1, <3>1
    <3>2. CASE session.size # frame
      <4>1. (~session.client) = FALSE
        BY <2>1
      <4>2. SetContentSize(new, FALSE, TRUE)
        <5>1. SetContentSize(new, ~session.client, TRUE)
          BY <1>1, <3>2
        <5> HIDE DEF new
        <5>2. \A b : b = FALSE /\ SetContentSize(new, b, TRUE) => SetContentSize(new, FALSE, TRUE)
          OBVIOUS
        <5> HIDE DEF session
        <5> QED BY <4>1, <5>1, <5>2
      <4>3. history \in [touched: BOOLEAN, swallowed: BOOLEAN]
        BY <1>2 DEF TypeInv
      <4> QED BY <1>1, <4>2, <4>3 DEF SetContentSize
    <3> QED BY <3>1, <3>2
  <2>4. TurnsAlone'
    BY <2>2 DEF TurnsAlone
  <2>5. ASSUME ~history.swallowed PROVE TrackedFirst' /\ AskedForWindow'
    <3>1. event = None \/ ~event.tracked
      BY <1>2, <1>5, <2>5 DEF TrackedFirst
    <3>2. ~full /\ event = None => Asked = Oriented(size, orientation)
      BY <1>2, <1>5, <1>7, <2>5 DEF AskedForWindow, Unasked
    <3> QED BY <2>3, <3>1, <3>2 DEF TrackedFirst, AskedForWindow, Asked
  <2> QED BY <2>3, <2>4, <2>5
<1> QED BY <1>6, <1>7

(* A step keeps the display on its way to the size of the window. *)
LEMMA FollowStep ==
  ASSUME GInv, FInv, [Next]_vars, flex', ~crossed'
  PROVE  TurnsAlone' /\ (~history'.swallowed => TrackedFirst' /\ AskedForWindow')
<1> DEFINE Goal == TurnsAlone' /\ (~history'.swallowed => TrackedFirst' /\ AskedForWindow')
<1>0. /\ UNCHANGED flex
      /\ SizesAgree /\ (~crossed => TurnsAlone /\ (~history.swallowed => TrackedFirst /\ AskedForWindow))
      /\ TypeInv /\ flex
  <2>1. UNCHANGED flex
    BY DEF Next, User, Main, Device, UserResizes, SetOrientation, ToggleFullscreen,
           ResizeToFit, PixelPerfect, NewFrame, OnResize, OnLeaveFullscreen,
           DeviceResizes, DeviceTurns, vars
  <2> QED BY <2>1 DEF FInv, GInv
<1>s. /\ size \in Sizes /\ content \in Sizes /\ frame \in Sizes /\ display \in Sizes
      /\ orientation \in 0..7 /\ sessions \in Seq(Session)
      /\ request \in Sizes \cup {None}
      /\ history \in [touched: BOOLEAN, swallowed: BOOLEAN] /\ full \in BOOLEAN
  BY <1>0 DEF TypeInv
(* Nothing changes but, perhaps, the size and the content, for which there is an
   event that no tracker was meant for. *)
<1>1. ASSUME ~crossed, UNCHANGED <<sessions, request, display, orientation>>,
             history'.swallowed = history.swallowed, ~Turning,
             \/ UNCHANGED <<size, event, content, full, tracker>>
             \/ event' # None /\ ~event'.tracked
      PROVE  Goal
  <2>1. TurnsAlone'
    BY <1>1 DEF TurnsAlone, Turning
  <2>2. CASE UNCHANGED <<size, event, content, full, tracker>>
    BY <1>0, <1>1, <2>1, <2>2, NothingKept DEF TrackedFirst, AskedForWindow, Asked, Turning, Unasked
  <2>3. CASE event' # None /\ ~event'.tracked
    BY <2>1, <2>3 DEF TrackedFirst, AskedForWindow
  <2> QED BY <1>1, <2>2, <2>3
<1>2. ASSUME ~crossed,
             UNCHANGED <<size, event, content, full, tracker, sessions, request, display,
                         orientation, frame>>,
             history'.swallowed = history.swallowed
      PROVE  Goal
  <2>1. TurnsAlone'
    BY <1>0, <1>2 DEF TurnsAlone, Turning
  <2> QED BY <1>0, <1>2, <2>1, NothingKept DEF TrackedFirst, AskedForWindow, Asked, Turning, Unasked
<1>3. CASE NewFrame
  BY <1>0, <1>3, NewFrameFollows
<1>4. ASSUME NEW o \in Transforms, SetOrientation(o)
      PROVE  Goal
  <2>1. /\ SetContentSize(Oriented(frame, o), TRUE, FALSE) /\ orientation' = o
        /\ UNCHANGED <<full, tracker, display, sessions>>
        /\ ~crossed /\ Quiet /\ o \in 0..7
    BY <1>4, GeometryAssumption DEF SetOrientation, Acts, device
  <2>2. event = None /\ request = None /\ sessions = <<>> /\ display = frame
    BY <1>0, <2>1 DEF Quiet, SizesAgree
  <2>3. ~Turning'
    BY <2>1, <2>2 DEF Turning
  <2>4. CASE full
    <3>1. event' = None /\ full'
      BY <1>0, <2>1, <2>2, <2>4 DEF SetContentSize
    <3> QED BY <2>3, <3>1 DEF TurnsAlone, TrackedFirst, AskedForWindow
  <2>5. CASE ~full
    <3> DEFINE new == Oriented(frame, o)
               m == OptimalSize(new, new, TRUE)
    <3>0. new \in Sizes /\ Oriented(new, o) = frame
      BY <1>s, <2>1, SizeParts, TurnedBack
    <3> HIDE DEF new
    <3>1. SetWindowSize(m, FALSE) /\ content' = new /\ request' = None
      BY <1>0, <2>1, <2>2, <2>5 DEF SetContentSize, ResizeForContent, new
    <3>2. new = Within(new) => m = new
      BY <2>1, <3>0, TurnedBack
    <3>3. NothingToResize' <=> new # Within(new) /\ (m = size' \/ m \notin Sizes)
      BY <3>1 DEF NothingToResize, Within, OptimalSize, Cropped, IsOptimal
    <3>4. TrackedFirst'
      <4>1. event' = None \/ event' = [size |-> m, tracked |-> FALSE]
        BY <2>2, <3>1 DEF SetWindowSize
      <4> HIDE DEF m
      <4>2. event' = None \/ event'.tracked = FALSE
        BY <4>1
      <4> QED BY <4>2 DEF TrackedFirst
    <3>5. AskedForWindow'
      <4>1. SUFFICES ASSUME event' = None
                     PROVE  display' = Oriented(size', orientation') \/ NothingToResize'
        BY <2>1, <2>2, <3>1 DEF AskedForWindow, Asked, Unasked
      <4>2. m = size' \/ m \notin Sizes
        BY <3>1 DEF SetWindowSize
      <4>3. CASE new # Within(new)
        BY <3>3, <4>2, <4>3
      <4>4. CASE new = Within(new)
        <5>1. size' = new
          BY <3>0, <3>2, <4>2, <4>4
        <5> QED BY <2>1, <2>2, <3>0, <5>1
      <4> QED BY <4>3, <4>4
    <3> QED BY <2>3, <3>4, <3>5 DEF TurnsAlone
  <2> QED BY <1>s, <2>4, <2>5
<1>5. ASSUME NEW s \in Windows, UserResizes(s)
      PROVE  Goal
  <2>1. /\ UNCHANGED <<sessions, request, display, orientation>>
        /\ event' = [size |-> s, tracked |-> FALSE]
        /\ history' = [history EXCEPT !.touched = TRUE]
        /\ ~crossed /\ ~Turning /\ s \in Sizes
    BY <1>5, GeometryAssumption DEF UserResizes, Acts, shown, device
  <2>2. event' # None /\ ~event'.tracked
    <3>1. event' \in [size : Sizes, tracked : BOOLEAN] /\ event'.tracked = FALSE
      BY <2>1
    <3> QED BY <3>1, GeometryAssumption
  <2>3. history'.swallowed = history.swallowed
    BY <1>s, <2>1
  <2> QED BY <1>1, <2>1, <2>2, <2>3
<1>6. CASE ToggleFullscreen
  <2>1. /\ UNCHANGED <<sessions, request, display, orientation, history>>
        /\ event' = [size |-> IF full THEN size ELSE Full, tracked |-> FALSE]
        /\ ~crossed /\ ~Turning
    BY <1>6 DEF ToggleFullscreen, Acts, shown, device
  <2>2. event' # None /\ ~event'.tracked
    <3>1. event' \in [size : Sizes, tracked : BOOLEAN] /\ event'.tracked = FALSE
      BY <1>s, <2>1, GeometryAssumption
    <3> QED BY <3>1, GeometryAssumption
  <2> QED BY <1>1, <2>1, <2>2
<1>7. CASE ResizeToFit \/ PixelPerfect
  <2>1. /\ UNCHANGED <<full, shown, tracker, request, device>> /\ ~full
        /\ ~crossed /\ ~Turning
        /\ \/ UNCHANGED <<size, event, history>>
           \/ \E s : SetWindowSize(s, FALSE)
    BY <1>0, <1>7 DEF ResizeToFit, PixelPerfect, Acts, TypeInv
  <2>2. /\ history'.swallowed = history.swallowed
        /\ UNCHANGED <<size, event>> \/ (event' # None /\ ~event'.tracked)
    <3>1. CASE UNCHANGED <<size, event, history>>
      BY <3>1
    <3>2. ASSUME NEW s, SetWindowSize(s, FALSE)
          PROVE  /\ history'.swallowed = history.swallowed
                 /\ UNCHANGED <<size, event>> \/ (event' # None /\ ~event'.tracked)
      <4>1. CASE s \notin Sizes
        BY <1>s, <3>2, <4>1 DEF SetWindowSize
      <4>2. CASE s \in Sizes /\ s = size
        BY <1>s, <3>2, <4>2 DEF SetWindowSize
      <4>3. CASE s \in Sizes /\ s # size
        <5>1. event' = [size |-> s, tracked |-> FALSE]
              /\ history' = [history EXCEPT !.touched = FALSE]
          BY <3>2, <4>3 DEF SetWindowSize
        <5>2. event' \in [size : Sizes, tracked : BOOLEAN] /\ event'.tracked = FALSE
          BY <4>3, <5>1
        <5>3. history'.swallowed = history.swallowed
          BY <1>s, <5>1
        <5> QED BY <5>2, <5>3, GeometryAssumption
      <4> QED BY <4>1, <4>2, <4>3
    <3> QED BY <2>1, <3>1, <3>2
  <2> QED BY <1>1, <2>1, <2>2 DEF shown, device
<1>8. CASE OnLeaveFullscreen
  <2>1. pending = None
    BY <1>0 DEF SizesAgree
  <2> QED BY <1>2, <1>8, <2>1 DEF OnLeaveFullscreen, device
<1>9. CASE OnResize
  <2>1. PICK obsolete \in BOOLEAN :
          IF Ignored(event.size) /\ ~obsolete
          THEN /\ tracker' = None /\ UNCHANGED request
               /\ history' = [history EXCEPT !.swallowed = @ \/ ~event.tracked]
          ELSE /\ tracker' = IF obsolete THEN None ELSE tracker
               /\ IF flex THEN Request(event.size, orientation) ELSE UNCHANGED request
               /\ UNCHANGED history
    BY <1>9 DEF OnResize
  <2>2. /\ event # None /\ event' = None /\ ~crossed
        /\ UNCHANGED <<orientation, content, size, full, display, sessions>>
    BY <1>9 DEF OnResize, device
  <2>3. ~Turning /\ ~Turning'
    BY <1>0, <2>2 DEF TurnsAlone, Turning
  <2>4. event.size = Window /\ event.tracked \in BOOLEAN
    BY <1>0, <2>2 DEF SizesAgree
  <2>5. ASSUME ~history'.swallowed, ~full
        PROVE  Asked' = Oriented(size, orientation)
    <3>1. event.size = size
      BY <2>4, <2>5 DEF Window
    <3>2. CASE Ignored(event.size) /\ ~obsolete
      <4>1. history'.swallowed = (history.swallowed \/ ~event.tracked) /\ UNCHANGED request
        BY <1>s, <2>1, <3>2
      <4>2. event.tracked /\ ~history.swallowed /\ tracker = event.size
        BY <1>s, <2>4, <2>5, <3>2, <4>1 DEF Ignored
      <4>3. request = None /\ display = Oriented(size, orientation)
        BY <1>0, <2>2, <4>2 DEF TrackedFirst
      <4> QED BY <2>2, <4>1, <4>3 DEF Asked
    <3>3. CASE ~(Ignored(event.size) /\ ~obsolete)
      <4>1. request' = Oriented(size, orientation)
        BY <1>0, <2>1, <3>1, <3>3 DEF Request
      <4>2. request' # None
        BY <1>s, <4>1, SizeParts, GeometryAssumption
      <4> QED BY <4>1, <4>2 DEF Asked
    <3> QED BY <3>2, <3>3
  <2> QED BY <2>2, <2>3, <2>5 DEF TurnsAlone, TrackedFirst, AskedForWindow
<1>10. ASSUME NEW s \in Frames, DeviceTurns(s)
       PROVE  Goal
  <2>1. /\ display' = s /\ sessions' = Append(sessions, [size |-> s, client |-> FALSE])
        /\ UNCHANGED <<frame, event, request, orientation>>
        /\ ~crossed /\ Quiet /\ s # display
    BY <1>10 DEF DeviceTurns, Acts, shown, window
  <2>2. event = None /\ request = None /\ sessions = <<>> /\ display = frame
    BY <1>0, <2>1 DEF Quiet, SizesAgree
  <2>3. sessions' = <<[size |-> s, client |-> FALSE]>>
    BY <2>1, <2>2
  <2>4. Turning'
    BY <2>3 DEF Turning
  <2> QED BY <2>1, <2>2, <2>3, <2>4 DEF TurnsAlone, TrackedFirst, AskedForWindow
<1>11. CASE DeviceResizes
  <2>1. /\ request # None /\ request' = None /\ display' = request
        /\ sessions' = IF request = display THEN sessions
                       ELSE Append(sessions, [size |-> request, client |-> TRUE])
        /\ UNCHANGED <<flex, fit, shown, window, tracker, crossed, history>>
    BY <1>11 DEF DeviceResizes
  <2>2. ~crossed /\ ~Turning
    BY <1>0, <2>1 DEF TurnsAlone
  <2>3. ~Turning'
    <3>1. CASE request = display
      BY <2>1, <2>2, <3>1 DEF Turning
    <3>2. CASE request # display
      <4>1. /\ Len(sessions) \in Nat /\ DOMAIN sessions = 1..Len(sessions)
            /\ DOMAIN sessions' = 1..Len(sessions) + 1
            /\ \A i \in 1..Len(sessions) : sessions'[i] = sessions[i]
            /\ sessions'[Len(sessions) + 1] = [size |-> request, client |-> TRUE]
        BY <1>s, <2>1, <3>2
      <4>2. \A i \in 1..Len(sessions) : sessions[i].client
        BY <2>2, <4>1 DEF Turning
      <4> HIDE DEF Turning
      <4>3. \A i \in DOMAIN sessions' : sessions'[i].client
        BY <4>1, <4>2
      <4> QED BY <4>3 DEF Turning
    <3> QED BY <3>1, <3>2
  <2>4. Asked' = Asked
    BY <2>1 DEF Asked
  <2>5. ASSUME ~history.swallowed PROVE TrackedFirst' /\ AskedForWindow'
    <3>1. event = None \/ ~event.tracked
      BY <1>0, <2>1, <2>2, <2>5 DEF TrackedFirst
    <3>2. ~full /\ event = None => Asked = Oriented(size, orientation)
      BY <1>0, <2>1, <2>2, <2>5 DEF AskedForWindow, Unasked
    <3> QED BY <2>1, <2>4, <3>1, <3>2 DEF TrackedFirst, AskedForWindow, shown, window
  <2> QED BY <2>1, <2>3, <2>5 DEF TurnsAlone
<1>12. CASE UNCHANGED vars
  BY <1>2, <1>12 DEF vars, shown, window, device
<1> QED BY <1>3, <1>4, <1>5, <1>6, <1>7, <1>8, <1>9, <1>10, <1>11, <1>12
        DEF Next, User, Main, Device

(* At first the display is what the window shows. *)
LEMMA InitFInv == Init => FInv
<1> SUFFICES ASSUME Init PROVE FInv
  OBVIOUS
<1>1. /\ display = frame /\ sessions = <<>> /\ pending = None /\ request = None /\ ~full
      /\ event = [size |-> size, tracked |-> TRUE]
      /\ content = Oriented(frame, orientation)
      /\ tracker = IF flex /\ size = content THEN size ELSE None
      /\ frame \in Sizes /\ orientation \in 0..7 /\ size \in Sizes
  BY GeometryAssumption DEF Init
<1>2. event # None
  <2>1. event \in [size : Sizes, tracked : BOOLEAN]
    BY <1>1
  <2> QED BY <2>1, GeometryAssumption
<1>3. SizesAgree
  BY <1>1 DEF SizesAgree, Window
<1>4. ~Turning
  BY <1>1 DEF Turning
<1>5. TrackedFirst
  <2>1. tracker = size => size = content
    BY <1>1, GeometryAssumption
  <2>2. Oriented(content, orientation) = frame
    BY <1>1, TurnedBack
  <2> QED BY <1>1, <2>1, <2>2 DEF TrackedFirst
<1> QED BY <1>2, <1>3, <1>4, <1>5 DEF FInv, TurnsAlone, AskedForWindow

(* With --flex-display the device's display ends up with the size of the window,
   whatever the sizes are and however the frames, the events and the requests
   interleave: unless the display turned or the user acted while another change was
   under way, the tracker took a resize for another one, or the content is larger
   than the screen and the window it is given is the one it has, or none (screen.c:328,
   826, 1107). *)
THEOREM DisplayFollows == Spec => []DisplayFollowsWindow
<1>1. GInv /\ FInv /\ [Next]_vars => FInv'
  BY AgreeStep, FollowStep DEF FInv
<1>2. Spec => []FInv
  BY <1>1, InitFInv, GeometryInvariant, PTL DEF Spec
<1>3. FInv => DisplayFollowsWindow
  <2> SUFFICES ASSUME FInv, flex, Quiet, ~full, ~crossed, ~history.swallowed
               PROVE  display = Oriented(size, orientation) \/ NothingToResize
    BY DEF DisplayFollowsWindow
  <2>1. event = None /\ request = None /\ ~Turning
    BY DEF Quiet, Turning
  <2> QED BY <2>1 DEF FInv, AskedForWindow, Asked, Unasked
<1> QED BY <1>2, <1>3, PTL
=============================================================================
