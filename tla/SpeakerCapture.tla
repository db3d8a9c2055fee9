--------------------------- MODULE SpeakerCapture ---------------------------
(***************************************************************************)
(* One speaker session: runSpeakerCapture (web/controller.go) and the      *)
(* CapturePipeline it reads from (audio/pipeline.go).                      *)
(*                                                                         *)
(* The capture loop reads a frame from ffmpeg, encodes it and puts it in a *)
(* bounded queue, of which it drops the oldest frame when the queue is     *)
(* full; a second goroutine takes frames from the queue and writes them to *)
(* the phone; two more wait for the context and for a failed write and     *)
(* close the pipeline.  Frames are known by their number, frameCount.  The *)
(* connection may stall (a write that does not end) or fail.               *)
(***************************************************************************)
EXTENDS Naturals, Sequences

CONSTANTS
  QueueFrames,   \* capacity of queue (5 in the code)
  MaxFrames      \* bound: frames captured

ASSUME SpeakerAssumption == QueueFrames \in Nat \ {0} /\ MaxFrames \in Nat

VARIABLES
  loop,         \* where runSpeakerCapture is, see Loops
  frameCount,   \* frames encoded
  queue,        \* the channel between the loop and the send goroutine
  open,         \* the channel has not been closed
  sender,       \* the send goroutine, see Senders
  inHand,       \* the last frame it has taken to write
  ctxWatch,     \* the goroutine that waits for the context
  fatalWatch,   \* the goroutine that waits for sendFatal
  fatal,        \* sendFatal is closed
  pipe,         \* ffmpeg: see Pipes
  ctxDone,      \* the worker's context is done
  conn          \* the speaker connection: "up" or "closed"

loopVars   == <<loop, frameCount>>
watchVars  == <<ctxWatch, fatalWatch>>
captureVars == <<loopVars, queue, open, sender, inHand, watchVars, fatal,
                 pipe, ctxDone, conn>>

(* "encoded": a frame is to be queued; "full": the queue had no room;      *)
(* "room": the oldest frame has been dropped; "retry": the queue was empty *)
(* after all.  Then the epilogue: "close", "join", "defer", "reap".        *)
Queueing == {"encoded", "full", "room", "retry"}
Loops    == Queueing \cup {"head", "read", "close", "join", "defer", "reap", "done"}
Senders  == {"none", "take", "write", "drain", "over"}
Watches  == {"none", "waiting", "over"}
(* "gone": ffmpeg has exited by itself; "closing": Close has closed stdout *)
(* and killed it; "closed": it has been reaped.                            *)
Pipes    == {"open", "gone", "closing", "closed"}

CaptureInit ==
  /\ loop = "head"
  /\ frameCount = 0
  /\ queue = <<>>
  /\ open = TRUE
  /\ sender = "none"
  /\ inHand = 0
  /\ ctxWatch = "none" /\ fatalWatch = "none"
  /\ fatal = FALSE
  /\ pipe = "open"
  /\ ctxDone = FALSE
  /\ conn = "up"

(* CapturePipeline.Close, whose closeOnce lets only the first call act. *)
ClosePipe == pipe' = IF pipe \in {"open", "gone"} THEN "closing" ELSE pipe

-----------------------------------------------------------------------------
(* The capture loop.                                                       *)

(* The encoder, OpusHead and OpusTags; the goroutines start after them. *)
SendHead(ok) ==
  /\ loop = "head"
  /\ conn = "closed" => ~ok
  /\ loop' = IF ok THEN "read" ELSE "defer"
  /\ sender' = IF ok THEN "take" ELSE sender
  /\ ctxWatch' = IF ok THEN "waiting" ELSE ctxWatch
  /\ fatalWatch' = IF ok THEN "waiting" ELSE fatalWatch
  /\ UNCHANGED <<frameCount, queue, open, inHand, fatal, pipe, ctxDone, conn>>

(* io.ReadFull and Encode; what ffmpeg had written can still be read when  *)
(* it has gone.                                                            *)
ReadFrame ==
  /\ loop = "read" /\ pipe \in {"open", "gone"}
  /\ frameCount < MaxFrames
  /\ frameCount' = frameCount + 1
  /\ loop' = "encoded"
  /\ UNCHANGED <<queue, open, sender, inHand, watchVars, fatal, pipe,
                 ctxDone, conn>>

(* The read fails when the pipeline has ended; Encode may fail too. *)
Breaks(encode) ==
  /\ loop = "read"
  /\ encode \/ pipe # "open"
  /\ loop' = "close"
  /\ UNCHANGED <<frameCount, queue, open, sender, inHand, watchVars, fatal,
                 pipe, ctxDone, conn>>

DropNewest ==   \* mutant: a full queue loses the frame that has just come
  /\ loop = "encoded"
  /\ loop' = "read"
  /\ queue' = IF Len(queue) < QueueFrames THEN Append(queue, frameCount) ELSE queue
  /\ UNCHANGED <<frameCount, open, sender, inHand, watchVars, fatal, pipe,
                 ctxDone, conn>>

Put ==
  /\ loop = "encoded"
  /\ IF Len(queue) < QueueFrames
     THEN queue' = Append(queue, frameCount) /\ loop' = "read"
     ELSE loop' = "full" /\ UNCHANGED queue
  /\ UNCHANGED <<frameCount, open, sender, inHand, watchVars, fatal, pipe,
                 ctxDone, conn>>

DropOldest ==
  /\ loop = "full"
  /\ IF queue = <<>> THEN loop' = "retry" /\ UNCHANGED queue
                     ELSE loop' = "room" /\ queue' = Tail(queue)
  /\ UNCHANGED <<frameCount, open, sender, inHand, watchVars, fatal, pipe,
                 ctxDone, conn>>

(* A send that waits for room ("room"), or that gives the frame up. *)
PutAgain ==
  /\ loop \in {"room", "retry"}
  /\ loop = "room" => Len(queue) < QueueFrames
  /\ queue' = IF Len(queue) < QueueFrames THEN Append(queue, frameCount) ELSE queue
  /\ loop' = "read"
  /\ UNCHANGED <<frameCount, open, sender, inHand, watchVars, fatal, pipe,
                 ctxDone, conn>>

CloseQueue ==
  /\ loop = "close"
  /\ open' = FALSE
  /\ loop' = "join"
  /\ UNCHANGED <<frameCount, queue, sender, inHand, watchVars, fatal, pipe,
                 ctxDone, conn>>

Join ==
  /\ loop = "join" /\ sender = "over"
  /\ loop' = "defer"
  /\ UNCHANGED <<frameCount, queue, open, sender, inHand, watchVars, fatal,
                 pipe, ctxDone, conn>>

(* The deferred enc.Close and pipeline.Close ... *)
Defers ==
  /\ loop = "defer"
  /\ ClosePipe
  /\ loop' = "reap"
  /\ UNCHANGED <<frameCount, queue, open, sender, inHand, watchVars, fatal,
                 ctxDone, conn>>

(* ... which waits for the process; the worker then cancels its context. *)
Returns ==
  /\ loop = "reap" /\ pipe = "closed"
  /\ loop' = "done"
  /\ ctxDone' = TRUE
  /\ UNCHANGED <<frameCount, queue, open, sender, inHand, watchVars, fatal,
                 pipe, conn>>

LoopStep == \/ \E ok \in BOOLEAN : SendHead(ok)
            \/ ReadFrame \/ \E encode \in BOOLEAN : Breaks(encode)
            \/ Put \/ DropOldest \/ PutAgain
            \/ CloseQueue \/ Join \/ Defers \/ Returns

-----------------------------------------------------------------------------
(* The send goroutine and the two that close the pipeline.                 *)

Take ==
  /\ sender = "take" /\ queue # <<>>
  /\ inHand' = Head(queue)
  /\ queue' = Tail(queue)
  /\ sender' = "write"
  /\ UNCHANGED <<loopVars, open, watchVars, fatal, pipe, ctxDone, conn>>

Written ==
  /\ sender = "write" /\ conn = "up"
  /\ sender' = "take"
  /\ UNCHANGED <<loopVars, queue, open, inHand, watchVars, fatal, pipe, ctxDone, conn>>

(* The write fails: after part of the frame, or because it was closed. *)
WriteFails ==
  /\ sender = "write"
  /\ fatal' = TRUE
  /\ sender' = "drain"
  /\ UNCHANGED <<loopVars, queue, open, inHand, watchVars, pipe, ctxDone, conn>>

Drain ==
  /\ sender = "drain" /\ queue # <<>>
  /\ queue' = Tail(queue)
  /\ UNCHANGED <<loopVars, open, sender, inHand, watchVars, fatal, pipe,
                 ctxDone, conn>>

SenderEnds ==
  /\ sender \in {"take", "drain"} /\ queue = <<>> /\ ~open
  /\ sender' = "over"
  /\ UNCHANGED <<loopVars, queue, open, inHand, watchVars, fatal, pipe,
                 ctxDone, conn>>

SenderStep == Take \/ WriteFails \/ Drain \/ SenderEnds

ContextDone ==
  /\ ctxWatch = "waiting" /\ ctxDone
  /\ ctxWatch' = "over"
  /\ ClosePipe
  /\ UNCHANGED <<loopVars, queue, open, sender, inHand, fatalWatch, fatal,
                 ctxDone, conn>>

FatalLogged ==   \* mutant: the failed write is logged, the capture goes on
  /\ fatalWatch = "waiting" /\ fatal
  /\ fatalWatch' = "over"
  /\ UNCHANGED <<loopVars, queue, open, sender, inHand, ctxWatch, fatal,
                 pipe, ctxDone, conn>>

FatalSeen ==
  /\ fatalWatch = "waiting" /\ fatal
  /\ fatalWatch' = "over"
  /\ ClosePipe
  /\ UNCHANGED <<loopVars, queue, open, sender, inHand, ctxWatch, fatal,
                 ctxDone, conn>>

-----------------------------------------------------------------------------
(* ffmpeg, the phone and the controller.                                   *)

FFmpegExits ==
  /\ pipe = "open"
  /\ pipe' = "gone"
  /\ UNCHANGED <<loopVars, queue, open, sender, inHand, watchVars, fatal,
                 ctxDone, conn>>

Reaped ==
  /\ pipe = "closing"
  /\ pipe' = "closed"
  /\ UNCHANGED <<loopVars, queue, open, sender, inHand, watchVars, fatal,
                 ctxDone, conn>>

(* stopStream and Disconnect: cancel the context, then close the socket. *)
Cancel ==
  /\ ~ctxDone
  /\ ctxDone' = TRUE
  /\ UNCHANGED <<loopVars, queue, open, sender, inHand, watchVars, fatal,
                 pipe, conn>>

CloseStream ==
  /\ ctxDone /\ conn = "up"
  /\ conn' = "closed"
  /\ UNCHANGED <<loopVars, queue, open, sender, inHand, watchVars, fatal,
                 pipe, ctxDone>>

(* The session is over; the goroutine that waits for sendFatal stays       *)
(* behind when no write has failed.                                        *)
Over == /\ loop = "done" /\ ctxWatch # "waiting" /\ conn = "closed"
        /\ UNCHANGED captureVars

CaptureNext ==
  \/ LoopStep
  \/ SenderStep \/ Written
  \/ ContextDone \/ FatalSeen
  \/ FFmpegExits \/ Reaped \/ Cancel \/ CloseStream
  \/ Over

CaptureSpec == CaptureInit /\ [][CaptureNext]_captureVars

(* The goroutines run, a killed process is reaped, a stopped session has   *)
(* its socket closed and a write to a closed socket fails.  A write to an  *)
(* open one may take for ever, and so may a read from a running ffmpeg.    *)
CaptureFairSpec ==
  /\ CaptureSpec
  /\ WF_captureVars(LoopStep /\ (loop = "head" => conn = "closed")
                       /\ (loop = "read" => pipe # "open"))
  /\ WF_captureVars(SenderStep /\ (sender = "write" => conn = "closed"))
  /\ WF_captureVars(ContextDone) /\ WF_captureVars(FatalSeen)
  /\ WF_captureVars(Reaped) /\ WF_captureVars(CloseStream)
-----------------------------------------------------------------------------
(* Properties.                                                             *)

CaptureTypeOK ==
  /\ loop \in Loops
  /\ frameCount \in 0 .. MaxFrames
  /\ queue \in Seq(1 .. MaxFrames)
  /\ Len(queue) <= QueueFrames
  /\ open \in BOOLEAN
  /\ sender \in Senders
  /\ inHand \in 0 .. MaxFrames
  /\ ctxWatch \in Watches /\ fatalWatch \in Watches
  /\ fatal \in BOOLEAN
  /\ pipe \in Pipes
  /\ ctxDone \in BOOLEAN
  /\ conn \in {"up", "closed"}

(* The last frame that has been put in the queue. *)
LastPut == IF loop \in Queueing THEN frameCount - 1 ELSE frameCount

(* The queue holds the newest frames without a gap: what is dropped is     *)
(* always the oldest (controller.go:977), whatever the sender takes        *)
(* between the two looks the capture loop has at the queue.                *)
QueueIsNewest ==
  /\ \A i \in 1 .. Len(queue) : queue[i] = LastPut - Len(queue) + i
  /\ queue # <<>> => inHand < queue[1]

(* "The capture loop never blocks on send" (controller.go:874): when it    *)
(* sends again after a drop there is room, so it neither waits nor gives   *)
(* up the newest frame.                                                    *)
NeverBlocksOnSend == loop \in {"room", "retry"} => Len(queue) < QueueFrames

(* "Stop the send goroutine and wait for it to finish so deferred Close()  *)
(* calls don't race with in-flight writes" (controller.go:1075), on every  *)
(* path on which the function returns.                                     *)
ReturnsAlone == loop \in {"defer", "reap", "done"} => sender \in {"none", "over"}

(* The frames the phone is given are in order, and at most QueueFrames     *)
(* behind the newest when their write begins: the audio does not lag       *)
(* further behind with every stall.                                        *)
Feed == INSTANCE RecentFeed WITH Window <- QueueFrames, newest <- frameCount,
                                 given <- inHand
FeedSpec == Feed!Spec

(* A stopped session ends, even when the phone does not read, and so does  *)
(* one whose connection has failed, even when nobody stops it.             *)
SessionReturns == (ctxDone \/ fatal) ~> loop = "done"
=============================================================================
