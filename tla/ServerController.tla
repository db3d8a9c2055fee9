--------------------------- MODULE ServerController ---------------------------
(***************************************************************************)
(* Connection and stream lifecycle of the desktop server: the              *)
(* ServerController (internal/web/controller.go) over the per-phone        *)
(* transport.Connection (internal/transport/connection.go), composed with  *)
(* the Hub's screen lifecycle (ScreenHub).                                 *)
(*                                                                         *)
(* Every HTTP request is a call: a goroutine that runs Connect,            *)
(* Disconnect or ToggleStream.  The body of each is cut where it releases  *)
(* sc.mu; what it does under the mutex is one step.  A call that starts a  *)
(* stream owns one cancellation context, dials at most one socket and      *)
(* launches at most one worker, and Connect also creates the Connection,   *)
(* so all of them are named by the call that made them.  The triple        *)
(* (connection, screen generation, hub generation) that guards the control *)
(* reconnect is unique to the call that launched the screen worker and is  *)
(* that call's name here.                                                  *)
(*                                                                         *)
(* EndScreenSession is one step here: whoever could see its two critical   *)
(* sections apart (control input, frames) is in ScreenHub, not here.       *)
(* Metrics and cleanup functions (none is ever registered) are left out.   *)
(***************************************************************************)
EXTENDS ScreenHub

CONSTANTS
  MaxCalls,             \* bound: API calls made
  Toggles               \* streams that calls toggle

Streams == {"screen", "camera", "mic", "speaker"}
Slots   == Streams \cup {"control"}
Calls   == 1 .. MaxCalls
None    == 0

ASSUME ControllerAssumption ==
  /\ MaxCalls \in Nat
  /\ Toggles \subseteq Streams
  /\ Routes = Calls /\ NoRoute = None  \* a route is named by its session's call
  /\ Viewers = {}                      \* control input is checked in ScreenHub

VARIABLES
  connected,      \* sc.connected
  conn,           \* sc.conn
  connectGen,     \* sc.connectGen
  connectCancel,  \* sc.connectCancel, named by the Connect that stored it
  stream,         \* sc.streams
  screenHubGen,   \* hubGen of the screen stream
  controlOwner,   \* sc.controlConnection and its two generations
  phoneShown,     \* WebServer.currentConn.Connected
  ctxDone,        \* contexts that have been cancelled
  closed,         \* Connections that have been closed
  slot,           \* the sockets a Connection holds
  sock,           \* the stream socket each call dialed
  csock,          \* the control socket each screen session dialed
  call,           \* API calls
  worker,         \* stream workers
  recon,          \* reconnectScreenControl goroutines
  superseded,     \* history: calls in flight when a later call took over
  overwritten     \* history: Connections that a Connect has replaced unclosed

ctlVars  == <<connected, conn, connectGen, connectCancel, stream,
              screenHubGen, controlOwner>>
netVars  == <<ctxDone, closed, slot, sock, csock>>
procVars == <<call, worker, recon, superseded, overwritten>>
vars     == <<ctlVars, netVars, procVars, phoneShown, hubVars>>

Stopped == [active |-> FALSE, running |-> FALSE, gen |-> 0,
            cancel |-> None, done |-> None]

NoCall == [op |-> "none", str |-> "speaker", pc |-> "idle", gen |-> 0,
           conn |-> None, wait |-> {}]

NoWorker == [phase |-> "none", str |-> "speaker", gen |-> 0, conn |-> None,
             sock |-> None, hubGen |-> 0]

Init ==
  /\ connected = FALSE
  /\ conn = None
  /\ connectGen = 0
  /\ connectCancel = None
  /\ stream = [s \in Streams |-> Stopped]
  /\ screenHubGen = 0
  /\ controlOwner = None
  /\ phoneShown = FALSE
  /\ ctxDone = {}
  /\ closed = {}
  /\ slot = [c \in Calls |-> [s \in Slots |-> None]]
  /\ sock = [c \in Calls |-> "none"]
  /\ csock = [c \in Calls |-> "none"]
  /\ call = [c \in Calls |-> NoCall]
  /\ worker = [c \in Calls |-> NoWorker]
  /\ recon = [c \in Calls |-> "none"]
  /\ superseded = {}
  /\ overwritten = {}
  /\ HubInit

-----------------------------------------------------------------------------
(* Helpers.                                                                *)

Pc(c) == call[c].pc

Goto(c, pc) == call' = [call EXCEPT ![c].pc = pc]

InFlight(c) == Pc(c) \notin {"idle", "returned"}

(* Calls are numbered in the order in which they first take sc.mu. *)
Fresh(c) == Pc(c) = "idle" /\ \A d \in 1 .. c - 1 : Pc(d) # "idle"

Cancelled(c) == c \in ctxDone

Cancel(S) == ctxDone' = ctxDone \cup (S \ {None})

Exited(c) == worker[c].phase = "exited"

(* The workers this call waits for have closed their done channels. *)
Joined(c) == \A w \in call[c].wait : Exited(w)

Dones(S) == {stream[s].done : s \in S} \ {None}

(* The socket in a slot, and the tables after closing some of them. *)
SocketsOf(c, S) == {slot[c][s] : s \in S} \ {None}

CloseSockets(C, D) ==
  /\ sock' = [k \in Calls |-> IF k \in C THEN "closed" ELSE sock[k]]
  /\ csock' = [k \in Calls |-> IF k \in D THEN "closed" ELSE csock[k]]

LeaveDialed(c) == UNCHANGED sock   \* mutant: forgets the dialed socket

(* The socket this call dialed, if any, is not going to be used. *)
CloseDialed(c) == sock' = [sock EXCEPT ![c] = IF @ = "open" THEN "closed" ELSE @]

(* Connection.CloseStream *)
CloseStream(c, s) ==
  /\ slot' = [slot EXCEPT ![c][s] = None]
  /\ IF s = "control" THEN CloseSockets({}, SocketsOf(c, {s}))
                      ELSE CloseSockets(SocketsOf(c, {s}), {})

(* Calls in flight on the given streams are overtaken by call c. *)
Overtake(c, S) ==
  superseded' = superseded \cup
    {d \in Calls \ {c} : InFlight(d) /\ call[d].op = "on" /\ call[d].str \in S}

HubUnchanged == UNCHANGED hubVars

(* EndScreenSession from start to end. *)
EndScreenSession(g, ok) ==
  IF IsCurrent(g)
  THEN /\ DetachSession
       /\ RestoreDisplay(controlRoute, ok)
       /\ routes' = Closed(controlRoute)
       /\ UNCHANGED ending
  ELSE HubUnchanged

(* A control write can succeed only while the host's socket is open. *)
WriteOutcomes == IF controlRoute # None /\ csock[controlRoute] = "open"
                 THEN BOOLEAN ELSE {FALSE}

-----------------------------------------------------------------------------
(* Connect and Disconnect.                                                 *)

Connecting(c) == call[c].op = "connect" /\ InFlight(c)

(* Under sc.mu: take a new connect generation and its cancellation. *)
BeginDial(c) ==
  /\ connectGen' = connectGen + 1
  /\ connectCancel' = c
  /\ call' = [call EXCEPT ![c] =
               [@ EXCEPT !.op = "connect", !.pc = "dial", !.gen = connectGen + 1,
                         !.conn = c]]

ConnectEnter(c) ==
  /\ Fresh(c)
  /\ Cancel({connectCancel})
  /\ IF connected
     THEN /\ connectCancel' = None
          /\ call' = [call EXCEPT ![c] =
                       [@ EXCEPT !.op = "connect", !.pc = "disconnect"]]
          /\ UNCHANGED connectGen
     ELSE BeginDial(c)
  /\ UNCHANGED <<connected, conn, stream, screenHubGen, controlOwner, closed,
                 slot, sock, csock, worker, recon, superseded, overwritten,
                 phoneShown, hubVars>>

(* Back from the inner Disconnect; whether a connection or another pending *)
(* dial has appeared meanwhile is not looked at.                           *)
ConnectAgain(c) ==
  /\ Pc(c) = "reconnect"
  /\ BeginDial(c)
  /\ UNCHANGED <<connected, conn, stream, screenHubGen, controlOwner, netVars,
                 worker, recon, superseded, overwritten, phoneShown, hubVars>>

(* connectPortContext: the handshake is read, unless the context is done.  *)
DialSucceeds(c) ==
  /\ Pc(c) = "dial"
  /\ ~Cancelled(c)
  /\ sock' = [sock EXCEPT ![c] = "open"]
  /\ Goto(c, "dialed")
  /\ UNCHANGED <<ctlVars, ctxDone, closed, slot, csock, worker, recon,
                 superseded, overwritten, phoneShown, hubVars>>

(* The dial fails: the port is not ready, or the context was cancelled. *)
ConnectFails(c) ==
  /\ Pc(c) = "dial" /\ call[c].op = "connect"
  /\ connectCancel' = IF connectGen = call[c].gen THEN None ELSE connectCancel
  /\ Goto(c, "returned")
  /\ UNCHANGED <<connected, conn, connectGen, stream, screenHubGen,
                 controlOwner, netVars, worker, recon, superseded, overwritten,
                 phoneShown, hubVars>>

(* The session check of Connect, then launchSpeakerWorkerLocked. *)
ConnectInstall(c) ==
  /\ Pc(c) = "dialed" /\ call[c].op = "connect"
  /\ IF connectGen # call[c].gen \/ Cancelled(c)
     THEN /\ CloseDialed(c)
          /\ closed' = closed \cup {c}
          /\ Goto(c, "returned")
          /\ UNCHANGED <<ctlVars, slot, worker, overwritten>>
     ELSE /\ connectCancel' = None
          /\ overwritten' = overwritten \cup ({conn} \ {None})
          /\ conn' = c
          /\ connected' = TRUE
          /\ slot' = [slot EXCEPT ![c]["speaker"] = c]
          /\ stream' = [stream EXCEPT !["speaker"] =
                          [active |-> TRUE, running |-> TRUE, gen |-> @.gen + 1,
                           cancel |-> c, done |-> c]]
          /\ worker' = [worker EXCEPT ![c] =
                          [phase |-> "run", str |-> "speaker",
                           gen |-> stream["speaker"].gen + 1, conn |-> c,
                           sock |-> c, hubGen |-> 0]]
          /\ Goto(c, "announce")
          /\ UNCHANGED <<connectGen, screenHubGen, controlOwner, sock, closed>>
  /\ UNCHANGED <<ctxDone, csock, recon, superseded, phoneShown, hubVars>>

(* SetConnectionStatus(true), outside sc.mu. *)
ConnectAnnounce(c) ==
  /\ Pc(c) = "announce"
  /\ phoneShown' = TRUE
  /\ Goto(c, "returned")
  /\ UNCHANGED <<ctlVars, netVars, worker, recon, superseded, overwritten,
                 hubVars>>

AfterDisconnect(c) == IF call[c].op = "connect" THEN "reconnect" ELSE "returned"

(* The critical section of Disconnect, called by the API or by Connect. *)
DisconnectEnter(c) ==
  LET op   == IF Pc(c) = "idle" THEN "disconnect" ELSE call[c].op
      next == IF op = "connect" THEN "reconnect" ELSE "returned"
  IN
  /\ Fresh(c) \/ Pc(c) = "disconnect"
  /\ connectCancel' = None
  /\ connectGen' = IF connectCancel # None THEN connectGen + 1 ELSE connectGen
  /\ IF ~connected
     THEN /\ Cancel({connectCancel})
          /\ call' = [call EXCEPT ![c] = [@ EXCEPT !.op = op, !.pc = next]]
          /\ UNCHANGED <<connected, conn, stream, screenHubGen, controlOwner,
                         superseded, hubVars>>
     ELSE /\ \E ok \in WriteOutcomes : EndScreenSession(screenHubGen, ok)
          /\ Cancel({connectCancel} \cup {stream[s].cancel : s \in Streams})
          /\ call' = [call EXCEPT ![c] =
                       [@ EXCEPT !.op = op, !.pc = "unpublish", !.conn = conn,
                                 !.wait = Dones(Streams)]]
          /\ stream' = [s \in Streams |->
                          [Stopped EXCEPT !.gen = stream[s].gen + 1]]
          /\ screenHubGen' = 0
          /\ controlOwner' = None
          /\ conn' = None
          /\ connected' = FALSE
          /\ Overtake(c, Streams)
  /\ UNCHANGED <<closed, slot, sock, csock, worker, recon, overwritten,
                 phoneShown>>

(* SetConnectionStatus(false), outside sc.mu. *)
DisconnectUnpublish(c) ==
  /\ Pc(c) = "unpublish"
  /\ phoneShown' = FALSE
  /\ Goto(c, "close")
  /\ UNCHANGED <<ctlVars, netVars, worker, recon, superseded, overwritten,
                 hubVars>>

(* Connection.Close *)
DisconnectClose(c) ==
  LET k == call[c].conn IN
  /\ Pc(c) = "close"
  /\ closed' = closed \cup {k}
  /\ slot' = [slot EXCEPT ![k] = [s \in Slots |-> None]]
  /\ CloseSockets(SocketsOf(k, Streams), SocketsOf(k, {"control"}))
  /\ Goto(c, "join")
  /\ UNCHANGED <<ctlVars, ctxDone, worker, recon, superseded, overwritten,
                 phoneShown, hubVars>>

DisconnectJoin(c) ==
  /\ Pc(c) = "join"
  /\ Joined(c)
  /\ Goto(c, AfterDisconnect(c))
  /\ UNCHANGED <<ctlVars, netVars, worker, recon, superseded, overwritten,
                 phoneShown, hubVars>>

-----------------------------------------------------------------------------
(* ToggleStream(s, true): startStream.                                     *)

(* Under sc.mu with no worker left: own a fresh generation and context.    *)
(* stm is the stream table after what the caller did first.                *)
BeginStart(c, s, stm) ==
  LET redial == s = "screen" \/ slot[conn][s] = None IN
  /\ stream' = [stm EXCEPT ![s] =
                 [@ EXCEPT !.gen = stm[s].gen + 1, !.cancel = c]]
  /\ Cancel({stm[s].cancel})
  /\ IF s = "screen" THEN CloseStream(conn, s)
                     ELSE UNCHANGED <<slot, sock, csock>>
  /\ call' = [call EXCEPT ![c] =
               [@ EXCEPT !.op = "on", !.str = s, !.conn = conn,
                         !.gen = stm[s].gen + 1,
                         !.pc = IF redial THEN "dial" ELSE "dialed"]]

StartEnter(c, s) ==
  /\ Fresh(c)
  /\ IF ~connected \/ (stream[s].running /\ stream[s].active)
     THEN /\ call' = [call EXCEPT ![c] =
                       [@ EXCEPT !.op = "on", !.pc = "returned"]]
          /\ UNCHANGED <<stream, ctxDone, slot, sock, csock, superseded>>
     ELSE /\ Overtake(c, {s})
          /\ IF stream[s].running \/ stream[s].done # None
             THEN /\ stream' = [stream EXCEPT ![s] =
                                 [@ EXCEPT !.cancel = None,
                                           !.gen = stream[s].gen + 1]]
                  /\ Cancel({stream[s].cancel})
                  /\ CloseStream(conn, s)
                  /\ call' = [call EXCEPT ![c] =
                               [@ EXCEPT !.op = "on", !.str = s,
                                         !.pc = "restart", !.conn = conn,
                                         !.gen = stream[s].gen + 1,
                                         !.wait = Dones({s})]]
             ELSE BeginStart(c, s, stream)
  /\ UNCHANGED <<connected, conn, connectGen, connectCancel, screenHubGen,
                 controlOwner, closed, worker, recon, overwritten, phoneShown,
                 hubVars>>

(* The previous worker has exited; is the session still ours? *)
StartJoin(c) ==
  LET s == call[c].str IN
  /\ Pc(c) = "restart"
  /\ Joined(c)
  /\ IF ~connected \/ conn # call[c].conn \/ stream[s].gen # call[c].gen
     THEN /\ Goto(c, "returned")
          /\ UNCHANGED <<stream, ctxDone, slot, sock, csock>>
     ELSE BeginStart(c, s, [stream EXCEPT ![s] =
                             [@ EXCEPT !.done = None, !.running = FALSE]])
  /\ UNCHANGED <<connected, conn, connectGen, connectCancel, screenHubGen,
                 controlOwner, closed, worker, recon, superseded, overwritten,
                 phoneShown, hubVars>>

StartFails(c) ==
  LET s == call[c].str
      own == conn = call[c].conn /\ stream[s].gen = call[c].gen IN
  /\ Pc(c) = "dial" /\ call[c].op = "on"
  /\ Cancel({c})
  /\ stream' = IF own THEN [stream EXCEPT ![s] =
                             [@ EXCEPT !.active = FALSE, !.running = FALSE,
                                       !.cancel = None]]
                      ELSE stream
  /\ Goto(c, "returned")
  /\ UNCHANGED <<connected, conn, connectGen, connectCancel, screenHubGen,
                 controlOwner, closed, slot, sock, csock, worker, recon,
                 superseded, overwritten, phoneShown, hubVars>>

(* The generation, connection and context a started stream must still own. *)
StillConnected(c) ==   \* mutant: only the connection is checked again
  connected /\ conn = call[c].conn

StillOwned(c) ==
  /\ connected /\ conn = call[c].conn
  /\ stream[call[c].str].gen = call[c].gen
  /\ ~Cancelled(c)

StartAbort(c) ==
  LET s == call[c].str IN
  /\ Pc(c) = "dialed" /\ call[c].op = "on"
  /\ ~StillOwned(c)
  /\ Cancel({c})
  /\ CloseDialed(c)
  /\ stream' = IF stream[s].gen = call[c].gen
               THEN [stream EXCEPT ![s] =
                      [@ EXCEPT !.active = FALSE, !.running = FALSE,
                                !.cancel = None]]
               ELSE stream
  /\ Goto(c, "returned")
  /\ UNCHANGED <<connected, conn, connectGen, connectCancel, screenHubGen,
                 controlOwner, closed, slot, csock, worker, recon, superseded,
                 overwritten, phoneShown, hubVars>>

(* InstallStream and the worker's launch; launchScreenWorker also begins a *)
(* hub session and spawns the control reconnect.                           *)
StartInstall(c) ==
  LET s == call[c].str
      own == IF sock[c] = "open" THEN c ELSE slot[conn][s]
      screen == s = "screen"
  IN
  /\ Pc(c) = "dialed" /\ call[c].op = "on"
  /\ StillOwned(c)
  /\ slot' = [slot EXCEPT ![conn][s] = own]
  /\ CloseSockets(SocketsOf(conn, {s}) \ {own}, {})
  /\ stream' = [stream EXCEPT ![s] =
                 [@ EXCEPT !.running = TRUE, !.active = TRUE, !.done = c]]
  /\ worker' = [worker EXCEPT ![c] =
                  [phase |-> "run", str |-> s, gen |-> call[c].gen,
                   conn |-> conn, sock |-> own,
                   hubGen |-> IF screen THEN screenGeneration + 1 ELSE 0]]
  /\ IF screen
     THEN /\ \E ok \in WriteOutcomes : BeginScreenSession(ok)
          /\ screenHubGen' = screenGeneration + 1
          /\ controlOwner' = c
          /\ recon' = [recon EXCEPT ![c] = "close"]
     ELSE UNCHANGED <<hubVars, screenHubGen, controlOwner, recon>>
  /\ Goto(c, "returned")
  /\ UNCHANGED <<connected, conn, connectGen, connectCancel, ctxDone, closed,
                 superseded, overwritten, phoneShown>>

-----------------------------------------------------------------------------
(* ToggleStream(s, false): stopStream.                                     *)

StopEnter(c, s) ==
  /\ Fresh(c)
  /\ IF ~connected
     THEN /\ call' = [call EXCEPT ![c] =
                       [@ EXCEPT !.op = "off", !.pc = "returned"]]
          /\ UNCHANGED <<stream, screenHubGen, ctxDone, slot, sock, csock,
                         superseded, hubVars>>
     ELSE /\ Overtake(c, {s})
          /\ Cancel({stream[s].cancel})
          /\ stream' = [stream EXCEPT ![s] =
                         [@ EXCEPT !.cancel = None, !.gen = stream[s].gen + 1,
                                   !.active = FALSE]]
          /\ IF ~stream[s].running /\ stream[s].done = None
             THEN /\ call' = [call EXCEPT ![c] =
                               [@ EXCEPT !.op = "off", !.str = s,
                                         !.pc = "returned"]]
                  /\ UNCHANGED <<screenHubGen, slot, sock, csock, hubVars>>
             ELSE /\ IF s = "screen"
                     THEN /\ \E ok \in WriteOutcomes :
                               EndScreenSession(screenHubGen, ok)
                          /\ screenHubGen' = 0
                     ELSE UNCHANGED <<screenHubGen, hubVars>>
                  /\ CloseStream(conn, s)
                  /\ call' = [call EXCEPT ![c] =
                               [@ EXCEPT !.op = "off", !.str = s, !.pc = "stop",
                                         !.conn = conn,
                                         !.gen = stream[s].gen + 1,
                                         !.wait = Dones({s})]]
  /\ UNCHANGED <<connected, conn, connectGen, connectCancel, controlOwner,
                 closed, worker, recon, overwritten, phoneShown>>

StopJoinAny(c) ==   \* mutant: resets the stream whoever owns it now
  LET s == call[c].str IN
  /\ Pc(c) = "stop"
  /\ Joined(c)
  /\ stream' = [stream EXCEPT ![s] =
                 [@ EXCEPT !.running = FALSE, !.active = FALSE, !.done = None]]
  /\ Goto(c, "returned")
  /\ UNCHANGED <<connected, conn, connectGen, connectCancel, screenHubGen,
                 controlOwner, netVars, worker, recon, superseded,
                 overwritten, phoneShown, hubVars>>

StopJoin(c) ==
  LET s == call[c].str IN
  /\ Pc(c) = "stop"
  /\ Joined(c)
  /\ stream' = IF stream[s].gen = call[c].gen
               THEN [stream EXCEPT ![s] =
                      [@ EXCEPT !.running = FALSE, !.active = FALSE,
                                !.done = None]]
               ELSE stream
  /\ Goto(c, "returned")
  /\ UNCHANGED <<connected, conn, connectGen, connectCancel, screenHubGen,
                 controlOwner, netVars, worker, recon, superseded,
                 overwritten, phoneShown, hubVars>>

-----------------------------------------------------------------------------
(* Stream workers.                                                         *)

Phase(c) == worker[c].phase

Step(c, from, to) ==
  /\ Phase(c) = from
  /\ worker' = [worker EXCEPT ![c].phase = to]

AfterCapture(c) == IF worker[c].str = "screen" THEN "end" ELSE "last"

(* The capture returns because it was cancelled or its socket was closed... *)
CaptureStops(c) ==
  /\ Step(c, "run", AfterCapture(c))
  /\ Cancelled(c) \/ sock[worker[c].sock] = "closed"
  /\ UNCHANGED <<ctlVars, netVars, call, recon, superseded, overwritten,
                 phoneShown, hubVars>>

(* ... or because the phone, a pipeline or a tool failed. *)
CaptureFails(c) ==
  /\ Step(c, "run", AfterCapture(c))
  /\ ~Cancelled(c) /\ sock[worker[c].sock] # "closed"
  /\ UNCHANGED <<ctlVars, netVars, call, recon, superseded, overwritten,
                 phoneShown, hubVars>>

(* The screen demuxer delivers a session header, possibly after its worker *)
(* has been told to stop.                                                  *)
CaptureHeader(c) ==
  /\ Phase(c) # "none" /\ worker[c].str = "screen"
  /\ \E ok \in WriteOutcomes : SetScreenSession(worker[c].hubGen, ok)
  /\ UNCHANGED <<ctlVars, netVars, procVars, phoneShown>>

WorkerEndSession(c) ==
  /\ Step(c, "end", "control")
  /\ \E ok \in WriteOutcomes : EndScreenSession(worker[c].hubGen, ok)
  /\ UNCHANGED <<ctlVars, netVars, call, recon, superseded, overwritten,
                 phoneShown>>

(* closeScreenControl *)
WorkerCloseControl(c) ==
  /\ Step(c, "control", "socket")
  /\ IF controlOwner = c
     THEN controlOwner' = None /\ CloseStream(worker[c].conn, "control")
     ELSE UNCHANGED <<controlOwner, slot, sock, csock>>
  /\ UNCHANGED <<connected, conn, connectGen, connectCancel, stream,
                 screenHubGen, ctxDone, closed, call, recon, superseded,
                 overwritten, phoneShown, hubVars>>

(* The screen worker closes the screen slot without looking at generations. *)
WorkerCloseSocket(c) ==
  /\ Step(c, "socket", "last")
  /\ CloseStream(worker[c].conn, "screen")
  /\ UNCHANGED <<ctlVars, ctxDone, closed, call, recon, superseded,
                 overwritten, phoneShown, hubVars>>

(* wasRunning of the launch*Worker functions *)
WasRunning(c) ==
  LET s == worker[c].str IN
  /\ stream[s].running /\ stream[s].gen = worker[c].gen
  /\ conn = worker[c].conn
  /\ s = "screen" => screenHubGen = worker[c].hubGen

Finished(s) == [stream EXCEPT ![s] =
                 [@ EXCEPT !.running = FALSE, !.active = FALSE]]

WorkerLast(c) ==
  LET s == worker[c].str IN
  /\ Step(c, "last", "exit")
  /\ IF WasRunning(c)
     THEN /\ stream' = Finished(s)
          /\ IF s = "screen"
             THEN screenHubGen' = 0 /\ UNCHANGED <<slot, sock, csock>>
             ELSE CloseStream(conn, s) /\ UNCHANGED screenHubGen
     ELSE UNCHANGED <<stream, screenHubGen, slot, sock, csock>>
  /\ UNCHANGED <<connected, conn, connectGen, connectCancel, controlOwner,
                 ctxDone, closed, call, recon, superseded, overwritten,
                 phoneShown, hubVars>>

ExitIfOwner(c) ==   \* mutant: closes done only while it owns the stream
  /\ Step(c, "exit", "exited")
  /\ stream[worker[c].str].gen = worker[c].gen
  /\ Cancel({c})
  /\ UNCHANGED <<ctlVars, closed, slot, sock, csock, call, recon, superseded,
                 overwritten, phoneShown, hubVars>>

(* The deferred cancel() and close(done) *)
WorkerExit(c) ==
  /\ Step(c, "exit", "exited")
  /\ Cancel({c})
  /\ UNCHANGED <<ctlVars, closed, slot, sock, csock, call, recon, superseded,
                 overwritten, phoneShown, hubVars>>

-----------------------------------------------------------------------------
(* reconnectScreenControl, one goroutine per screen session.               *)

ReconGoto(c, from, to) ==
  /\ recon[c] = from
  /\ recon' = [recon EXCEPT ![c] = to]

ReconClosePrevious(c) ==
  /\ recon[c] = "close"
  /\ IF controlOwner = c
     THEN ReconGoto(c, "close", "dial") /\ CloseStream(worker[c].conn, "control")
     ELSE ReconGoto(c, "close", "done") /\ UNCHANGED <<slot, sock, csock>>
  /\ UNCHANGED <<ctlVars, ctxDone, closed, call, worker, superseded,
                 overwritten, phoneShown, hubVars>>

ReconDialSucceeds(c) ==
  /\ ~Cancelled(c)
  /\ ReconGoto(c, "dial", "install")
  /\ csock' = [csock EXCEPT ![c] = "open"]
  /\ UNCHANGED <<ctlVars, ctxDone, closed, slot, sock, call, worker,
                 superseded, overwritten, phoneShown, hubVars>>

ReconDialFails(c) ==
  /\ ReconGoto(c, "dial", "done")
  /\ UNCHANGED <<ctlVars, netVars, call, worker, superseded, overwritten,
                 phoneShown, hubVars>>

(* Owned and not cancelled, and InstallStream accepts: the Connection is   *)
(* not closed.  The slot was emptied by ReconClosePrevious.                *)
ReconInstall(c) ==
  LET k == worker[c].conn IN
  /\ recon[c] = "install"
  /\ IF controlOwner # c \/ Cancelled(c) \/ k \in closed
     THEN /\ ReconGoto(c, "install", "done")
          /\ csock' = [csock EXCEPT ![c] = "closed"]
          /\ UNCHANGED <<slot, sock>>
     ELSE /\ ReconGoto(c, "install", "check")
          /\ slot' = [slot EXCEPT ![k]["control"] = c]
          /\ CloseSockets({}, SocketsOf(k, {"control"}) \ {c})
  /\ UNCHANGED <<ctlVars, ctxDone, closed, call, worker, superseded,
                 overwritten, phoneShown, hubVars>>

(* stillCurrent, read under sc.mu *)
ReconCheck(c) ==
  LET w == worker[c]
      current == /\ connected /\ conn = w.conn
                 /\ stream["screen"].gen = w.gen
                 /\ screenHubGen = w.hubGen
                 /\ stream["screen"].running
  IN
  /\ ReconGoto(c, "check", IF current THEN "register" ELSE "discard")
  /\ UNCHANGED <<ctlVars, netVars, call, worker, superseded, overwritten,
                 phoneShown, hubVars>>

ReconRegister(c) ==
  /\ recon[c] = "register"
  /\ IF IsCurrent(worker[c].hubGen)
     THEN /\ \E ok \in (IF csock[c] = "open" THEN BOOLEAN ELSE {FALSE}) :
               RegisterControlRoute(worker[c].hubGen, c, ok)
          /\ ReconGoto(c, "register", "done")
     ELSE HubUnchanged /\ ReconGoto(c, "register", "discard")
  /\ UNCHANGED <<ctlVars, netVars, call, worker, superseded, overwritten,
                 phoneShown>>

(* closeControlConn: clears the slot only if it still holds this socket. *)

ReconDiscard(c) ==
  LET k == worker[c].conn IN
  /\ ReconGoto(c, "discard", "done")
  /\ csock' = [csock EXCEPT ![c] = "closed"]
  /\ slot' = IF slot[k]["control"] = c
             THEN [slot EXCEPT ![k]["control"] = None] ELSE slot
  /\ UNCHANGED <<ctlVars, ctxDone, closed, sock, call, worker, superseded,
                 overwritten, phoneShown, hubVars>>

-----------------------------------------------------------------------------

CallBegins(c) ==
  \/ ConnectEnter(c)
  \/ (Fresh(c) /\ DisconnectEnter(c))
  \/ \E s \in Toggles : StartEnter(c, s) \/ StopEnter(c, s)

CallContinues(c) ==
  \/ ConnectAgain(c) \/ DialSucceeds(c) \/ ConnectFails(c)
  \/ ConnectInstall(c) \/ ConnectAnnounce(c)
  \/ (Pc(c) = "disconnect" /\ DisconnectEnter(c))
  \/ DisconnectUnpublish(c) \/ DisconnectClose(c) \/ DisconnectJoin(c)
  \/ StartJoin(c) \/ StartFails(c) \/ StartAbort(c) \/ StartInstall(c)
  \/ StopJoin(c)

WorkerContinues(c) ==
  \/ CaptureStops(c) \/ WorkerEndSession(c) \/ WorkerCloseControl(c)
  \/ WorkerCloseSocket(c) \/ WorkerLast(c) \/ WorkerExit(c)

ReconContinues(c) ==
  \/ ReconClosePrevious(c) \/ ReconDialSucceeds(c) \/ ReconDialFails(c)
  \/ ReconInstall(c) \/ ReconCheck(c) \/ ReconRegister(c) \/ ReconDiscard(c)

(* Every call has been made and has returned. *)
Terminating ==
  /\ \A c \in Calls : Pc(c) = "returned"
  /\ UNCHANGED vars

Next ==
  \/ \E c \in Calls :
       \/ CallBegins(c) \/ CallContinues(c)
       \/ WorkerContinues(c) \/ CaptureFails(c) \/ CaptureHeader(c)
       \/ ReconContinues(c)
  \/ Terminating

Spec == Init /\ [][Next]_vars

(* Goroutines that can run do run, and dials come to an end (every attempt *)
(* has a timeout and the attempts are counted).  No call need ever be made *)
(* and no phone need ever fail.                                            *)
Fairness == \A c \in Calls : /\ WF_vars(CallContinues(c))
                             /\ WF_vars(WorkerContinues(c))
                             /\ WF_vars(ReconContinues(c))

FairSpec == Spec /\ Fairness

-----------------------------------------------------------------------------
(* Properties.                                                             *)

Pcs == {"idle", "dial", "dialed", "announce", "disconnect", "unpublish",
        "close", "join", "reconnect", "restart", "stop", "returned"}

SocketStates == {"none", "open", "closed"}

TypeOK ==
  /\ connected \in BOOLEAN
  /\ conn \in Calls \cup {None}
  /\ connectGen \in Nat
  /\ connectCancel \in Calls \cup {None}
  /\ stream \in [Streams -> [active : BOOLEAN, running : BOOLEAN, gen : Nat,
                            cancel : Calls \cup {None},
                            done : Calls \cup {None}]]
  /\ screenHubGen \in Nat
  /\ controlOwner \in Calls \cup {None}
  /\ phoneShown \in BOOLEAN
  /\ ctxDone \in SUBSET Calls
  /\ closed \in SUBSET Calls
  /\ slot \in [Calls -> [Slots -> Calls \cup {None}]]
  /\ sock \in [Calls -> SocketStates]
  /\ csock \in [Calls -> SocketStates]
  /\ call \in [Calls -> [op : {"none", "connect", "disconnect", "on", "off"},
                         str : Streams, pc : Pcs, gen : Nat,
                         conn : Calls \cup {None},
                         wait : SUBSET Calls]]
  /\ worker \in [Calls -> [phase : {"none", "run", "end", "control", "socket",
                                    "last", "exit", "exited"},
                           str : Streams, gen : Nat,
                           conn : Calls \cup {None},
                           sock : Calls \cup {None}, hubGen : Nat]]
  /\ recon \in [Calls -> {"none", "close", "dial", "install", "check",
                          "register", "discard", "done"}]
  /\ superseded \in SUBSET Calls
  /\ overwritten \in SUBSET Calls
  /\ HubTypeOK

Alive(c) == Phase(c) \notin {"none", "exited"}

(* Every open stream socket has someone who will close it: the start that  *)
(* dialed it and has not yet checked its session, the current Connection,  *)
(* or the Disconnect that is about to close that Connection.  One case is  *)
(* excepted: a Connection that a Connect replaced without closing it, which *)
(* overlapping Connects can do (NoConnectionIsOverwritten).                *)
Reachable(k) == \/ k = conn
                \/ \E d \in Calls : Pc(d) \in {"unpublish", "close"}
                                   /\ call[d].conn = k

NoSocketLeak ==
  \A c \in Calls : sock[c] = "open" =>
    \/ Pc(c) = "dialed"
    \/ \E k \in Calls, s \in Streams :
         slot[k][s] = c /\ (Reachable(k) \/ k \in overwritten)

(* The same for control sockets, which a screen session reopens on its own *)
(* while streams and connections come and go.                              *)
NoControlLeak ==
  \A c \in Calls : csock[c] = "open" =>
    \/ recon[c] \in {"install", "discard"}
    \/ \E k \in Calls :
         slot[k]["control"] = c /\ (Reachable(k) \/ k \in overwritten)

NothingLeaks == NoSocketLeak /\ NoControlLeak

(* A worker never shares its connection's stream with another worker: the  *)
(* next one is launched only after the previous one has closed its done    *)
(* channel, whoever asked for the stop.                                    *)
OneWorkerPerStream ==
  \A c, d \in Calls : Alive(c) /\ Alive(d) /\ c # d =>
    worker[c].str # worker[d].str \/ worker[c].conn # worker[d].conn

(* A worker of the current connection can always be waited for: its done   *)
(* channel is still the stream's, so Stop, Start and Disconnect join it.   *)
WorkerIsJoinable ==
  \A c \in Calls : Alive(c) /\ worker[c].conn = conn =>
    stream[worker[c].str].done = c

(* What the status shows as active is being captured: an active stream has *)
(* its own worker, not told to stop, over the socket in its slot.  The     *)
(* stream whose worker's connection has been overwritten is excepted: it   *)
(* has the worker's generation still, but the worker ends without clearing *)
(* it, and there is nothing in its slot.                                   *)
ActiveIsCaptured ==
  \A s \in Streams : stream[s].active =>
    LET c == stream[s].done IN
    /\ c # None /\ stream[s].gen = worker[c].gen
    /\ \/ worker[c].conn \in overwritten
       \/ /\ Alive(c)
          /\ worker[c].phase = "run" => slot[conn][s] = worker[c].sock

(* The screen worker's unconditional CloseStream only ever meets its own   *)
(* socket: "stale sessions cannot ... close a newer" one (CHANGELOG.md:40).*)
StaleWorkerClosesNothing ==
  [][\A c \in Calls : Phase(c) = "socket" /\ Phase(c)' = "last" =>
       \A d \in Calls : sock[d] = "open" /\ sock'[d] = "closed" => d = c]_vars

(* A control socket stays in its slot until the session that opened it, or *)
(* the connection, is through with it; the live route writes to an open    *)
(* socket, so a stop can restore the display "before that route is closed" *)
(* (CHANGELOG.md:39).                                                      *)
LiveRouteIsOpen == controlRoute # None => csock[controlRoute] = "open"

(* The hub's screen session never outlives the worker that feeds it.       *)
SessionHasWorker ==
  screenActive => \E c \in Calls : /\ Phase(c) \in {"run", "end"}
                                  /\ worker[c].hubGen = screenGeneration

(* Workers, streams, slots and the hub's session agree in every state,     *)
(* whichever calls and failures overlap: the conjunction of the above.     *)
WorkersMatchSessions ==
  /\ TypeOK
  /\ OneWorkerPerStream /\ WorkerIsJoinable /\ ActiveIsCaptured
  /\ LiveRouteIsOpen /\ SessionHasWorker

(* The last call wins: a start that a later stop, start or disconnect has  *)
(* overtaken never launches its worker.                                    *)
OvertakenStartAborts ==
  [][\A c \in Calls : Phase(c) = "none" /\ Phase(c)' = "run" =>
       c \notin superseded]_vars

(* What has been overtaken changes nothing: neither a stale worker's end   *)
(* nor a stale start touches its successor.                                *)
StaleCallsChangeNothing == StaleWorkerClosesNothing /\ OvertakenStartAborts

(* Every API call returns: no join waits for a worker nobody stopped.      *)
CallsReturn == \A c \in Calls : InFlight(c) ~> Pc(c) = "returned"

(* Two promises that do not hold (README, Known deviations): "If already   *)
(* connected or connecting, disconnects/cancels first" (controller.go:89), *)
(* so no connection is ever replaced that has not been disconnected,       *)
NoConnectionIsOverwritten == overwritten = {}

(* and once no call is in flight the dashboard shows the controller's      *)
(* state.                                                                  *)
StatusSettles == (\A c \in Calls : ~InFlight(c)) => phoneShown = connected
=============================================================================
