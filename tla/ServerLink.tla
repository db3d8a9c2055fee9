----------------------------- MODULE ServerLink -----------------------------
(***************************************************************************)
(* The server thread of the client (server.c): it selects the device with  *)
(* adb (adb/adb.c), opens the adb tunnel (adb/adb_tunnel.c), starts the    *)
(* server on the device, connects the sockets, and shuts everything down   *)
(* when it is stopped; or, in Wi-Fi mode, it dials the sockets itself.     *)
(* Whatever it waits for -- an adb process, an accept, a connect, a recv -- *)
(* it first registers with the interruptor (util/intr.c), for              *)
(* sc_server_stop and the end of the server process to interrupt it.       *)
(*                                                                         *)
(* The threads: the server thread, the observer of the server process      *)
(* (util/process.c), the main thread, which stops, joins and destroys the  *)
(* server in the order of scrcpy(), and the readers of the sockets         *)
(* (demuxers and receiver).  adb, the server process, the device and the   *)
(* peers of the sockets answer when they like, or never.                   *)
(***************************************************************************)
EXTENDS Naturals, Sequences, SequencesExt

CONSTANTS
  Options,   \* the command lines: records, see MCServerLink
  Lists,     \* what "adb devices" may print: sequences of devices
  LastPort,  \* the port range is 1..LastPort
  Attempts,  \* bound: connections to try, and polls of the TCP/IP mode (100, 40)
  Failing    \* BOOLEAN: an adb command, a process or a socket may fail

ASSUME LinkAssumption ==
  /\ {LastPort, Attempts} \subseteq Nat \ {0} /\ Failing \in BOOLEAN
  /\ \A o \in Options : o.video \/ o.audio \/ o.control   \* cli.c:3022

Streams == {"video", "camera", "audio", "speaker", "control"}
Sockets == Streams \cup {"listen"}

VARIABLES
  opt,      \* the parameters, one of Options
  pc,       \* the server thread: its step, and how far the step is
  port,     \* the port of the range that is being tried
  tries,    \* attempts left
  intr,     \* sc_intr: interrupted, and the process and the socket registered
  command,  \* the adb process: "none", "running", "ok", "failed", "reaped"
  sock,     \* the state of every socket
  owned,    \* the sockets that are fields of sc_server
  tunnel,   \* sc_adb_tunnel
  proc,     \* the server process: "none", "running", "dead", "reaped"
  observer, \* "none", "waiting", "terminated", "ended", "joined"
  posted,   \* the events pushed to the main thread
  main,     \* the main thread
  stopped,  \* server->stopped
  readers   \* the sockets that another thread reads

vars == <<opt, pc, port, tries, intr, command, sock, owned, tunnel, proc,
          observer, posted, main, stopped, readers>>

-----------------------------------------------------------------------------
(* The server thread's steps.  An adb command goes through the phases of
   process_check_success_intr; a socket, through those of net_*_intr. *)
At(step, phase) == pc = [step |-> step, phase |-> phase]
Goto(step, phase) == pc' = [step |-> step, phase |-> phase]
Phase(phase) == Goto(pc.step, phase)
Call(step) == Goto(step, "begin")
Ok(step) == At(step, "ok")
Ko(step) == At(step, "ko")
Done(step) == Ok(step) \/ Ko(step)

Piped == {"devices", "connect", "ip", "tcp_port", "poll"}
Commands == Piped \cup {"start-server", "disconnect", "tcpip", "push", "reverse",
                        "unreverse", "forward", "untunnel", "untunnel_fail",
                        "untunnel_abort", "kill_adb", "kill_adb_fail"}

(* sc_intr_interrupt. *)
Interrupt ==
  /\ intr' = [interrupted |-> TRUE, process |-> FALSE, socket |-> "none"]
  /\ sock' = IF intr.socket = "none" THEN sock
             ELSE [sock EXCEPT ![intr.socket] = "interrupted"]
  /\ IF intr.process /\ command = "running"
     THEN command' = "failed" ELSE UNCHANGED command

(* sc_intr_set_process and sc_intr_set_socket change nothing once the
   interruptor has been used, and say so. *)
Watch(process, socket) ==
  intr' = IF intr.interrupted THEN intr
          ELSE [intr EXCEPT !.process = process, !.socket = socket]

Rest == <<opt, port, tries, sock, owned, tunnel, proc, observer, posted, main, stopped, readers>>

(* sc_adb_execute: a process that could not be started is a command that
   failed. *)
Spawn ==
  /\ pc.step \in Commands /\ pc.phase = "begin"
  /\ \/ command' = "running" /\ Phase(IF pc.step \in Piped THEN "pipe" ELSE "check")
     \/ Failing /\ command' = "none" /\ Phase("ko")
  /\ UNCHANGED <<intr, Rest>>

(* The commands whose output is wanted: sc_pipe_read_all_intr. *)
ReadOutput ==
  /\ pc.step \in Commands
  /\ \/ /\ pc.phase = "pipe"
        /\ Watch(TRUE, "none")
        /\ Phase(IF intr.interrupted THEN "check" ELSE "reading")
     \/ /\ pc.phase = "reading" /\ command # "running"
        /\ Watch(FALSE, "none")
        /\ Phase("check")
  /\ UNCHANGED <<command, Rest>>

(* process_check_success_intr, when the interruptor has been used already: the
   process is left to itself, and may still do its work. *)
CheckInterrupted ==
  /\ pc.step \in Commands /\ pc.phase = "check" /\ intr.interrupted
  /\ command' = "none" /\ Phase("ko")
  /\ UNCHANGED <<intr, Rest>>

(* Mutant: the process is closed while it is still registered. *)
WaitedAndClosed == "none"

(* sc_process_wait, with close=false: the process stays a zombie. *)
Waited == command

(* Otherwise: register, wait for the process, unregister, and close it. *)
Check ==
  /\ pc.step \in Commands
  /\ \/ /\ pc.phase = "check" /\ ~intr.interrupted
        /\ Watch(TRUE, "none") /\ Phase("wait") /\ UNCHANGED command
     \/ /\ pc.phase = "wait" /\ command # "running"
        /\ command' = Waited
        /\ Phase(IF command = "ok" THEN "clear" ELSE "clear_ko")
        /\ UNCHANGED intr
     \/ /\ pc.phase \in {"clear", "clear_ko"}
        /\ Watch(FALSE, "none")
        /\ Phase(IF pc.phase = "clear" THEN "close" ELSE "close_ko")
        /\ UNCHANGED command
     \/ /\ pc.phase \in {"close", "close_ko"}
        /\ command' = "none" /\ Phase(IF pc.phase = "close" THEN "ok" ELSE "ko")
        /\ UNCHANGED intr
  /\ UNCHANGED Rest

(* adb itself. *)
CommandEnds ==
  /\ command = "running"
  /\ command' \in (IF Failing THEN {"ok", "failed"} ELSE {"ok"})
  /\ UNCHANGED <<pc, intr, Rest>>

-----------------------------------------------------------------------------
(* The device. *)

IsTcpip(device) == device.kind = "tcpip"

(* sc_adb_accept_device: a serial without a port stands for any port. *)
Accepts(device, by) ==
  CASE by.how = "all" -> TRUE
    [] by.how = "serial" -> IF by.port = 0 THEN by.host = device.host
                            ELSE by.host = device.host /\ by.port = device.port
    [] by.how = "usb" -> device.kind = "usb"
    [] by.how = "tcpip" -> device.kind # "usb"

(* sc_adb_select_device: the only device that is accepted, if it is ready. *)
SelectDevice(list, by) ==
  LET accepted == SelectSeq(list, LAMBDA device: Accepts(device, by))
  IN  IF Len(accepted) = 1 /\ accepted[1].state = "device" THEN accepted ELSE <<>>

Needed == (IF opt.video THEN {"video"} ELSE {}) \cup (IF opt.audio THEN {"audio"} ELSE {})
          \cup (IF opt.control THEN {"control"} ELSE {})
Dialled == Needed \cup (IF opt.wifi /\ opt.multistream /\ opt.video THEN {"camera"} ELSE {})
                  \cup (IF opt.wifi /\ opt.audio THEN {"speaker"} ELSE {})
(* The order in which the streams are dialled, and the first of some. *)
Place == [video |-> 1, camera |-> 2, audio |-> 3, speaker |-> 4, control |-> 5]
First(ss) == CHOOSE s \in ss: \A t \in ss: Place[s] <= Place[t]
FirstDialled == First(Dialled)
Optional == {"camera", "speaker"}

(* The serial is known: Wi-Fi mode dials the phone, otherwise the server is
   pushed to the device. *)
HaveSerial == IF opt.wifi
              THEN Call(FirstDialled) /\ tries' = Attempts
              ELSE Call("push") /\ UNCHANGED tries

Fail == Call(IF opt.killAdb THEN "kill_adb_fail" ELSE "failed")

StepVars == <<opt, intr, command, observer, main, stopped, readers>>
Selecting == <<StepVars, port, sock, owned, tunnel, proc, posted>>

(* After adb start-server: connect to the address given with --tcpip=, or
   select a device. *)
ServerStarted ==
  /\ Done("start-server")
  /\ IF Ko("start-server") THEN Fail
     ELSE Call(CASE opt.tcpip # "known" -> "devices"
                 [] opt.plus -> "disconnect"
                 [] OTHER -> "connect")
  /\ UNCHANGED <<Selecting, tries>>

DevicesListed ==
  /\ Done("devices")
  /\ IF Ko("devices") THEN Fail /\ UNCHANGED tries
     ELSE \E list \in Lists:
            LET found == SelectDevice(list, opt.by) IN
            IF found = <<>> THEN Fail /\ UNCHANGED tries
            ELSE IF opt.tcpip = "unknown" /\ ~IsTcpip(found[1])
                 THEN Call("ip") /\ UNCHANGED tries
                 ELSE HaveSerial
  /\ UNCHANGED Selecting

(* sc_server_switch_to_tcpip and wait_tcpip_mode_enabled. *)
SwitchToTcpip ==
  /\ \/ Ok("ip") /\ Call("tcp_port") /\ UNCHANGED tries
     \/ Ko("ip") /\ Fail /\ UNCHANGED tries
     \/ Ok("tcp_port") /\ Call("connect") /\ UNCHANGED tries
     \/ Done("tcp_port") /\ Call("tcpip") /\ UNCHANGED tries
     \/ Ok("tcpip") /\ Call("poll") /\ tries' = Attempts + 1
     \/ Ko("tcpip") /\ Fail /\ UNCHANGED tries
     \/ Ok("poll") /\ Call("connect") /\ UNCHANGED tries
     \/ /\ Done("poll")
        /\ tries' = tries - 1
        /\ IF tries = 1 \/ stopped THEN Fail ELSE Call("poll")
  /\ UNCHANGED Selecting

(* sc_server_connect_to_tcpip. *)
ConnectTcpip ==
  /\ \/ Done("disconnect") /\ Call("connect") /\ UNCHANGED tries
     \/ Ok("connect") /\ HaveSerial
     \/ Ko("connect") /\ Fail /\ UNCHANGED tries
  /\ UNCHANGED Selecting

-----------------------------------------------------------------------------
(* The tunnel (adb_tunnel.c). *)

Forward == Call("forward") /\ port' = 1

(* push_server is over; --list-* only executes the server. *)
Pushed ==
  /\ Done("push")
  /\ CASE Ko("push") -> Fail /\ UNCHANGED port
       [] OTHER -> IF opt.list THEN Call("execute") /\ UNCHANGED port
                   ELSE IF opt.forward THEN Forward ELSE Call("reverse") /\ port' = 1
  /\ UNCHANGED <<StepVars, tries, sock, owned, tunnel, proc, posted>>

(* The port is forwarded by adb to the client, which listens on it. *)
Reversed ==
  /\ Done("reverse")
  /\ IF Ko("reverse") THEN Forward ELSE Call("listen") /\ UNCHANGED port
  /\ UNCHANGED <<StepVars, tries, sock, owned, tunnel, proc, posted>>

Listen ==
  /\ At("listen", "begin")
  /\ \/ /\ ~intr.interrupted
        /\ sock' = [sock EXCEPT !.listen = "open"]
        /\ tunnel' = [enabled |-> TRUE, forward |-> FALSE]
        /\ Call("execute") /\ UNCHANGED port
     \/ /\ intr.interrupted \/ Failing
        /\ IF intr.interrupted THEN Forward ELSE Call("unreverse") /\ UNCHANGED port
        /\ UNCHANGED <<sock, tunnel>>
  /\ UNCHANGED <<StepVars, tries, owned, proc, posted>>

Unreversed ==
  /\ Done("unreverse")
  /\ IF port < LastPort THEN Call("reverse") /\ port' = port + 1 ELSE Forward
  /\ UNCHANGED <<StepVars, tries, sock, owned, tunnel, proc, posted>>

Forwarded ==
  /\ Done("forward")
  /\ CASE Ok("forward") -> /\ tunnel' = [enabled |-> TRUE, forward |-> TRUE]
                           /\ Call("execute") /\ UNCHANGED port
       [] Ko("forward") /\ ~intr.interrupted /\ port < LastPort ->
            /\ tunnel' = [tunnel EXCEPT !.forward = TRUE]
            /\ Call("forward") /\ port' = port + 1
       [] OTHER -> tunnel' = [tunnel EXCEPT !.forward = TRUE] /\ Fail /\ UNCHANGED port
  /\ UNCHANGED <<StepVars, tries, sock, owned, proc, posted>>

(* execute_server and sc_process_observer_init; for --list-*, the end of the
   process. *)
Execute ==
  /\ At("execute", "begin")
  /\ \/ proc' = "running" /\ Goto("execute", IF opt.list THEN "list" ELSE "observe")
     \/ Failing /\ (IF opt.list THEN Fail ELSE Call("untunnel_abort")) /\ UNCHANGED proc
  /\ UNCHANGED <<StepVars, port, tries, sock, owned, tunnel, posted>>

Listed ==
  /\ At("execute", "list") /\ proc = "dead"
  /\ proc' = "reaped" /\ posted' = Append(posted, "listed") /\ Call("return")
  /\ UNCHANGED <<StepVars, port, tries, sock, owned, tunnel>>

Observe ==
  /\ At("execute", "observe")
  /\ \/ /\ observer' = "waiting" /\ Call("connect_to")
        /\ UNCHANGED proc
     \/ /\ Failing /\ proc' = "reaped" /\ Call("untunnel_abort")
        /\ UNCHANGED observer
  /\ UNCHANGED <<opt, intr, command, main, stopped, readers,
                 port, tries, sock, owned, tunnel, posted>>

(* sc_adb_tunnel_close: the tunnel counts as disabled even if the command
   failed. *)
TunnelClosed ==
  /\ \E step \in {"untunnel", "untunnel_fail", "untunnel_abort"}: Done(step)
  /\ tunnel' = [tunnel EXCEPT !.enabled = FALSE]
  /\ sock' = IF tunnel.forward THEN sock ELSE [sock EXCEPT !.listen = "closed"]
  /\ CASE pc.step = "untunnel" -> Call("info")
       [] pc.step = "untunnel_fail" -> Call("terminate")
       [] OTHER -> Fail
  /\ UNCHANGED <<StepVars, port, tries, owned, proc, posted>>

-----------------------------------------------------------------------------
(* The sockets.  A stream is accepted on the listening socket ("accept"), dialled
   until it answers with a byte ("begin"), or, when another one has answered
   through the same adb tunnel, just connected ("connect"). *)

Close(ss) == [s \in Sockets |-> IF s \in ss /\ sock[s] \in {"open", "interrupted"}
                                THEN "closed" ELSE sock[s]]

How(first) == IF ~opt.wifi /\ ~tunnel.forward THEN "accept"
              ELSE IF first \/ opt.wifi THEN "begin" ELSE "connect"

ConnectTo ==
  /\ At("connect_to", "begin")
  /\ Goto(FirstDialled, How(TRUE))
  /\ tries' = Attempts
  /\ UNCHANGED <<StepVars, port, sock, owned, tunnel, proc, posted>>

(* The next stream; after the last one, the tunnel is not needed any more. *)
NextStream(s) ==
  LET later == {t \in Dialled: Place[t] > Place[s]} IN
  /\ IF later # {} THEN Goto(First(later), How(FALSE))
     ELSE Call(IF opt.wifi THEN "info" ELSE "untunnel")
  /\ tries' = Attempts

(* Mutant: the sockets nobody reads are forgotten. *)
ReadStreams == {"video", "audio", "control"}

(* fail: every stream is closed, and the tunnel if it is still there. *)
FailedStreams == Streams
Failed ==
  /\ sock' = Close(FailedStreams)
  /\ owned' = {}
  /\ IF opt.wifi THEN Fail
     ELSE Call(IF tunnel.enabled THEN "untunnel_fail" ELSE "terminate")
  /\ UNCHANGED tries

SocketVars == <<opt, command, port, tunnel, proc, observer, posted, main, stopped, readers>>

Blocked == pc.phase \in {"accepting", "connecting", "receiving"}
InfoSocket == IF "video" \in Needed THEN "video"
              ELSE IF "audio" \in Needed THEN "audio" ELSE "control"
Registered == IF pc.phase = "accepting" THEN "listen"
              ELSE IF pc.step = "info" THEN InfoSocket ELSE pc.step
Unregister == Watch(FALSE, "none")

Interrupted == intr.interrupted

(* net_socket, for a connection, and net_*_intr up to the system call: nothing
   is done once the interruptor has been used. *)
Register ==
  /\ pc.step \in Streams /\ pc.phase \in {"accept", "begin", "connect"}
  /\ IF pc.phase = "accept"
     THEN IF Interrupted THEN Failed /\ UNCHANGED intr
          ELSE Watch(FALSE, "listen") /\ Phase("accepting") /\ UNCHANGED <<sock, owned, tries>>
     ELSE /\ sock' = [sock EXCEPT ![pc.step] = "open"]
          /\ Watch(FALSE, pc.step)
          /\ Phase(IF Interrupted THEN "shut" ELSE "connecting")
          /\ UNCHANGED <<owned, tries>>
  /\ UNCHANGED SocketVars

(* The other side answers: a connection to accept, a connection that is taken,
   and the byte that shows that the server is behind it. *)
Retried(s) == opt.wifi \/ s = FirstDialled
Accepted ==
  /\ pc.phase = "accepting" /\ proc = "running" /\ sock.listen = "open"
  /\ sock' = [sock EXCEPT ![pc.step] = "open"]
  /\ Unregister /\ NextStream(pc.step)
  /\ UNCHANGED <<SocketVars, owned>>

Connected ==
  /\ pc.phase = "connecting" /\ sock[pc.step] = "open"
  /\ IF Retried(pc.step)
     THEN /\ Watch(FALSE, pc.step)
          /\ Phase(IF intr.interrupted THEN "shut" ELSE "receiving")
          /\ UNCHANGED tries
     ELSE Unregister /\ NextStream(pc.step)
  /\ UNCHANGED <<SocketVars, sock, owned>>

ReceivedByte ==
  /\ pc.phase = "receiving" /\ pc.step \in Streams /\ sock[pc.step] = "open"
  /\ owned' = IF opt.wifi THEN owned \cup {pc.step} ELSE owned
  /\ Unregister /\ NextStream(pc.step)
  /\ UNCHANGED <<SocketVars, sock>>

(* Nothing will come: the socket has been interrupted, or the other side refused,
   or closed. *)
NoAnswer ==
  /\ Unregister
  /\ CASE pc.phase = "accepting" -> Failed
       [] pc.step = "info" -> Failed
       [] OTHER -> Phase("shut") /\ UNCHANGED <<sock, owned, tries>>
  /\ UNCHANGED SocketVars

Refused == Failing /\ Blocked /\ NoAnswer
Woken == Blocked /\ sock[Registered] = "interrupted" /\ NoAnswer

(* connect_to_server closes the socket and tries again, unless interrupted; the
   streams that may be missing are left out. *)
GiveUp == IF opt.wifi /\ pc.step \in Optional
          THEN NextStream(pc.step) /\ sock' = Close({pc.step}) /\ UNCHANGED owned
          ELSE Failed

Shut ==
  /\ pc.phase = "shut"
  /\ IF intr.interrupted \/ ~Retried(pc.step) THEN GiveUp
     ELSE sock' = Close({pc.step}) /\ Phase("sleep") /\ UNCHANGED <<owned, tries>>
  /\ UNCHANGED <<SocketVars, intr>>

(* sc_server_sleep returns false when the server has been stopped. *)
Sleep ==
  /\ pc.phase = "sleep"
  /\ IF stopped \/ tries = 1 THEN GiveUp
     ELSE Phase("begin") /\ tries' = tries - 1 /\ UNCHANGED <<sock, owned>>
  /\ UNCHANGED <<SocketVars, intr>>

(* device_read_info, from the first socket; in Wi-Fi mode, not from the control
   socket.  The sockets of an adb tunnel become the server's only now. *)
ReadInfo ==
  /\ At("info", "begin")
  /\ IF opt.wifi /\ InfoSocket = "control"
     THEN Call("connected") /\ UNCHANGED <<intr, sock, owned, tries>>
     ELSE IF intr.interrupted THEN Failed /\ UNCHANGED intr
     ELSE Watch(FALSE, InfoSocket) /\ Phase("receiving") /\ UNCHANGED <<sock, owned, tries>>
  /\ UNCHANGED SocketVars

ReceivedInfo ==
  /\ At("info", "receiving") /\ sock[InfoSocket] = "open"
  /\ Unregister
  /\ owned' = owned \cup Needed
  /\ Call("connected")
  /\ UNCHANGED <<SocketVars, sock, tries>>

-----------------------------------------------------------------------------
(* Connected, and the end. *)

EndVars == <<opt, port, tries, intr, command, owned, tunnel, main, stopped, readers>>

(* on_connected or on_connection_failed. *)
Post ==
  /\ pc.step \in {"connected", "failed"} /\ pc.phase = "begin"
  /\ posted' = Append(posted, pc.step)
  /\ Call(IF pc.step = "connected" THEN "wait" ELSE "return")
  /\ UNCHANGED <<EndVars, sock, proc, observer>>

(* Mutant: the thread does not wait to be stopped. *)
WaitsForNothing == TRUE

WaitedForStop == stopped

(* The server waits to be stopped, and wakes the readers of its sockets. *)
InterruptSockets ==
  /\ At("wait", "begin") /\ WaitedForStop
  /\ sock' = [s \in Sockets |-> IF s \in owned THEN "interrupted" ELSE sock[s]]
  /\ Call(IF opt.wifi THEN "return" ELSE "watchdog")
  /\ UNCHANGED <<EndVars, proc, observer, posted>>

(* The server process has a second to end, then it is killed. *)
Killed == IF proc = "running" THEN "dead" ELSE proc
Watchdog ==
  /\ At("watchdog", "begin")
  /\ Call("join_observer")
  /\ proc' = IF observer \in {"terminated", "ended"} THEN proc ELSE Killed
  /\ UNCHANGED <<EndVars, sock, observer, posted>>

(* The connection failed: sc_process_terminate, and sc_process_wait, which
   reaps it. *)
Terminate ==
  /\ At("terminate", "begin")
  /\ proc' = "reaped"
  /\ Call("join_observer")
  /\ UNCHANGED <<EndVars, sock, observer, posted>>

JoinObserver ==
  /\ At("join_observer", "begin") /\ observer = "ended"
  /\ observer' = "joined"
  /\ proc' = "reaped"
  /\ IF posted = <<>> THEN Fail
     ELSE Call(IF opt.killAdb THEN "kill_adb" ELSE "return")
  /\ UNCHANGED <<EndVars, sock, posted>>

AdbKilled ==
  /\ \/ Done("kill_adb_fail") /\ Call("failed")
     \/ Done("kill_adb") /\ Call("return")
  /\ UNCHANGED <<EndVars, sock, proc, observer, posted>>

Return ==
  /\ At("return", "begin")
  /\ Call("end")
  /\ UNCHANGED <<EndVars, sock, proc, observer, posted>>

-----------------------------------------------------------------------------
(* The observer of the server process, and sc_server_on_terminated. *)

ProcessDies ==
  /\ proc = "running" /\ (Failing \/ opt.list)
  /\ proc' = "dead"
  /\ UNCHANGED <<EndVars, pc, sock, observer, posted>>

Observed ==
  /\ observer = "waiting" /\ proc \in {"dead", "reaped"}
  /\ observer' = "terminated"
  /\ UNCHANGED <<EndVars, pc, sock, proc, posted>>

OnTerminated ==
  /\ observer = "terminated"
  /\ Interrupt
  /\ observer' = "ended"
  /\ UNCHANGED <<opt, pc, port, tries, owned, tunnel, proc, posted, main, stopped, readers>>

(* The main thread (scrcpy.c): await_for_server, the session, sc_server_stop, the
   joins of the demuxers and of the receiver, sc_server_join and
   sc_server_destroy. *)
MainVars == <<opt, pc, port, tries, tunnel, proc, observer, posted>>

AwaitServer ==
  /\ main = "await" /\ posted # <<>>
  /\ IF posted[1] = "connected" THEN main' = "session" /\ readers' = Needed
     ELSE main' = "stop" /\ UNCHANGED readers
  /\ UNCHANGED <<MainVars, intr, command, sock, owned, stopped>>

(* The user quits, or the session is over. *)
Quit ==
  /\ main \in {"await", "session"}
  /\ main' = "stop"
  /\ UNCHANGED <<MainVars, intr, command, sock, owned, stopped, readers>>

Stop ==
  /\ main = "stop"
  /\ stopped' = TRUE
  /\ Interrupt
  /\ main' = "join_readers"
  /\ UNCHANGED <<MainVars, owned, readers>>

ReaderEnds ==
  \E r \in readers:
    /\ sock[r] = "interrupted" \/ Failing
    /\ readers' = readers \ {r}
    /\ UNCHANGED <<MainVars, intr, command, sock, owned, main, stopped>>

Join ==
  /\ \/ main = "join_readers" /\ readers = {} /\ main' = "join"
     \/ main = "join" /\ pc.step = "end" /\ main' = "destroy"
  /\ UNCHANGED <<MainVars, intr, command, sock, owned, stopped, readers>>

(* Mutant: sc_server_destroy closes what the session has read. *)
ClosedAsRead == Needed

Destroyed == owned

Destroy ==
  /\ main = "destroy"
  /\ sock' = Close(Destroyed)
  /\ main' = "done"
  /\ UNCHANGED <<MainVars, intr, command, owned, stopped, readers>>

-----------------------------------------------------------------------------
Init ==
  /\ opt \in Options
  /\ pc = [step |-> "start-server", phase |-> "begin"]
  /\ port = 1 /\ tries = 0
  /\ intr = [interrupted |-> FALSE, process |-> FALSE, socket |-> "none"]
  /\ command = "none"
  /\ sock = [s \in Sockets |-> "none"] /\ owned = {}
  /\ tunnel = [enabled |-> FALSE, forward |-> FALSE]
  /\ proc = "none" /\ observer = "none" /\ posted = <<>>
  /\ main = "await" /\ stopped = FALSE /\ readers = {}

(* What the server thread does by itself, and what it waits for. *)
Thread ==
  \/ Spawn \/ ReadOutput \/ CheckInterrupted \/ Check
  \/ ServerStarted \/ DevicesListed \/ SwitchToTcpip \/ ConnectTcpip
  \/ Pushed \/ Reversed \/ Listen \/ Unreversed \/ Forwarded
  \/ Execute \/ Listed \/ Observe \/ TunnelClosed
  \/ ConnectTo \/ Register \/ Woken \/ Shut \/ Sleep \/ ReadInfo
  \/ Post \/ InterruptSockets \/ Watchdog \/ Terminate \/ JoinObserver
  \/ AdbKilled \/ Return
Answers == CommandEnds \/ Accepted \/ Connected \/ ReceivedByte \/ ReceivedInfo \/ Refused
Observer == Observed \/ OnTerminated
Main == AwaitServer \/ Stop \/ Join \/ Destroy

Next == Thread \/ Answers \/ Observer \/ ProcessDies \/ Main \/ Quit \/ ReaderEnds

Spec == Init /\ [][Next]_vars

(* The threads run; a reader ends when its socket is interrupted; the server
   process of --list-* ends, since it only prints.  Nothing else answers. *)
FairSpec ==
  /\ Spec
  /\ WF_vars(Thread) /\ WF_vars(Observer) /\ WF_vars(Main)
  /\ \A s \in Streams: WF_vars(sock[s] = "interrupted" /\ s \in readers /\ ReaderEnds)
  /\ WF_vars(opt.list /\ ProcessDies)

-----------------------------------------------------------------------------
(* What an interruption hits is what the thread waits for: a registered process
   has not been reaped, so its pid is its own (adb.c:191), a registered socket
   has not been closed, there is no more than one of them (intr.c:59), and none
   is left when the interruptor is destroyed (intr.c:79). *)
InterruptIsSafe ==
  /\ intr.process => command \in {"running", "ok", "failed"} /\ intr.socket = "none"
  /\ intr.socket # "none" => sock[intr.socket] \in {"open", "interrupted"}
  /\ main = "done" => ~intr.process /\ intr.socket = "none"

(* When the main thread has been told that the server is connected, the streams it
   is going to read are the server's, and open until they are interrupted or the
   server destroyed; if it was told that the connection failed, nothing is open. *)
AnnouncedStreams ==
  /\ "connected" \in Range(posted) =>
        /\ Needed \subseteq owned
        /\ main \notin {"done"} => \A s \in owned: sock[s] \in {"open", "interrupted"}
  /\ "failed" \in Range(posted) => \A s \in Sockets: sock[s] \in {"none", "closed"}

(* At the end no socket is left open, the server process is dead and reaped, and
   nobody observes it any more. *)
NothingLeft ==
  main = "done" =>
    /\ \A s \in Sockets: sock[s] \in {"none", "closed"}
    /\ proc \in {"none", "reaped"} /\ observer \in {"none", "joined"}
    /\ readers = {} /\ ~tunnel.enabled

(* The server thread is what the rest of the client takes it for; in particular
   a stop is always obeyed, even if adb, the device and its server hang. *)
Promise == INSTANCE ServerThread WITH
  phase <- IF posted = <<>> THEN "starting" ELSE posted[1],
  running <- pc.step # "end"
KeepsPromise == Promise!Spec

(* A promise that does not hold (README, Known deviations):
   "Wi-Fi mode: connect directly to phone, skip ADB entirely" (server.c:1181). *)
WifiSkipsAdb == opt.wifi => command = "none"
=============================================================================
