-------------------------- MODULE ServerLinkProofs --------------------------
(***************************************************************************)
(* Proofs about ServerLink, for every command line, list of devices, port  *)
(* range and number of attempts.                                           *)
(*                                                                         *)
(* LinkInv says, step by step of the server thread, what it may have       *)
(* registered with the interruptor (CommandInv), what the main thread has  *)
(* been told (MainInv), how far the server process and its observer are    *)
(* (ProcessInv), and which sockets are there (TunnelInv, SocketInv).  From *)
(* it follow the invariants the runs check, and, at the end, that every    *)
(* step of the thread is one that ServerThread allows, or is not seen.     *)
(***************************************************************************)
EXTENDS ServerLink, TLAPS

Steps == Commands \cup Streams
         \cup {"listen", "execute", "connect_to", "info", "connected", "failed", "wait",
               "watchdog", "terminate", "join_observer", "return", "end"}

CommandPhases == {"begin", "pipe", "reading", "check", "wait", "clear", "clear_ko",
                  "close", "close_ko", "ok", "ko"}
DialPhases == {"accept", "accepting", "begin", "connecting", "connect", "receiving",
               "shut", "sleep"}

PhasesOf(step) == CASE step \in Commands -> CommandPhases
                    [] step \in Streams -> DialPhases
                    [] step = "execute" -> {"begin", "list", "observe"}
                    [] step = "info" -> {"begin", "receiving"}
                    [] OTHER -> {"begin"}

Phases == CommandPhases \cup DialPhases \cup {"list", "observe"}

PcTyped == pc \in [step : Steps, phase : Phases] /\ pc.phase \in PhasesOf(pc.step)

TypeInv ==
  /\ opt \in Options
  /\ PcTyped
  /\ intr \in [interrupted : BOOLEAN, process : BOOLEAN, socket : Sockets \cup {"none"}]
  /\ command \in {"none", "running", "ok", "failed"}
  /\ sock \in [Sockets -> {"none", "open", "interrupted", "closed"}]
  /\ owned \subseteq Streams
  /\ tunnel \in [enabled : BOOLEAN, forward : BOOLEAN]
  /\ proc \in {"none", "running", "dead", "reaped"}
  /\ observer \in {"none", "waiting", "terminated", "ended", "joined"}
  /\ posted \in {<<>>, <<"connected">>, <<"failed">>, <<"listed">>}
  /\ main \in {"await", "session", "stop", "join_readers", "join", "destroy", "done"}
  /\ stopped \in BOOLEAN
  /\ readers \subseteq Streams

-----------------------------------------------------------------------------
(* What is registered is what the thread waits for, and it is still there.  *)

Alive(s) == sock[s] \in {"open", "interrupted"}

CommandInv ==
  /\ intr.interrupted => ~intr.process /\ intr.socket = "none"
  /\ intr.process => /\ intr.socket = "none" /\ pc.step \in Commands
                     /\ pc.phase \in {"reading", "wait", "clear", "clear_ko"}
  /\ pc.step \in Commands
     /\ pc.phase \in {"pipe", "reading", "check", "wait", "clear", "clear_ko"}
       => command # "none"
  /\ intr.socket # "none" => /\ Blocked /\ pc.step \in Streams \cup {"info"}
                             /\ intr.socket = Registered

(* What the main thread knows, and when it gets on. *)
MainInv ==
  /\ posted = <<>> => pc.step \notin {"wait", "watchdog", "kill_adb", "return", "end"}
  /\ posted # <<>> => pc.step \in {"wait", "watchdog", "join_observer", "kill_adb",
                                   "return", "end"}
  /\ pc.step \in {"wait", "watchdog", "kill_adb"} => posted = <<"connected">>
  /\ pc.step = "join_observer" => posted \in {<<>>, <<"connected">>}
  /\ posted = <<"connected">> => pc.step = "wait" \/ stopped
  /\ stopped <=> main \in {"join_readers", "join", "destroy", "done"}
  /\ main \in {"destroy", "done"} => pc.step = "end"
  /\ readers # {} => main \in {"session", "stop", "join_readers"}

(* The steps before there is a server, with it, and after it. *)
Early == {"start-server", "devices", "connect", "ip", "tcp_port", "poll", "disconnect",
          "tcpip", "push", "reverse", "unreverse", "listen", "forward"}

OverAdb == {"push", "reverse", "unreverse", "listen", "forward", "execute", "connect_to",
            "untunnel", "untunnel_fail", "untunnel_abort", "terminate", "watchdog",
            "join_observer"}

Tunnelling == {"reverse", "unreverse", "listen", "forward"}

Linked == pc.step \in Streams \cup {"info", "connected", "wait"}

NoServer == \/ pc.step \in Early \/ At("execute", "begin")
            \/ Linked /\ opt.wifi

WithServer == \/ pc.step \in {"connect_to", "untunnel", "untunnel_fail", "terminate",
                              "watchdog", "join_observer"}
              \/ Linked /\ ~opt.wifi

Over == pc.step \in {"untunnel_abort", "failed", "kill_adb_fail", "kill_adb", "return", "end"}

ProcessInv ==
  /\ NoServer => proc = "none" /\ observer = "none"
  /\ pc.step = "execute" /\ pc.phase # "begin" => proc \in {"running", "dead"} /\ observer = "none"
  /\ WithServer => observer \in {"waiting", "terminated", "ended"}
  /\ Over => proc \in {"none", "reaped"} /\ observer \in {"none", "joined"}
  /\ pc.step \in OverAdb => ~opt.wifi
  /\ pc.step = "execute" => (pc.phase = "list" => opt.list) /\ (pc.phase = "observe" => ~opt.list)
  /\ pc.step \in Tunnelling => ~opt.list

-----------------------------------------------------------------------------
(* The tunnel, and its listening socket. *)

Tunnelled == \/ pc.step \in {"untunnel", "untunnel_fail", "untunnel_abort", "connect_to"}
             \/ pc.step \in Streams /\ ~opt.wifi
             \/ pc.step = "execute" /\ ~opt.list

TunnelInv ==
  /\ tunnel.enabled <=> Tunnelled
  /\ pc.step \in Early => sock.listen = "none"
  /\ ~tunnel.enabled => ~Alive("listen")
  /\ tunnel.enabled => IF tunnel.forward THEN sock.listen = "none" ELSE Alive("listen")
  /\ pc.step \in Streams /\ pc.phase \in {"accept", "accepting"} => ~opt.wifi /\ ~tunnel.forward

(* A stream that has been dialled is there, or can be done without. *)
Served(s) == \/ Alive(s) /\ (opt.wifi => s \in owned)
             \/ ~Alive(s) /\ opt.wifi /\ s \in Optional

(* The steps that come after a failure. *)
Undone == \/ pc.step \in {"untunnel_fail", "terminate", "failed", "kill_adb_fail"}
          \/ pc.step = "join_observer" /\ posted = <<>>
          \/ posted \in {<<"failed">>, <<"listed">>}

SocketInv ==
  /\ pc.step \in Early \cup {"execute", "untunnel_abort", "connect_to"} =>
       \A s \in Streams : sock[s] = "none"
  /\ \A s \in Streams : sock[s] # "none" => s \in Dialled
  /\ pc.step \in Streams =>
       /\ pc.step \in Dialled /\ pc.step \notin owned
       /\ \A s \in Dialled : /\ Place[s] < Place[pc.step] => Served(s)
                             /\ Place[s] > Place[pc.step] => sock[s] = "none"
       /\ pc.phase \in {"connecting", "receiving"} => Alive(pc.step)
  /\ pc.step \in {"untunnel", "info"} => \A s \in Dialled : Served(s)
  /\ ~opt.wifi /\ pc.step \in Streams \cup {"untunnel", "info"} => owned = {}
  /\ pc.step = "connected" \/ posted = <<"connected">> =>
       /\ Needed \subseteq owned
       /\ \A s \in Streams : Alive(s) => s \in owned
  /\ Undone => owned = {} /\ \A s \in Streams : ~Alive(s)
  /\ main # "done" => \A s \in owned : Alive(s)
  /\ main = "done" => \A s \in Streams : ~Alive(s)

LinkInv == TypeInv /\ CommandInv /\ MainInv /\ ProcessInv /\ TunnelInv /\ SocketInv


-----------------------------------------------------------------------------
(* What the steps of the server thread share.                              *)

(* The first of some streams is one of them, and none comes before it. *)
LEMMA FirstIsFirst ==
  ASSUME NEW S \in SUBSET Streams, S # {}
  PROVE  First(S) \in S /\ \A t \in S : Place[First(S)] <= Place[t]
<1>1. \E s \in S : \A t \in S : Place[s] <= Place[t]
  <2>1. CASE "video" \in S
    BY <2>1 DEF Place, Streams
  <2>2. CASE "video" \notin S /\ "camera" \in S
    BY <2>2 DEF Place, Streams
  <2>3. CASE "video" \notin S /\ "camera" \notin S /\ "audio" \in S
    BY <2>3 DEF Place, Streams
  <2>4. CASE "video" \notin S /\ "camera" \notin S /\ "audio" \notin S /\ "speaker" \in S
    BY <2>4 DEF Place, Streams
  <2>5. CASE S = {"control"}
    BY <2>5 DEF Place, Streams
  <2> QED BY <2>1, <2>2, <2>3, <2>4, <2>5 DEF Streams
<1> QED BY <1>1 DEF First

LEMMA DialledFacts ==
  ASSUME opt \in Options
  PROVE  /\ Needed \subseteq Dialled /\ Dialled \subseteq Streams
         /\ FirstDialled \in Dialled
         /\ \A t \in Dialled : Place[FirstDialled] <= Place[t]
         /\ Needed \cap Optional = {} /\ InfoSocket \in Needed
         /\ ~opt.wifi => Dialled = Needed
<1>1. Needed # {} /\ Needed \subseteq Dialled /\ Dialled \subseteq Streams
  BY LinkAssumption DEF LinkAssumption, Needed, Dialled, Streams
<1>2. FirstDialled \in Dialled /\ \A t \in Dialled : Place[FirstDialled] <= Place[t]
  BY <1>1, FirstIsFirst DEF FirstDialled
<1>3. Needed \cap Optional = {} /\ InfoSocket \in Needed
  BY LinkAssumption DEF LinkAssumption, Needed, Optional, InfoSocket
<1>4. ~opt.wifi => Dialled = Needed
  BY DEF Dialled
<1> QED BY <1>1, <1>2, <1>3, <1>4

(* The stream that is dialled after s, or the step after the last one. *)
LEMMA NextStreamIs ==
  ASSUME opt \in Options, NEW s \in Streams, NextStream(s)
  PROVE  \/ \E t \in Dialled :
              /\ pc' = [step |-> t, phase |-> How(FALSE)]
              /\ Place[s] < Place[t]
              /\ \A u \in Dialled : Place[u] <= Place[s] \/ Place[t] <= Place[u]
         \/ /\ pc' = [step |-> IF opt.wifi THEN "info" ELSE "untunnel", phase |-> "begin"]
            /\ \A u \in Dialled : Place[u] <= Place[s]
<1> DEFINE later == {t \in Dialled : Place[t] > Place[s]}
<1>1. \A u \in Streams : Place[u] \in 1 .. 5
  BY DEF Place, Streams
<1>2. CASE later # {}
  <2>1. First(later) \in later /\ \A u \in later : Place[First(later)] <= Place[u]
    BY <1>2, FirstIsFirst, DialledFacts
  <2>2. pc' = [step |-> First(later), phase |-> How(FALSE)]
    BY <1>2 DEF NextStream, Goto
  <2>3. /\ First(later) \in Dialled /\ Place[s] < Place[First(later)]
        /\ \A u \in Dialled : Place[u] <= Place[s] \/ Place[First(later)] <= Place[u]
    BY <1>1, <2>1, DialledFacts
  <2> HIDE DEF later
  <2> QED BY <2>2, <2>3
<1>3. CASE later = {}
  <2>1. pc' = [step |-> IF opt.wifi THEN "info" ELSE "untunnel", phase |-> "begin"]
    BY <1>3 DEF NextStream, Goto, Call
  <2>2. \A u \in Dialled : Place[u] <= Place[s]
    BY <1>1, <1>3, DialledFacts
  <2> QED BY <2>1, <2>2
<1> QED BY <1>2, <1>3

LEMMA HowIs ==
  /\ How(TRUE) \in {"accept", "begin"} /\ How(FALSE) \in {"accept", "begin", "connect"}
  /\ \A first \in BOOLEAN : How(first) = "accept" => ~opt.wifi /\ ~tunnel.forward
BY DEF How

(* Registering and unregistering, once the interruptor has been used or before. *)
LEMMA WatchIs ==
  ASSUME TypeInv, NEW p \in BOOLEAN, NEW s \in Sockets \cup {"none"}, Watch(p, s)
  PROVE  /\ intr' \in [interrupted : BOOLEAN, process : BOOLEAN,
                       socket : Sockets \cup {"none"}]
         /\ intr'.interrupted = intr.interrupted
         /\ intr.interrupted => intr' = intr
         /\ ~intr.interrupted => intr'.process = p /\ intr'.socket = s
BY DEF TypeInv, Watch

(* An interruption touches what is registered, and nothing else. *)
LEMMA InterruptIs ==
  ASSUME TypeInv, CommandInv, Interrupt
  PROVE  /\ intr' = [interrupted |-> TRUE, process |-> FALSE, socket |-> "none"]
         /\ command' \in {command, "failed"} /\ (command = "none" => command' = "none")
         /\ sock' \in [Sockets -> {"none", "open", "interrupted", "closed"}]
         /\ \A s \in Sockets : \/ sock'[s] = sock[s]
                               \/ s = intr.socket /\ sock'[s] = "interrupted"
BY DEF TypeInv, CommandInv, Interrupt

LEMMA CloseIs ==
  ASSUME TypeInv, NEW ss \in SUBSET Sockets
  PROVE  /\ Close(ss) \in [Sockets -> {"none", "open", "interrupted", "closed"}]
         /\ \A s \in Sockets : Close(ss)[s] = IF s \in ss /\ Alive(s) THEN "closed" ELSE sock[s]
BY DEF TypeInv, Close, Alive

(* fail: where the thread goes, and what is closed. *)
LEMMA FailedIs ==
  ASSUME TypeInv, Failed
  PROVE  /\ pc' \in {[step |-> "untunnel_fail", phase |-> "begin"],
                     [step |-> "terminate", phase |-> "begin"],
                     [step |-> "kill_adb_fail", phase |-> "begin"],
                     [step |-> "failed", phase |-> "begin"]}
         /\ opt.wifi <=> pc'.step \in {"kill_adb_fail", "failed"}
         /\ pc'.step \in {"untunnel_fail", "terminate"} =>
              (pc'.step = "untunnel_fail" <=> tunnel.enabled)
         /\ sock' \in [Sockets -> {"none", "open", "interrupted", "closed"}]
         /\ sock'.listen = sock.listen
         /\ \A s \in Streams : sock'[s] \notin {"open", "interrupted"} /\ (sock[s] = "none" => sock'[s] = "none")
         /\ owned' = {}
<1>1. sock' = Close(Streams) /\ owned' = {}
  BY DEF Failed, FailedStreams
<1>2. \A s \in Streams : Close(Streams)[s] \notin {"open", "interrupted"}
                         /\ (sock[s] = "none" => Close(Streams)[s] = "none")
  BY CloseIs DEF TypeInv, Alive, Sockets
<1>3. Close(Streams).listen = sock.listen
  BY CloseIs DEF Sockets, Streams
<1>4. Close(Streams) \in [Sockets -> {"none", "open", "interrupted", "closed"}]
  BY CloseIs DEF Sockets
<1> QED BY <1>1, <1>2, <1>3, <1>4 DEF Failed, Fail, Call, Goto

LEMMA GotoIs ==
  ASSUME NEW step \in Steps, NEW phase \in PhasesOf(step), Goto(step, phase)
  PROVE  /\ pc' = [step |-> step, phase |-> phase]
         /\ PcTyped'
<1>1. phase \in Phases
  BY DEF PhasesOf, Phases, CommandPhases, DialPhases
<1> QED BY <1>1 DEF Goto, PcTyped

LEMMA HaveSerialIs ==
  ASSUME opt \in Options, HaveSerial
  PROVE  pc' = [step |-> IF opt.wifi THEN FirstDialled ELSE "push", phase |-> "begin"]
BY DEF HaveSerial, Call, Goto

(* Dialling: the thread gives up, or gets on to the next stream, or stays with
   this one. *)
Dials == Register \/ Woken \/ Refused \/ Shut \/ Sleep \/ Accepted \/ Connected \/ ReceivedByte

Stays ==
  /\ pc.step \in Streams /\ pc' = [step |-> pc.step, phase |-> pc'.phase]
  /\ pc'.phase \in {"accepting", "connecting", "receiving", "shut", "sleep", "begin"}
  /\ pc'.phase = "accepting" => pc.phase = "accept"
  /\ sock'.listen = sock.listen

GetsOn == pc.step \in Streams /\ NextStream(pc.step) /\ sock'.listen = sock.listen

LEMMA DialIs ==
  ASSUME TypeInv, Dials
  PROVE  UNCHANGED SocketVars /\ pc.step \in Streams \cup {"info"}
         /\ (Failed \/ GetsOn \/ Stays)
<1>1. \A s \in Streams : Close({s}).listen = sock.listen
  BY CloseIs DEF Sockets, Streams
<1>2. pc.phase \in {"shut", "sleep", "accept", "accepting", "connecting", "connect"}
        => pc.step \in Streams
  BY DEF TypeInv, PcTyped, PhasesOf, CommandPhases, Streams
<1>2a. pc.phase = "receiving" => pc.step \in Streams \cup {"info"}
  BY DEF TypeInv, PcTyped, PhasesOf, CommandPhases
<1>2b. pc \in [step : Steps, phase : Phases] /\ "listen" \notin Streams
  BY DEF TypeInv, PcTyped, Streams
<1>2c. sock \in [Sockets -> {"none", "open", "interrupted", "closed"}] /\ Streams \subseteq Sockets
       /\ "listen" \in Sockets
  BY DEF TypeInv, Sockets
<1>3. CASE Register
  <2>1. UNCHANGED SocketVars /\ pc.step \in Streams
    BY <1>3 DEF Register
  <2>2. CASE pc.phase = "accept" /\ Interrupted
    BY <1>3, <2>1, <2>2 DEF Register
  <2>3. CASE pc.phase = "accept" /\ ~Interrupted
    <3>1. pc' = [step |-> pc.step, phase |-> "accepting"] /\ sock' = sock
      BY <1>3, <2>3 DEF Register, Phase, Goto
    <3> QED BY <2>1, <2>3, <3>1 DEF Stays
  <2>4. CASE pc.phase # "accept"
    <3>1. pc'.step = pc.step /\ pc' = [step |-> pc.step, phase |-> pc'.phase]
          /\ pc'.phase \in {"shut", "connecting"}
      BY <1>3, <2>4 DEF Register, Phase, Goto
    <3>2. sock'.listen = sock.listen
      BY <1>3, <2>4, <1>2b, <1>2c DEF Register
    <3> QED BY <2>1, <2>4, <3>1, <3>2 DEF Stays
  <2> QED BY <2>2, <2>3, <2>4
<1>4. ASSUME Blocked, NoAnswer PROVE UNCHANGED SocketVars /\ (Failed \/ Stays)
  BY <1>4, <1>2, <1>2a, <1>2b DEF Blocked, NoAnswer, Phase, Goto, Stays
<1>5. CASE Woken \/ Refused
  BY <1>4, <1>5, <1>2, <1>2a DEF Woken, Refused, Blocked
<1>6. ASSUME GiveUp, pc.step \in Streams PROVE Failed \/ GetsOn
  BY <1>1, <1>6 DEF GiveUp, GetsOn
<1>7. CASE Shut
  BY <1>1, <1>2, <1>2b, <1>6, <1>7 DEF Shut, Phase, Goto, Stays
<1>8. CASE Sleep
  BY <1>1, <1>2, <1>2b, <1>6, <1>8 DEF Sleep, Phase, Goto, Stays
<1>9. CASE Accepted
  BY <1>2, <1>2b, <1>2c, <1>9 DEF Accepted, GetsOn
<1>10. CASE Connected
  <2>1. UNCHANGED SocketVars /\ pc.step \in Streams /\ sock' = sock
    BY <1>2, <1>10 DEF Connected
  <2>2. CASE Retried(pc.step)
    <3>1. pc' = [step |-> pc.step, phase |-> pc'.phase] /\ pc'.phase \in {"shut", "receiving"}
      BY <1>10, <2>2 DEF Connected, Phase, Goto
    <3> QED BY <2>1, <3>1 DEF Stays
  <2>3. CASE ~Retried(pc.step)
    BY <1>10, <2>1, <2>3 DEF Connected, GetsOn
  <2> QED BY <2>2, <2>3
<1>11. CASE ReceivedByte
  BY <1>2, <1>2b, <1>2c, <1>11 DEF ReceivedByte, GetsOn
<1> QED BY <1>3, <1>5, <1>7, <1>8, <1>9, <1>10, <1>11 DEF Dials

LEMMA CommandPc ==
  ASSUME TypeInv, pc.step \in Commands,
         NEW phase \in CommandPhases, pc' = [step |-> pc.step, phase |-> phase]
  PROVE  PcTyped'
<1>1. pc.step \in Steps /\ phase \in Phases
  BY DEF Steps, Phases
<1>2. PhasesOf(pc.step) = CommandPhases
  BY DEF PhasesOf, Commands, Piped, Streams
<1> QED BY <1>1, <1>2 DEF PcTyped

LEMMA DialPc ==
  ASSUME NEW s \in Streams, NEW phase \in DialPhases, pc' = [step |-> s, phase |-> phase]
  PROVE  PcTyped'
BY DEF PcTyped, Steps, Phases, PhasesOf, DialPhases, Streams, Commands, Piped

(* The steps that have one phase only, or begin. *)
LEMMA BeginPc ==
  ASSUME NEW s \in Steps, pc' = [step |-> s, phase |-> "begin"]
  PROVE  PcTyped'
BY DEF PcTyped, Steps, Phases, PhasesOf, CommandPhases, DialPhases

LEMMA InfoIsStream == InfoSocket \in Sockets /\ Streams \subseteq Sockets
BY DEF InfoSocket, Sockets, Streams

(* The types of the variables, through every step. *)
LEMMA DialType == LinkInv /\ Dials => TypeInv'
<1> SUFFICES ASSUME LinkInv, Dials PROVE TypeInv'
  OBVIOUS
<1> USE DEF LinkInv
<1>1. PcTyped'
  <2>1. CASE Failed
    BY <2>1, FailedIs DEF PcTyped, Steps, Phases, PhasesOf, Commands, Piped, CommandPhases, Streams
  <2>2. CASE GetsOn
    <3>1. pc.step \in Streams /\ NextStream(pc.step)
      BY <2>2 DEF GetsOn
    <3>2. CASE \E t \in Dialled : pc' = [step |-> t, phase |-> How(FALSE)]
      BY <3>2, DialledFacts, HowIs, DialPc DEF TypeInv, DialPhases
    <3>3. CASE pc' = [step |-> IF opt.wifi THEN "info" ELSE "untunnel", phase |-> "begin"]
      BY <3>3 DEF PcTyped, Steps, Phases, PhasesOf, Commands, Piped, CommandPhases, Streams
    <3> QED BY <3>1, <3>2, <3>3, NextStreamIs DEF TypeInv
  <2>3. CASE Stays
    <3>1. pc.step \in Streams /\ pc' = [step |-> pc.step, phase |-> pc'.phase]
          /\ pc'.phase \in DialPhases
      BY <2>3 DEF Stays, DialPhases
    <3> QED BY <3>1, DialPc
  <2> QED BY <2>1, <2>2, <2>3, DialIs
<1>2. intr' \in [interrupted : BOOLEAN, process : BOOLEAN, socket : Sockets \cup {"none"}]
  <2>1. pc.phase \in {"accept", "begin", "connect", "connecting"} /\ pc.step \in Streams
          => pc.step \in Sockets
    BY InfoIsStream
  <2>2. Connected => pc.step \in Streams
    BY DEF Connected, TypeInv, PcTyped, PhasesOf, CommandPhases, Streams
  <2>3. CASE UNCHANGED intr \/ Unregister
    BY <2>3, WatchIs DEF Unregister, TypeInv
  <2>4. ASSUME NEW s \in Sockets, Watch(FALSE, s)
        PROVE  intr' \in [interrupted : BOOLEAN, process : BOOLEAN, socket : Sockets \cup {"none"}]
    BY <2>4, WatchIs
  <2>5. "listen" \in Sockets
    BY DEF Sockets
  <2> QED BY <2>1, <2>2, <2>3, <2>4, <2>5 DEF Dials, Register, Woken, Refused, NoAnswer, Shut,
                          Sleep, Accepted, Connected, ReceivedByte
<1>0. sock \in [Sockets -> {"none", "open", "interrupted", "closed"}] /\ owned \subseteq Streams
  BY DEF TypeInv
<1>3. /\ sock' \in [Sockets -> {"none", "open", "interrupted", "closed"}]
      /\ owned' \subseteq Streams
  <2>1. CASE Failed
    BY <2>1, FailedIs
  <2>2. \A s \in Streams :
          Close({s}) \in [Sockets -> {"none", "open", "interrupted", "closed"}]
    BY CloseIs, InfoIsStream
  <2>3. [sock EXCEPT ![pc.step] = "open"] \in [Sockets -> {"none", "open", "interrupted", "closed"}]
    BY DEF TypeInv
  <2>4. GiveUp /\ pc.step \in Streams /\ ~Failed => sock' = Close({pc.step}) /\ owned' = owned
    BY DEF GiveUp
  <2>5. pc.phase \in {"shut", "sleep"} => pc.step \in Streams
    BY DEF TypeInv, PcTyped, PhasesOf, CommandPhases, Streams
  <2>6. CASE Register
    BY <1>0, <2>1, <2>3, <2>6 DEF Register
  <2>7. CASE Shut \/ Sleep
    BY <1>0, <2>1, <2>2, <2>4, <2>5, <2>7 DEF Shut, Sleep
  <2>8. CASE Accepted \/ Connected
    BY <1>0, <2>3, <2>8 DEF Accepted, Connected
  <2>9. CASE ReceivedByte
    BY <1>0, <2>9 DEF ReceivedByte
  <2>10. CASE Woken \/ Refused
    BY <1>0, <2>1, <2>10 DEF Woken, Refused, NoAnswer
  <2> QED BY <2>6, <2>7, <2>8, <2>9, <2>10 DEF Dials
<1> QED BY <1>1, <1>2, <1>3, DialIs DEF SocketVars, TypeInv

LEMMA TypeStep == LinkInv /\ [Next]_vars => TypeInv'
<1> SUFFICES ASSUME LinkInv, [Next]_vars PROVE TypeInv'
  OBVIOUS
<1> USE DEF LinkInv
<1>1. CASE Spawn
  BY <1>1 DEF TypeInv, Spawn, Phase, Rest, Piped, Commands, Goto, PcTyped, Phases,
    PhasesOf, CommandPhases, DialPhases, Steps, Streams, Sockets
<1>2. CASE ReadOutput
  <2>1. pc.step \in Commands /\ UNCHANGED <<command, Rest>>
    BY <1>2 DEF ReadOutput
  <2>2. \E phase \in CommandPhases : pc' = [step |-> pc.step, phase |-> phase]
    BY <1>2 DEF ReadOutput, Phase, Goto, CommandPhases
  <2>3. PcTyped'
    BY <2>1, <2>2, CommandPc
  <2>4. intr' \in [interrupted : BOOLEAN, process : BOOLEAN, socket : Sockets \cup {"none"}]
    BY <1>2, WatchIs DEF ReadOutput
  <2> QED BY <2>1, <2>3, <2>4 DEF TypeInv, Rest
<1>3. CASE CheckInterrupted
  BY <1>3 DEF TypeInv, CheckInterrupted, Phase, Rest, Commands, Goto, Piped,
    PcTyped, Phases, PhasesOf, CommandPhases, DialPhases, Steps, Streams, Sockets
<1>4. CASE Check
  <2>1. pc.step \in Commands /\ UNCHANGED Rest
    BY <1>4 DEF Check
  <2>2. \E phase \in CommandPhases : pc' = [step |-> pc.step, phase |-> phase]
    BY <1>4 DEF Check, Phase, Goto, CommandPhases
  <2>3. PcTyped'
    BY <2>1, <2>2, CommandPc
  <2>4. intr' \in [interrupted : BOOLEAN, process : BOOLEAN, socket : Sockets \cup {"none"}]
    BY <1>4, WatchIs DEF Check, TypeInv
  <2>5. command' \in {command, "none"}
    BY <1>4 DEF Check, Waited
  <2> QED BY <2>1, <2>3, <2>4, <2>5 DEF TypeInv, Rest
<1>5. CASE ServerStarted
  BY <1>5 DEF TypeInv, ServerStarted, Call, Ko, Done, Fail, Selecting, Goto, At, Ok,
    StepVars, PcTyped, Phases, PhasesOf, CommandPhases, DialPhases, Steps, Streams,
    Sockets, Commands, Piped
<1>6. CASE DevicesListed
  <2>1. UNCHANGED Selecting
    BY <1>6 DEF DevicesListed
  <2>2. CASE HaveSerial
    <3>1. IF opt.wifi THEN pc' = [step |-> FirstDialled, phase |-> "begin"]
                      ELSE pc' = [step |-> "push", phase |-> "begin"]
      BY <2>2, HaveSerialIs DEF TypeInv
    <3>2. FirstDialled \in Streams
      BY DialledFacts DEF TypeInv
    <3>3. PcTyped'
      BY <3>1, <3>2, BeginPc DEF Steps, Commands
    <3> QED BY <2>1, <3>3 DEF TypeInv, Selecting, StepVars
  <2>3. CASE ~HaveSerial
    <3>1. pc' \in {[step |-> s, phase |-> "begin"] : s \in {"ip", "connect", "kill_adb_fail", "failed"}}
      BY <1>6, <2>3 DEF DevicesListed, Call, Goto, Fail
    <3>2. PcTyped'
      BY <3>1 DEF PcTyped, Steps, Phases, PhasesOf, Commands, Piped, CommandPhases, Streams
    <3> QED BY <2>1, <3>2 DEF TypeInv, Selecting, StepVars
  <2> QED BY <2>2, <2>3
<1>7. CASE SwitchToTcpip
  BY <1>7 DEF TypeInv, SwitchToTcpip, Call, Ok, Ko, Done, Fail, Selecting, Goto, At,
    StepVars, PcTyped, Phases, PhasesOf, CommandPhases, DialPhases, Steps, Streams,
    Sockets, Commands, Piped
<1>8. CASE ConnectTcpip
  <2>1. UNCHANGED Selecting
    BY <1>8 DEF ConnectTcpip
  <2>2. CASE HaveSerial
    <3>1. IF opt.wifi THEN pc' = [step |-> FirstDialled, phase |-> "begin"]
                      ELSE pc' = [step |-> "push", phase |-> "begin"]
      BY <2>2, HaveSerialIs DEF TypeInv
    <3>2. FirstDialled \in Streams
      BY DialledFacts DEF TypeInv
    <3>3. PcTyped'
      BY <3>1, <3>2, BeginPc DEF Steps, Commands
    <3> QED BY <2>1, <3>3 DEF TypeInv, Selecting, StepVars
  <2>3. CASE ~HaveSerial
    <3>1. pc' \in {[step |-> s, phase |-> "begin"] : s \in {"ip", "connect", "kill_adb_fail", "failed"}}
      BY <1>8, <2>3 DEF ConnectTcpip, Call, Goto, Fail
    <3>2. PcTyped'
      BY <3>1 DEF PcTyped, Steps, Phases, PhasesOf, Commands, Piped, CommandPhases, Streams
    <3> QED BY <2>1, <3>2 DEF TypeInv, Selecting, StepVars
  <2> QED BY <2>2, <2>3
<1>9. CASE Pushed
  BY <1>9 DEF TypeInv, Pushed, Call, Ko, Done, Fail, StepVars, Forward, Goto, At,
    Ok, PcTyped, Phases, PhasesOf, CommandPhases, DialPhases, Steps, Streams,
    Sockets, Commands, Piped
<1>10. CASE Reversed
  BY <1>10 DEF TypeInv, Reversed, Call, Ko, Done, StepVars, Forward, Goto, At, Ok,
    PcTyped, Phases, PhasesOf, CommandPhases, DialPhases, Steps, Streams, Sockets,
    Commands, Piped
<1>11. CASE Listen
  <2>1. pc' \in {[step |-> s, phase |-> "begin"] : s \in {"execute", "forward", "unreverse"}}
    BY <1>11 DEF Listen, Forward, Call, Goto
  <2>2. PcTyped'
    BY <2>1 DEF PcTyped, Steps, Phases, PhasesOf, Commands, Piped, CommandPhases, Streams
  <2>3. \/ UNCHANGED <<sock, tunnel>>
        \/ /\ sock' = [sock EXCEPT !.listen = "open"]
           /\ tunnel' = [enabled |-> TRUE, forward |-> FALSE]
    BY <1>11 DEF Listen
  <2>4. sock' \in [Sockets -> {"none", "open", "interrupted", "closed"}]
    BY <2>3 DEF TypeInv, Sockets
  <2>5. tunnel' \in [enabled : BOOLEAN, forward : BOOLEAN]
    <3>1. CASE tunnel' = tunnel
      BY <3>1 DEF TypeInv
    <3>2. CASE tunnel' = [enabled |-> TRUE, forward |-> FALSE]
      BY <3>2
    <3> QED BY <2>3, <3>1, <3>2
  <2> QED BY <1>11, <2>2, <2>4, <2>5 DEF Listen, StepVars, TypeInv
<1>12. CASE Unreversed
  BY <1>12 DEF TypeInv, Unreversed, Call, Done, StepVars, Forward, Goto, Ok, Ko, At,
    PcTyped, Phases, PhasesOf, CommandPhases, DialPhases, Steps, Streams, Sockets,
    Commands, Piped
<1>13. CASE Forwarded
  <2>1. pc' \in {[step |-> s, phase |-> "begin"] : s \in {"execute", "forward", "kill_adb_fail", "failed"}}
    BY <1>13 DEF Forwarded, Fail, Call, Goto
  <2>2. PcTyped'
    BY <2>1 DEF PcTyped, Steps, Phases, PhasesOf, Commands, Piped, CommandPhases, Streams
  <2>3. \/ tunnel' = [enabled |-> TRUE, forward |-> TRUE]
        \/ tunnel' = [tunnel EXCEPT !.forward = TRUE]
    BY <1>13 DEF Forwarded
  <2>4. tunnel' \in [enabled : BOOLEAN, forward : BOOLEAN]
    <3>1. CASE tunnel' = [enabled |-> TRUE, forward |-> TRUE]
      BY <3>1
    <3>2. CASE tunnel' = [tunnel EXCEPT !.forward = TRUE]
      BY <3>2 DEF TypeInv
    <3> QED BY <2>3, <3>1, <3>2
  <2> QED BY <1>13, <2>2, <2>4 DEF Forwarded, StepVars, TypeInv
<1>14. CASE Execute
  BY <1>14 DEF TypeInv, Execute, At, Goto, Call, Fail, StepVars, PcTyped, Phases,
    PhasesOf, CommandPhases, DialPhases, Steps, Streams, Sockets, Commands, Piped
<1>15. CASE Listed
  <2>1. posted = <<>>
    BY <1>15 DEF Listed, At, LinkInv, MainInv, TypeInv
  <2>2. posted' = <<"listed">>
    BY <1>15, <2>1 DEF Listed
  <2>3. pc' = [step |-> "return", phase |-> "begin"]
    BY <1>15 DEF Listed, Call, Goto
  <2>4. PcTyped'
    BY <2>3 DEF PcTyped, Steps, Phases, PhasesOf, Commands, Piped, CommandPhases, Streams
  <2>5. UNCHANGED <<StepVars, sock, owned, tunnel>> /\ proc' = "reaped"
    BY <1>15 DEF Listed
  <2> QED BY <2>2, <2>4, <2>5 DEF StepVars, TypeInv
<1>16. CASE Observe
  BY <1>16 DEF TypeInv, Observe, At, Call, Goto, PcTyped, Phases, PhasesOf,
    CommandPhases, DialPhases, Steps, Streams, Sockets, Commands, Piped
<1>17. CASE TunnelClosed
  <2>1. pc' \in {[step |-> s, phase |-> "begin"] : s \in {"info", "terminate", "kill_adb_fail", "failed"}}
    BY <1>17 DEF TunnelClosed, Fail, Call, Goto
  <2>2. PcTyped'
    BY <2>1 DEF PcTyped, Steps, Phases, PhasesOf, Commands, Piped, CommandPhases, Streams
  <2>3. /\ sock' \in [Sockets -> {"none", "open", "interrupted", "closed"}]
        /\ tunnel' \in [enabled : BOOLEAN, forward : BOOLEAN]
    BY <1>17 DEF TunnelClosed, TypeInv
  <2> QED BY <1>17, <2>2, <2>3 DEF TunnelClosed, StepVars, TypeInv
<1>18. CASE ConnectTo
  <2>1. /\ pc' = [step |-> FirstDialled, phase |-> How(TRUE)]
        /\ UNCHANGED <<StepVars, port, sock, owned, tunnel, proc, posted>>
    BY <1>18 DEF ConnectTo, Goto
  <2>2. FirstDialled \in Streams
    BY DialledFacts DEF TypeInv
  <2>3. PcTyped'
    BY <2>1, <2>2, HowIs, DialPc DEF DialPhases
  <2> QED BY <2>1, <2>3 DEF TypeInv, StepVars
<1>19. CASE ReadInfo
  <2>1. CASE Failed
    <3>1. PcTyped'
      BY <2>1, FailedIs DEF PcTyped, Steps, Phases, PhasesOf, Commands, Piped, CommandPhases, Streams
    <3>2. intr' \in [interrupted : BOOLEAN, process : BOOLEAN, socket : Sockets \cup {"none"}]
      BY <1>19, WatchIs, InfoIsStream DEF ReadInfo, TypeInv
    <3> QED BY <1>19, <2>1, <3>1, <3>2, FailedIs DEF ReadInfo, SocketVars, TypeInv
  <2>2. CASE ~Failed
    <3>1. pc' \in {[step |-> "connected", phase |-> "begin"], [step |-> "info", phase |-> "receiving"]}
          /\ sock' = sock /\ owned' = owned
      BY <1>19, <2>2 DEF ReadInfo, At, Phase, Call, Goto
    <3>2. PcTyped'
      BY <3>1 DEF PcTyped, Steps, Phases, PhasesOf, Commands, Piped, CommandPhases, DialPhases, Streams
    <3>3. intr' \in [interrupted : BOOLEAN, process : BOOLEAN, socket : Sockets \cup {"none"}]
      BY <1>19, WatchIs, InfoIsStream DEF ReadInfo, TypeInv
    <3> QED BY <1>19, <3>1, <3>2, <3>3 DEF ReadInfo, SocketVars, TypeInv
  <2> QED BY <2>1, <2>2
<1>20. CASE Post
  <2>1. posted = <<>>
    BY <1>20 DEF Post, LinkInv, MainInv, TypeInv
  <2>2. posted' \in {<<"connected">>, <<"failed">>}
    BY <1>20, <2>1 DEF Post
  <2>3. pc' \in {[step |-> "wait", phase |-> "begin"], [step |-> "return", phase |-> "begin"]}
    BY <1>20 DEF Post, Call, Goto
  <2>4. PcTyped'
    BY <2>3 DEF PcTyped, Steps, Phases, PhasesOf, Commands, Piped, CommandPhases, Streams
  <2> QED BY <1>20, <2>2, <2>4 DEF Post, EndVars, TypeInv
<1>21. CASE InterruptSockets
  BY <1>21 DEF TypeInv, InterruptSockets, At, Call, EndVars, WaitedForStop, Sockets,
    Goto, Streams, PcTyped, Phases, PhasesOf, CommandPhases, DialPhases, Steps,
    Commands, Piped
<1>22. CASE Watchdog
  BY <1>22 DEF TypeInv, Watchdog, At, Call, EndVars, Killed, Goto, PcTyped, Phases,
    PhasesOf, CommandPhases, DialPhases, Steps, Streams, Sockets, Commands, Piped
<1>23. CASE Terminate
  BY <1>23 DEF TypeInv, Terminate, At, Call, EndVars, Goto, PcTyped, Phases,
    PhasesOf, CommandPhases, DialPhases, Steps, Streams, Sockets, Commands, Piped
<1>24. CASE JoinObserver
  BY <1>24 DEF TypeInv, JoinObserver, At, Call, Fail, EndVars, Goto, PcTyped,
    Phases, PhasesOf, CommandPhases, DialPhases, Steps, Streams, Sockets, Commands,
    Piped
<1>25. CASE AdbKilled
  BY <1>25 DEF TypeInv, AdbKilled, Call, Done, EndVars, Goto, Ok, Ko, At, PcTyped,
    Phases, PhasesOf, CommandPhases, DialPhases, Steps, Streams, Sockets, Commands,
    Piped
<1>26. CASE Return
  BY <1>26 DEF TypeInv, Return, At, Call, EndVars, Goto, PcTyped, Phases, PhasesOf,
    CommandPhases, DialPhases, Steps, Streams, Sockets, Commands, Piped
<1>27. CASE CommandEnds
  BY <1>27 DEF TypeInv, PcTyped, CommandEnds, Rest
<1>28. CASE ReceivedInfo
  <2>1. pc' = [step |-> "connected", phase |-> "begin"] /\ owned' = owned \cup Needed /\ sock' = sock
    BY <1>28 DEF ReceivedInfo, Call, Goto
  <2>2. owned' \subseteq Streams
    BY <2>1, DialledFacts DEF TypeInv
  <2>3. PcTyped'
    BY <2>1 DEF PcTyped, Steps, Phases, PhasesOf, Commands, Piped, CommandPhases, DialPhases, Streams
  <2>4. intr' \in [interrupted : BOOLEAN, process : BOOLEAN, socket : Sockets \cup {"none"}]
    BY <1>28, WatchIs DEF ReceivedInfo, Unregister
  <2> QED BY <1>28, <2>1, <2>2, <2>3, <2>4 DEF ReceivedInfo, SocketVars, TypeInv
<1>29. CASE Observed
  BY <1>29 DEF TypeInv, Observed, EndVars, PcTyped, Streams, Sockets
<1>30. CASE OnTerminated
  BY <1>30 DEF TypeInv, OnTerminated, Interrupt, PcTyped, Streams, Sockets
<1>31. CASE AwaitServer
  <2>1. readers' \subseteq Streams
    BY <1>31, DialledFacts DEF AwaitServer, TypeInv
  <2>2. main' \in {"session", "stop"} /\ UNCHANGED <<MainVars, intr, command, sock, owned, stopped>>
    BY <1>31 DEF AwaitServer
  <2> QED BY <2>1, <2>2 DEF MainVars, TypeInv, PcTyped
<1>32. CASE Stop
  BY <1>32 DEF TypeInv, Stop, Interrupt, MainVars, PcTyped, Streams, Sockets
<1>33. CASE Join
  BY <1>33 DEF TypeInv, Join, MainVars, PcTyped, Streams, Sockets
<1>34. CASE Destroy
  BY <1>34 DEF TypeInv, Destroy, Close, MainVars, Destroyed, Sockets, Streams,
    PcTyped
<1>35. CASE ProcessDies
  BY <1>35 DEF TypeInv, ProcessDies, EndVars, PcTyped, Streams, Sockets
<1>36. CASE Quit
  BY <1>36 DEF TypeInv, Quit, MainVars, PcTyped, Streams, Sockets
<1>37. CASE ReaderEnds
  BY <1>37 DEF TypeInv, ReaderEnds, MainVars, PcTyped, Streams, Sockets
<1>38. CASE Dials
  BY <1>38, DialType
<1>39. CASE UNCHANGED vars
  BY <1>39 DEF vars, TypeInv, PcTyped
<1> QED BY <1>1, <1>2, <1>3, <1>4, <1>5, <1>6, <1>7, <1>8, <1>9, <1>10, <1>11,
           <1>12, <1>13, <1>14, <1>15, <1>16, <1>17, <1>18, <1>19, <1>20, <1>21,
           <1>22, <1>23, <1>24, <1>25, <1>26, <1>27, <1>28, <1>29, <1>30, <1>31,
           <1>32, <1>33, <1>34, <1>35, <1>36, <1>37, <1>38, <1>39
        DEF Next, Thread, Answers, Observer, Main, Dials

(* After an unregistration nothing is registered. *)
LEMMA UnregisterIs ==
  ASSUME TypeInv, CommandInv, Unregister
  PROVE  ~intr'.process /\ intr'.socket = "none" /\ intr'.interrupted = intr.interrupted
BY WatchIs DEF Unregister, CommandInv

LEMMA NextLeaves ==
  ASSUME TypeInv, pc.step \in Streams, NextStream(pc.step)
  PROVE  pc'.step \notin Commands \/ pc'.phase = "begin"
<1>1. \A t \in Streams : t \notin Commands
  BY DEF Streams, Commands, Piped
<1>1a. \A t \in Dialled : t \notin Commands
  BY <1>1, DialledFacts DEF TypeInv
<1>2. CASE \E t \in Dialled : pc' = [step |-> t, phase |-> How(FALSE)]
  BY <1>1a, <1>2 DEF How
<1>3. CASE pc' = [step |-> IF opt.wifi THEN "info" ELSE "untunnel", phase |-> "begin"]
  BY <1>3
<1> QED BY <1>2, <1>3, NextStreamIs DEF TypeInv

(* The phases of a command, and of a stream. *)
LEMMA PhasesAre ==
  ASSUME TypeInv
  PROVE  /\ pc.step \in Commands => pc.phase \in CommandPhases
         /\ pc.step \in Streams => pc.phase \in DialPhases
         /\ Commands \cap (Streams \cup {"info"}) = {}
BY DEF TypeInv, PcTyped, PhasesOf, Streams, Commands, Piped

(* The interruptor and the adb process, through every step. *)
LEMMA CommandStep == LinkInv /\ [Next]_vars => CommandInv'
<1> SUFFICES ASSUME LinkInv, [Next]_vars PROVE CommandInv'
  OBVIOUS
<1> USE DEF LinkInv
<1>0. pc.step \notin Commands => ~intr.process
  BY DEF CommandInv
<1>1. CASE Spawn
  BY <1>1 DEF Spawn, Phase, Rest, Piped, Commands, Goto, CommandInv, TypeInv,
    PcTyped, PhasesOf, CommandPhases, DialPhases, Blocked, Registered, InfoSocket,
    Needed, Streams
<1>2. CASE ReadOutput
  <2>1. pc.step \in Commands /\ intr.socket = "none" /\ command' = command
    BY <1>2 DEF ReadOutput, CommandInv, Commands, Piped, Streams
  <2>2. CASE pc.phase = "pipe"
    <3>1. pc' = [step |-> pc.step, phase |-> IF intr.interrupted THEN "check" ELSE "reading"]
          /\ Watch(TRUE, "none")
      BY <1>2, <2>2 DEF ReadOutput, Phase, Goto
    <3>2. command # "none" /\ intr'.socket = "none" /\ intr'.interrupted = intr.interrupted
          /\ (intr.interrupted => intr' = intr)
      BY <2>1, <2>2, <3>1, WatchIs DEF CommandInv
    <3> QED BY <2>1, <3>1, <3>2 DEF CommandInv
  <2>3. CASE pc.phase = "reading"
    <3>1. pc' = [step |-> pc.step, phase |-> "check"] /\ Watch(FALSE, "none")
      BY <1>2, <2>3 DEF ReadOutput, Phase, Goto
    <3>2. command # "none" /\ intr'.socket = "none" /\ intr'.interrupted = intr.interrupted
          /\ ~intr'.process
      BY <2>1, <2>3, <3>1, WatchIs DEF CommandInv
    <3> QED BY <2>1, <3>1, <3>2 DEF CommandInv
  <2> QED BY <1>2, <2>2, <2>3 DEF ReadOutput
<1>3. CASE CheckInterrupted
  BY <1>3 DEF CheckInterrupted, Phase, Rest, Commands, Goto, Piped, CommandInv,
    TypeInv, PcTyped, PhasesOf, CommandPhases, DialPhases, Blocked, Registered,
    InfoSocket, Needed, Streams
<1>4. CASE Check
  <2>0. pc.step \in Commands /\ intr.socket = "none"
    BY <1>4, PhasesAre DEF Check, CommandInv
  <2>1. pc.step \in Commands /\ intr.socket = "none" /\ pc' = [step |-> pc.step, phase |-> pc'.phase]
    <3>1. \E phase \in CommandPhases : Phase(phase)
      BY <1>4 DEF Check, CommandPhases
    <3> QED BY <2>0, <3>1 DEF Phase, Goto
  <2>2. CASE pc.phase = "check" /\ ~intr.interrupted
    <3>0. Phase("wait") /\ Watch(TRUE, "none") /\ command' = command
      BY <1>4, <2>2 DEF Check
    <3>1. pc'.phase = "wait" /\ Watch(TRUE, "none") /\ command' = command
      BY <3>0 DEF Phase, Goto
    <3>2. command # "none" /\ intr'.socket = "none" /\ ~intr'.interrupted
      BY <2>1, <2>2, <3>1, WatchIs DEF CommandInv
    <3> QED BY <2>1, <3>1, <3>2 DEF CommandInv
  <2>3. CASE pc.phase = "wait"
    <3>1. pc'.phase \in {"clear", "clear_ko"} /\ command' = command /\ intr' = intr
      BY <1>4, <2>3 DEF Check, Phase, Goto, Waited
    <3> QED BY <2>1, <2>3, <3>1 DEF CommandInv
  <2>4. CASE pc.phase \in {"clear", "clear_ko"}
    <3>0. Phase("close") \/ Phase("close_ko")
      BY <1>4, <2>4 DEF Check
    <3>1a. pc'.phase \in {"close", "close_ko"}
      BY <3>0 DEF Phase, Goto
    <3>1b. Watch(FALSE, "none")
      BY <1>4, <2>4 DEF Check
    <3>1. pc'.phase \in {"close", "close_ko"} /\ Watch(FALSE, "none")
      BY <3>1a, <3>1b
    <3>2. intr'.socket = "none" /\ ~intr'.process
      BY <2>1, <3>1, WatchIs DEF CommandInv
    <3> QED BY <2>1, <3>1, <3>2 DEF CommandInv
  <2>5. CASE pc.phase \in {"close", "close_ko"}
    <3>0. (Phase("ok") \/ Phase("ko")) /\ intr' = intr
      BY <1>4, <2>5 DEF Check
    <3>1. pc'.phase \in {"ok", "ko"} /\ intr' = intr
      BY <3>0 DEF Phase, Goto
    <3> QED BY <2>1, <2>5, <3>1 DEF CommandInv
  <2> QED BY <1>4, <2>2, <2>3, <2>4, <2>5 DEF Check
<1>5. CASE ServerStarted
  BY <1>5 DEF ServerStarted, Call, Ko, Done, Fail, Selecting, Goto, At, Ok,
    StepVars, CommandInv, TypeInv, PcTyped, PhasesOf, CommandPhases, DialPhases,
    Blocked, Registered, InfoSocket, Needed, Commands, Piped, Streams
<1>6. CASE DevicesListed
  BY <1>6 DEF DevicesListed, Call, Ko, Done, HaveSerial, Fail, Selecting, Goto, At,
    Ok, StepVars, CommandInv, TypeInv, PcTyped, PhasesOf, CommandPhases, DialPhases,
    Blocked, Registered, InfoSocket, Needed, Commands, Piped, Streams
<1>7. CASE SwitchToTcpip
  BY <1>7 DEF SwitchToTcpip, Call, Ok, Ko, Done, Fail, Selecting, Goto, At,
    StepVars, CommandInv, TypeInv, PcTyped, PhasesOf, CommandPhases, DialPhases,
    Blocked, Registered, InfoSocket, Needed, Commands, Piped, Streams
<1>8. CASE ConnectTcpip
  BY <1>8 DEF ConnectTcpip, Call, Ok, Ko, Done, HaveSerial, Fail, Selecting, Goto,
    At, StepVars, CommandInv, TypeInv, PcTyped, PhasesOf, CommandPhases, DialPhases,
    Blocked, Registered, InfoSocket, Needed, Commands, Piped, Streams
<1>9. CASE Pushed
  BY <1>9 DEF Pushed, Call, Ko, Done, Fail, StepVars, Forward, Goto, At, Ok,
    CommandInv, TypeInv, PcTyped, PhasesOf, CommandPhases, DialPhases, Blocked,
    Registered, InfoSocket, Needed, Commands, Piped, Streams
<1>10. CASE Reversed
  BY <1>10 DEF Reversed, Call, Ko, Done, StepVars, Forward, Goto, At, Ok,
    CommandInv, TypeInv, PcTyped, PhasesOf, CommandPhases, DialPhases, Blocked,
    Registered, InfoSocket, Needed, Commands, Piped, Streams
<1>11. CASE Listen
  BY <1>11 DEF Listen, At, Call, StepVars, Forward, Goto, CommandInv, TypeInv,
    PcTyped, PhasesOf, CommandPhases, DialPhases, Blocked, Registered, InfoSocket,
    Needed, Commands, Piped, Streams
<1>12. CASE Unreversed
  BY <1>12 DEF Unreversed, Call, Done, StepVars, Forward, Goto, Ok, Ko, At,
    CommandInv, TypeInv, PcTyped, PhasesOf, CommandPhases, DialPhases, Blocked,
    Registered, InfoSocket, Needed, Commands, Piped, Streams
<1>13. CASE Forwarded
  BY <1>13 DEF Forwarded, Call, Ok, Ko, Done, Fail, StepVars, Goto, At, CommandInv,
    TypeInv, PcTyped, PhasesOf, CommandPhases, DialPhases, Blocked, Registered,
    InfoSocket, Needed, Commands, Piped, Streams
<1>14. CASE Execute
  BY <1>14 DEF Execute, At, Goto, Call, Fail, StepVars, CommandInv, TypeInv,
    PcTyped, PhasesOf, CommandPhases, DialPhases, Blocked, Registered, InfoSocket,
    Needed, Commands, Piped, Streams
<1>15. CASE Listed
  BY <1>15 DEF Listed, At, Call, StepVars, Goto, CommandInv, TypeInv, PcTyped,
    PhasesOf, CommandPhases, DialPhases, Blocked, Registered, InfoSocket, Needed,
    Commands, Piped, Streams
<1>16. CASE Observe
  BY <1>16 DEF Observe, At, Call, Goto, CommandInv, TypeInv, PcTyped, PhasesOf,
    CommandPhases, DialPhases, Blocked, Registered, InfoSocket, Needed, Commands,
    Piped, Streams
<1>17. CASE TunnelClosed
  BY <1>17 DEF TunnelClosed, Call, Done, Fail, StepVars, Goto, Ok, Ko, At,
    CommandInv, TypeInv, PcTyped, PhasesOf, CommandPhases, DialPhases, Blocked,
    Registered, InfoSocket, Needed, Commands, Piped, Streams
<1>18. CASE ConnectTo
  BY <1>18 DEF ConnectTo, At, Goto, StepVars, How, CommandInv, TypeInv, PcTyped,
    PhasesOf, CommandPhases, DialPhases, Blocked, Registered, InfoSocket, Needed,
    Commands, Piped, Streams
<1>19. CASE Register
  <2>1. pc.step \in Streams /\ pc.step \notin Commands /\ command' = command
    BY <1>19 DEF Register, SocketVars, Commands, Piped, Streams
  <2>2. CASE pc.phase = "accept" /\ Interrupted
    <3>1. pc'.step \notin Streams \cup {"info"} /\ pc'.phase = "begin" /\ intr' = intr
      BY <1>19, <2>2, FailedIs DEF Register, Streams
    <3> QED BY <2>1, <2>2, <3>1 DEF CommandInv, Interrupted
  <2>3. CASE pc.phase = "accept" /\ ~Interrupted
    <3>1. pc' = [step |-> pc.step, phase |-> "accepting"] /\ Watch(FALSE, "listen")
      BY <1>19, <2>3 DEF Register, Phase, Goto
    <3>2. ~intr'.process /\ intr'.socket = "listen" /\ ~intr'.interrupted
      BY <2>3, <3>1, WatchIs DEF Interrupted, Sockets
    <3> QED BY <2>1, <3>1, <3>2 DEF CommandInv, Blocked, Registered
  <2>4. CASE pc.phase # "accept"
    <3>1. Watch(FALSE, pc.step)
          /\ pc' = [step |-> pc.step, phase |-> IF intr.interrupted THEN "shut" ELSE "connecting"]
      BY <1>19, <2>4 DEF Register, Phase, Goto, Interrupted
    <3>2. CASE intr.interrupted
      <4>1. intr' = intr
        BY <2>1, <3>1, <3>2, WatchIs, InfoIsStream
      <4> QED BY <2>1, <3>1, <3>2, <4>1 DEF CommandInv
    <3>3. CASE ~intr.interrupted
      <4>1. ~intr'.process /\ intr'.socket = pc.step /\ ~intr'.interrupted
        BY <2>1, <3>1, <3>3, WatchIs, InfoIsStream
      <4> QED BY <2>1, <3>1, <3>3, <4>1 DEF CommandInv, Blocked, Registered, Streams
    <3> QED BY <3>2, <3>3
  <2> QED BY <2>2, <2>3, <2>4
<1>20. CASE Woken
  <2>1. Unregister /\ command' = command
    BY <1>20 DEF Woken, NoAnswer, SocketVars
  <2>2. pc'.step \notin Commands \/ pc'.phase = "begin"
    <3>1. pc.phase \in {"accepting", "connecting", "receiving"}
          /\ (Failed \/ pc' = [step |-> pc.step, phase |-> "shut"])
      BY <1>20 DEF Woken, Blocked, NoAnswer, Phase, Goto
    <3>2. pc.step \notin Commands
      BY <3>1, PhasesAre DEF CommandPhases
    <3> QED BY <3>1, <3>2, FailedIs
  <2> QED BY <2>1, <2>2, UnregisterIs DEF CommandInv
<1>21. CASE Shut
  <2>1. pc.step \in Streams /\ pc.step \notin Commands /\ ~intr.process /\ intr.socket = "none"
    BY <1>21 DEF Shut, CommandInv, Blocked, TypeInv, PcTyped, PhasesOf, CommandPhases,
                  Commands, Piped, Streams
  <2>2. intr' = intr /\ command' = command
    BY <1>21 DEF Shut, SocketVars
  <2>3. pc'.step \notin Commands \/ pc'.phase = "begin"
    <3>1. Failed \/ NextStream(pc.step) \/ pc'.step = pc.step
      BY <1>21 DEF Shut, GiveUp, Phase, Goto
    <3> QED BY <2>1, <3>1, FailedIs, NextLeaves
  <2> QED BY <2>1, <2>2, <2>3 DEF CommandInv
<1>22. CASE Sleep
  <2>1. pc.step \in Streams /\ pc.step \notin Commands /\ ~intr.process /\ intr.socket = "none"
    BY <1>22 DEF Sleep, CommandInv, Blocked, TypeInv, PcTyped, PhasesOf, CommandPhases,
                  Commands, Piped, Streams
  <2>2. intr' = intr /\ command' = command
    BY <1>22 DEF Sleep, SocketVars
  <2>3. pc'.step \notin Commands \/ pc'.phase = "begin"
    <3>1. Failed \/ NextStream(pc.step) \/ pc'.step = pc.step
      BY <1>22 DEF Sleep, GiveUp, Phase, Goto
    <3> QED BY <2>1, <3>1, FailedIs, NextLeaves
  <2> QED BY <2>1, <2>2, <2>3 DEF CommandInv
<1>23. CASE ReadInfo
  <2>1. pc.step = "info" /\ pc.step \notin Commands /\ command' = command /\ ~intr.process
        /\ intr.socket = "none"
    BY <1>23 DEF ReadInfo, At, CommandInv, Blocked, SocketVars, Commands, Piped
  <2>2. CASE intr' = intr
    <3>1. \/ pc'.phase = "begin"
          \/ pc' = [step |-> "info", phase |-> "receiving"]
      <4>1. Failed \/ Call("connected") \/ Phase("receiving")
        BY <1>23 DEF ReadInfo
      <4>2. Failed => pc'.phase = "begin"
        BY FailedIs
      <4> QED BY <2>1, <4>1, <4>2 DEF Call, Phase, Goto
    <3> QED BY <2>1, <2>2, <3>1 DEF CommandInv, Commands, Piped
  <2>3. CASE intr' # intr
    <3>1. ~intr.interrupted /\ Watch(FALSE, InfoSocket) /\ pc' = [step |-> "info", phase |-> "receiving"]
          /\ opt' = opt
      BY <1>23, <2>3 DEF ReadInfo, Phase, Goto, At, SocketVars
    <3>2. ~intr'.process /\ intr'.socket = InfoSocket /\ ~intr'.interrupted
      BY <3>1, WatchIs, InfoIsStream
    <3>3. InfoSocket' = InfoSocket
      BY <3>1 DEF InfoSocket, Needed
    <3> QED BY <2>1, <3>1, <3>2, <3>3 DEF CommandInv, Blocked, Registered, Commands, Piped
  <2> QED BY <2>2, <2>3
<1>24. CASE Post
  BY <1>24 DEF Post, Call, EndVars, Goto, CommandInv, TypeInv, PcTyped, PhasesOf,
    CommandPhases, DialPhases, Blocked, Registered, InfoSocket, Needed, Commands,
    Piped, Streams
<1>25. CASE InterruptSockets
  BY <1>25 DEF InterruptSockets, At, Call, EndVars, WaitedForStop, Sockets, Goto,
    Streams, CommandInv, TypeInv, PcTyped, PhasesOf, CommandPhases, DialPhases,
    Blocked, Registered, InfoSocket, Needed, Commands, Piped
<1>26. CASE Watchdog
  BY <1>26 DEF Watchdog, At, Call, EndVars, Killed, Goto, CommandInv, TypeInv,
    PcTyped, PhasesOf, CommandPhases, DialPhases, Blocked, Registered, InfoSocket,
    Needed, Commands, Piped, Streams
<1>27. CASE Terminate
  BY <1>27 DEF Terminate, At, Call, EndVars, Goto, CommandInv, TypeInv, PcTyped,
    PhasesOf, CommandPhases, DialPhases, Blocked, Registered, InfoSocket, Needed,
    Commands, Piped, Streams
<1>28. CASE JoinObserver
  BY <1>28 DEF JoinObserver, At, Call, Fail, EndVars, Goto, CommandInv, TypeInv,
    PcTyped, PhasesOf, CommandPhases, DialPhases, Blocked, Registered, InfoSocket,
    Needed, Commands, Piped, Streams
<1>29. CASE AdbKilled
  BY <1>29 DEF AdbKilled, Call, Done, EndVars, Goto, Ok, Ko, At, CommandInv,
    TypeInv, PcTyped, PhasesOf, CommandPhases, DialPhases, Blocked, Registered,
    InfoSocket, Needed, Commands, Piped, Streams
<1>30. CASE Return
  BY <1>30 DEF Return, At, Call, EndVars, Goto, CommandInv, TypeInv, PcTyped,
    PhasesOf, CommandPhases, DialPhases, Blocked, Registered, InfoSocket, Needed,
    Commands, Piped, Streams
<1>31. CASE CommandEnds
  BY <1>31 DEF CommandEnds, Rest, CommandInv, TypeInv, Blocked, Registered,
    InfoSocket, Needed
<1>32. CASE Accepted
  <2>1. pc.step \in Streams /\ command' = command /\ Unregister /\ NextStream(pc.step)
    BY <1>32 DEF Accepted, SocketVars, TypeInv, PcTyped, PhasesOf, CommandPhases, Streams
  <2> QED BY <2>1, NextLeaves, UnregisterIs DEF CommandInv
<1>33. CASE Connected
  <2>1. pc.step \in Streams /\ pc.step \notin Commands /\ command' = command
    BY <1>33 DEF Connected, SocketVars, TypeInv, PcTyped, PhasesOf, CommandPhases, Commands, Piped, Streams
  <2>2. CASE Retried(pc.step)
    <3>1. Watch(FALSE, pc.step)
          /\ pc' = [step |-> pc.step, phase |-> IF intr.interrupted THEN "shut" ELSE "receiving"]
      BY <1>33, <2>2 DEF Connected, Phase, Goto
    <3>2. CASE intr.interrupted
      <4>1. intr' = intr
        BY <2>1, <3>1, <3>2, WatchIs, InfoIsStream
      <4> QED BY <2>1, <3>1, <3>2, <4>1 DEF CommandInv
    <3>3. CASE ~intr.interrupted
      <4>1. ~intr'.process /\ intr'.socket = pc.step /\ ~intr'.interrupted
        BY <2>1, <3>1, <3>3, WatchIs, InfoIsStream
      <4> QED BY <2>1, <3>1, <3>3, <4>1 DEF CommandInv, Blocked, Registered, Streams
    <3> QED BY <3>2, <3>3
  <2>3. CASE ~Retried(pc.step)
    <3>1. Unregister /\ NextStream(pc.step)
      BY <1>33, <2>3 DEF Connected
    <3> QED BY <2>1, <3>1, NextLeaves, UnregisterIs DEF CommandInv
  <2> QED BY <2>2, <2>3
<1>34. CASE ReceivedByte
  <2>1. pc.step \in Streams /\ command' = command /\ Unregister /\ NextStream(pc.step)
    BY <1>34 DEF ReceivedByte, SocketVars, TypeInv, PcTyped, PhasesOf, CommandPhases, Streams
  <2> QED BY <2>1, NextLeaves, UnregisterIs DEF CommandInv
<1>35. CASE ReceivedInfo
  BY <1>35 DEF ReceivedInfo, At, Call, SocketVars, InfoSocket, Unregister, Goto,
    Watch, CommandInv, TypeInv, PcTyped, PhasesOf, CommandPhases, DialPhases,
    Blocked, Registered, Needed, Commands, Piped, Streams
<1>36. CASE Refused
  <2>1. Unregister /\ command' = command
    BY <1>36 DEF Refused, NoAnswer, SocketVars
  <2>2. pc'.step \notin Commands \/ pc'.phase = "begin"
    <3>1. pc.phase \in {"accepting", "connecting", "receiving"}
          /\ (Failed \/ pc' = [step |-> pc.step, phase |-> "shut"])
      BY <1>36 DEF Refused, Blocked, NoAnswer, Phase, Goto
    <3>2. pc.step \notin Commands
      BY <3>1, PhasesAre DEF CommandPhases
    <3> QED BY <3>1, <3>2, FailedIs
  <2> QED BY <2>1, <2>2, UnregisterIs DEF CommandInv
<1>37. CASE Observed
  BY <1>37 DEF Observed, EndVars, CommandInv, TypeInv, Blocked, Registered,
    InfoSocket, Needed
<1>38. CASE OnTerminated
  BY <1>38 DEF OnTerminated, Interrupt, CommandInv, TypeInv, Blocked, Registered,
    InfoSocket, Needed
<1>39. CASE AwaitServer
  BY <1>39 DEF AwaitServer, MainVars, CommandInv, TypeInv, Blocked, Registered,
    InfoSocket, Needed
<1>40. CASE Stop
  BY <1>40 DEF Stop, Interrupt, MainVars, CommandInv, TypeInv, Blocked, Registered,
    InfoSocket, Needed
<1>41. CASE Join
  BY <1>41 DEF Join, MainVars, CommandInv, TypeInv, Blocked, Registered, InfoSocket,
    Needed
<1>42. CASE Destroy
  BY <1>42 DEF Destroy, Close, MainVars, Destroyed, Sockets, Streams, CommandInv,
    TypeInv, Blocked, Registered, InfoSocket, Needed
<1>43. CASE ProcessDies
  BY <1>43 DEF ProcessDies, EndVars, CommandInv, TypeInv, Blocked, Registered,
    InfoSocket, Needed
<1>44. CASE Quit
  BY <1>44 DEF Quit, MainVars, CommandInv, TypeInv, Blocked, Registered, InfoSocket,
    Needed
<1>45. CASE ReaderEnds
  BY <1>45 DEF ReaderEnds, MainVars, CommandInv, TypeInv, Blocked, Registered,
    InfoSocket, Needed
<1>46. CASE UNCHANGED vars
  BY <1>46 DEF vars, CommandInv, Blocked, Registered, InfoSocket, Needed
<1> QED BY <1>1, <1>2, <1>3, <1>4, <1>5, <1>6, <1>7, <1>8, <1>9, <1>10, <1>11,
           <1>12, <1>13, <1>14, <1>15, <1>16, <1>17, <1>18, <1>19, <1>20, <1>21,
           <1>22, <1>23, <1>24, <1>25, <1>26, <1>27, <1>28, <1>29, <1>30, <1>31,
           <1>32, <1>33, <1>34, <1>35, <1>36, <1>37, <1>38, <1>39, <1>40, <1>41,
           <1>42, <1>43, <1>44, <1>45, <1>46
        DEF Next, Thread, Answers, Observer, Main

(* Where a step of the dialling leads to. *)
LEMMA DialLeads ==
  ASSUME TypeInv, Dials
  PROVE  /\ pc.step \in Streams \cup {"info"}
         /\ pc'.step \in Streams \cup (IF opt.wifi THEN {"info", "kill_adb_fail", "failed"}
                                     ELSE {"untunnel", "untunnel_fail", "terminate"})
         /\ UNCHANGED SocketVars
<1>1. CASE Failed
  BY <1>1, DialIs, FailedIs DEF Streams
<1>2. CASE GetsOn
  <2>1. CASE \E t \in Dialled : pc' = [step |-> t, phase |-> How(FALSE)]
    BY <2>1, DialIs, DialledFacts DEF TypeInv, How
  <2>2. CASE pc' = [step |-> IF opt.wifi THEN "info" ELSE "untunnel", phase |-> "begin"]
    BY <2>2, DialIs
  <2> QED BY <1>2, <2>1, <2>2, NextStreamIs DEF GetsOn, TypeInv
<1>3. CASE Stays
  BY <1>3, DialIs DEF Stays
<1> QED BY <1>1, <1>2, <1>3, DialIs

(* Where the choice of a device leads to. *)
LEMMA SelectLeads ==
  ASSUME TypeInv, DevicesListed \/ ConnectTcpip
  PROVE  /\ pc.step \in {"devices", "disconnect", "connect"}
         /\ pc'.step \in {"ip", "connect", "kill_adb_fail", "failed"}
                          \cup (IF opt.wifi THEN Streams ELSE {"push"})
         /\ pc'.phase = "begin"
         /\ pc'.step \in Streams => pc'.step = FirstDialled
         /\ UNCHANGED Selecting
<1>1. CASE HaveSerial
  <2>1. pc' = [step |-> IF opt.wifi THEN FirstDialled ELSE "push", phase |-> "begin"]
    BY <1>1, HaveSerialIs DEF TypeInv
  <2>2. FirstDialled \in Streams /\ "push" \notin Streams
    BY DialledFacts DEF TypeInv, Streams
  <2> QED BY <2>1, <2>2 DEF DevicesListed, ConnectTcpip, Done, Ok, Ko, At
<1>2. CASE ~HaveSerial
  BY <1>2 DEF DevicesListed, ConnectTcpip, Done, Ok, Ko, At, Fail, Call, Goto, Streams
<1> QED BY <1>1, <1>2

LEMMA ConnectToLeads ==
  ASSUME TypeInv, ConnectTo
  PROVE  /\ pc.step = "connect_to" /\ pc'.step \in Streams /\ pc'.step = FirstDialled
         /\ pc'.phase \in {"accept", "begin"}
         /\ pc'.phase = "accept" => ~opt.wifi /\ ~tunnel.forward
         /\ UNCHANGED <<StepVars, sock, owned, tunnel, proc, posted>>
BY DialledFacts DEF ConnectTo, At, Goto, How, TypeInv

(* What the main thread knows, through every step. *)
LEMMA MainStep == LinkInv /\ [Next]_vars => MainInv'
<1> SUFFICES ASSUME LinkInv, [Next]_vars PROVE MainInv'
  OBVIOUS
<1> USE DEF LinkInv
<1>1. CASE Spawn
  BY <1>1 DEF Spawn, Phase, Rest, Piped, Commands, Goto, MainInv, Streams, TypeInv
<1>2. CASE ReadOutput
  BY <1>2 DEF ReadOutput, Phase, Watch, Rest, Commands, Goto, Piped, MainInv,
    Streams, TypeInv
<1>3. CASE CheckInterrupted
  BY <1>3 DEF CheckInterrupted, Phase, Rest, Commands, Goto, Piped, MainInv,
    Streams, TypeInv
<1>4. CASE Check
  BY <1>4 DEF Check, Phase, Watch, Rest, Waited, Commands, Goto, Piped, MainInv,
    Streams, TypeInv
<1>5. CASE ServerStarted
  BY <1>5 DEF ServerStarted, Call, Ko, Done, Fail, Selecting, Goto, At, Ok,
    StepVars, MainInv, Streams, Commands, Piped, TypeInv
<1>6. CASE DevicesListed
  <2>1. pc.step \notin {"wait", "watchdog", "join_observer", "kill_adb", "return", "end"}
        /\ pc'.step \notin {"wait", "watchdog", "join_observer", "kill_adb", "return", "end"}
    BY <1>6, SelectLeads DEF Streams
  <2>2. UNCHANGED <<posted, main, stopped, readers>>
    BY <1>6, SelectLeads DEF Selecting, StepVars
  <2> QED BY <2>1, <2>2 DEF MainInv
<1>7. CASE SwitchToTcpip
  BY <1>7 DEF SwitchToTcpip, Call, Ok, Ko, Done, Fail, Selecting, Goto, At,
    StepVars, MainInv, Streams, Commands, Piped, TypeInv
<1>8. CASE ConnectTcpip
  <2>1. pc.step \notin {"wait", "watchdog", "join_observer", "kill_adb", "return", "end"}
        /\ pc'.step \notin {"wait", "watchdog", "join_observer", "kill_adb", "return", "end"}
    BY <1>8, SelectLeads DEF Streams
  <2>2. UNCHANGED <<posted, main, stopped, readers>>
    BY <1>8, SelectLeads DEF Selecting, StepVars
  <2> QED BY <2>1, <2>2 DEF MainInv
<1>9. CASE Pushed
  BY <1>9 DEF Pushed, Call, Ko, Done, Fail, StepVars, Forward, Goto, At, Ok,
    MainInv, Streams, Commands, Piped, TypeInv
<1>10. CASE Reversed
  BY <1>10 DEF Reversed, Call, Ko, Done, StepVars, Forward, Goto, At, Ok, MainInv,
    Streams, Commands, Piped, TypeInv
<1>11. CASE Listen
  BY <1>11 DEF Listen, At, Call, StepVars, Forward, Goto, MainInv, Streams,
    Commands, Piped, TypeInv
<1>12. CASE Unreversed
  BY <1>12 DEF Unreversed, Call, Done, StepVars, Forward, Goto, Ok, Ko, At, MainInv,
    Streams, Commands, Piped, TypeInv
<1>13. CASE Forwarded
  BY <1>13 DEF Forwarded, Call, Ok, Ko, Done, Fail, StepVars, Goto, At, MainInv,
    Streams, Commands, Piped, TypeInv
<1>14. CASE Execute
  BY <1>14 DEF Execute, At, Goto, Call, Fail, StepVars, MainInv, Streams, Commands,
    Piped, TypeInv
<1>15. CASE Listed
  <2>1. posted = <<>>
    BY <1>15 DEF Listed, At, MainInv
  <2>2. posted' = <<"listed">>
    BY <1>15, <2>1 DEF Listed
  <2>3. pc.step = "execute" /\ pc'.step = "return" /\ UNCHANGED <<main, stopped, readers>>
    BY <1>15 DEF Listed, At, Call, Goto, StepVars
  <2> QED BY <2>1, <2>2, <2>3 DEF MainInv
<1>16. CASE Observe
  BY <1>16 DEF Observe, At, Call, Goto, MainInv, Streams, Commands, Piped, TypeInv
<1>17. CASE TunnelClosed
  BY <1>17 DEF TunnelClosed, Call, Done, Fail, StepVars, Goto, Ok, Ko, At, MainInv,
    Streams, Commands, Piped, TypeInv
<1>18. CASE ConnectTo
  <2>1. pc.step = "connect_to"
        /\ pc'.step \notin {"wait", "watchdog", "join_observer", "kill_adb", "return", "end"}
    BY <1>18, ConnectToLeads DEF Streams
  <2>2. UNCHANGED <<posted, main, stopped, readers>>
    BY <1>18, ConnectToLeads DEF StepVars
  <2> QED BY <2>1, <2>2 DEF MainInv
<1>19. CASE ReadInfo
  BY <1>19 DEF ReadInfo, At, Phase, Call, Watch, Failed, SocketVars, InfoSocket,
    Goto, Fail, Close, FailedStreams, Sockets, Streams, MainInv, Commands, Piped,
    TypeInv
<1>20. CASE Post
  <2>1. posted = <<>>
    BY <1>20 DEF Post, MainInv
  <2>2. posted' = <<pc.step>>
    BY <1>20, <2>1 DEF Post
  <2>3. /\ (pc.step = "connected" /\ pc'.step = "wait") \/ (pc.step = "failed" /\ pc'.step = "return")
        /\ UNCHANGED <<main, stopped, readers>>
    BY <1>20 DEF Post, Call, Goto, EndVars
  <2> QED BY <2>1, <2>2, <2>3 DEF MainInv
<1>21. CASE InterruptSockets
  BY <1>21 DEF InterruptSockets, At, Call, EndVars, WaitedForStop, Sockets, Goto,
    Streams, MainInv, Commands, Piped, TypeInv
<1>22. CASE Watchdog
  BY <1>22 DEF Watchdog, At, Call, EndVars, Killed, Goto, MainInv, Streams,
    Commands, Piped, TypeInv
<1>23. CASE Terminate
  BY <1>23 DEF Terminate, At, Call, EndVars, Goto, MainInv, Streams, Commands,
    Piped, TypeInv
<1>24. CASE JoinObserver
  BY <1>24 DEF JoinObserver, At, Call, Fail, EndVars, Goto, MainInv, Streams,
    Commands, Piped, TypeInv
<1>25. CASE AdbKilled
  BY <1>25 DEF AdbKilled, Call, Done, EndVars, Goto, Ok, Ko, At, MainInv, Streams,
    Commands, Piped, TypeInv
<1>26. CASE Return
  BY <1>26 DEF Return, At, Call, EndVars, Goto, MainInv, Streams, Commands, Piped,
    TypeInv
<1>27. CASE CommandEnds
  BY <1>27 DEF CommandEnds, Rest, MainInv, Streams, Commands, Piped, TypeInv
<1>28. CASE ReceivedInfo
  BY <1>28 DEF ReceivedInfo, At, Call, SocketVars, InfoSocket, Unregister, Goto,
    Watch, MainInv, Streams, Commands, Piped, TypeInv
<1>29. CASE Observed
  BY <1>29 DEF Observed, EndVars, MainInv, Streams, Commands, Piped, TypeInv
<1>30. CASE OnTerminated
  BY <1>30 DEF OnTerminated, Interrupt, MainInv, Streams, Commands, Piped, TypeInv
<1>31. CASE AwaitServer
  BY <1>31 DEF AwaitServer, MainVars, MainInv, Streams, Commands, Piped, TypeInv
<1>32. CASE Stop
  BY <1>32 DEF Stop, Interrupt, MainVars, MainInv, Streams, Commands, Piped, TypeInv
<1>33. CASE Join
  <2>1. UNCHANGED <<pc, posted, stopped, readers>>
    BY <1>33 DEF Join, MainVars
  <2>2. \/ main = "join_readers" /\ readers = {} /\ main' = "join"
        \/ main = "join" /\ pc.step = "end" /\ main' = "destroy"
    BY <1>33 DEF Join
  <2> QED BY <2>1, <2>2 DEF MainInv, TypeInv
<1>34. CASE Destroy
  BY <1>34 DEF Destroy, Close, MainVars, Destroyed, Sockets, Streams, MainInv,
    Commands, Piped, TypeInv
<1>35. CASE ProcessDies
  BY <1>35 DEF ProcessDies, EndVars, MainInv, Streams, Commands, Piped, TypeInv
<1>36. CASE Quit
  BY <1>36 DEF Quit, MainVars, MainInv, Streams, Commands, Piped, TypeInv
<1>37. CASE ReaderEnds
  BY <1>37 DEF ReaderEnds, MainVars, MainInv, Streams, Commands, Piped, TypeInv
<1>38. CASE Dials
  <2>1. pc.step \notin {"wait", "watchdog", "join_observer", "kill_adb", "return", "end"}
        /\ pc'.step \notin {"wait", "watchdog", "join_observer", "kill_adb", "return", "end"}
    BY <1>38, DialLeads DEF Streams
  <2>2. UNCHANGED <<posted, main, stopped, readers>>
    BY <1>38, DialLeads DEF SocketVars
  <2> QED BY <2>1, <2>2 DEF MainInv
<1>39. CASE UNCHANGED vars
  BY <1>39 DEF vars, MainInv
<1> QED BY <1>1, <1>2, <1>3, <1>4, <1>5, <1>6, <1>7, <1>8, <1>9, <1>10, <1>11,
           <1>12, <1>13, <1>14, <1>15, <1>16, <1>17, <1>18, <1>19, <1>20, <1>21,
           <1>22, <1>23, <1>24, <1>25, <1>26, <1>27, <1>28, <1>29, <1>30, <1>31,
           <1>32, <1>33, <1>34, <1>35, <1>36, <1>37, <1>38, <1>39
        DEF Next, Thread, Answers, Observer, Main, Dials

(* The server process and its observer, through every step. *)
LEMMA ProcessStep == LinkInv /\ [Next]_vars => ProcessInv'
<1> SUFFICES ASSUME LinkInv, [Next]_vars PROVE ProcessInv'
  OBVIOUS
<1> USE DEF LinkInv
<1>1. CASE Spawn
  BY <1>1 DEF Spawn, Phase, Rest, Piped, Commands, Goto, ProcessInv, TypeInv,
    NoServer, WithServer, Over, OverAdb, Tunnelling, Linked, Early, At, Streams
<1>2. CASE ReadOutput
  BY <1>2 DEF ReadOutput, Phase, Watch, Rest, Commands, Goto, Piped, ProcessInv,
    TypeInv, NoServer, WithServer, Over, OverAdb, Tunnelling, Linked, Early, At,
    Streams
<1>3. CASE CheckInterrupted
  BY <1>3 DEF CheckInterrupted, Phase, Rest, Commands, Goto, Piped, ProcessInv,
    TypeInv, NoServer, WithServer, Over, OverAdb, Tunnelling, Linked, Early, At,
    Streams
<1>4. CASE Check
  BY <1>4 DEF Check, Phase, Watch, Rest, Waited, Commands, Goto, Piped, ProcessInv,
    TypeInv, NoServer, WithServer, Over, OverAdb, Tunnelling, Linked, Early, At,
    Streams
<1>5. CASE ServerStarted
  BY <1>5 DEF ServerStarted, Call, Ko, Done, Fail, Selecting, Goto, At, Ok,
    StepVars, ProcessInv, TypeInv, NoServer, WithServer, Over, OverAdb, Tunnelling,
    Linked, Early, Streams
<1>6. CASE DevicesListed
  <2>1. UNCHANGED <<opt, proc, observer>>
    BY <1>6, SelectLeads DEF Selecting, StepVars
  <2>2. NoServer /\ ~WithServer' /\ pc'.step # "execute" /\ pc'.step \notin Tunnelling /\ (pc'.step \in OverAdb => ~opt.wifi)
    BY <1>6, <2>1, SelectLeads DEF NoServer, WithServer, Linked, Early, OverAdb, Tunnelling, Streams
  <2> QED BY <2>1, <2>2 DEF ProcessInv
<1>7. CASE SwitchToTcpip
  BY <1>7 DEF SwitchToTcpip, Call, Ok, Ko, Done, Fail, Selecting, Goto, At,
    StepVars, ProcessInv, TypeInv, NoServer, WithServer, Over, OverAdb, Tunnelling,
    Linked, Early, Streams
<1>8. CASE ConnectTcpip
  <2>1. UNCHANGED <<opt, proc, observer>>
    BY <1>8, SelectLeads DEF Selecting, StepVars
  <2>2. NoServer /\ ~WithServer' /\ pc'.step # "execute" /\ pc'.step \notin Tunnelling /\ (pc'.step \in OverAdb => ~opt.wifi)
    BY <1>8, <2>1, SelectLeads DEF NoServer, WithServer, Linked, Early, OverAdb, Tunnelling, Streams
  <2> QED BY <2>1, <2>2 DEF ProcessInv
<1>9. CASE Pushed
  BY <1>9 DEF Pushed, Call, Ko, Done, Fail, StepVars, Forward, Goto, At, Ok,
    ProcessInv, TypeInv, NoServer, WithServer, Over, OverAdb, Tunnelling, Linked,
    Early, Streams
<1>10. CASE Reversed
  BY <1>10 DEF Reversed, Call, Ko, Done, StepVars, Forward, Goto, At, Ok,
    ProcessInv, TypeInv, NoServer, WithServer, Over, OverAdb, Tunnelling, Linked,
    Early, Streams
<1>11. CASE Listen
  BY <1>11 DEF Listen, At, Call, StepVars, Forward, Goto, ProcessInv, TypeInv,
    NoServer, WithServer, Over, OverAdb, Tunnelling, Linked, Early, Streams
<1>12. CASE Unreversed
  BY <1>12 DEF Unreversed, Call, Done, StepVars, Forward, Goto, Ok, Ko, At,
    ProcessInv, TypeInv, NoServer, WithServer, Over, OverAdb, Tunnelling, Linked,
    Early, Streams
<1>13. CASE Forwarded
  BY <1>13 DEF Forwarded, Call, Ok, Ko, Done, Fail, StepVars, Goto, At, ProcessInv,
    TypeInv, NoServer, WithServer, Over, OverAdb, Tunnelling, Linked, Early, Streams
<1>14. CASE Execute
  BY <1>14 DEF Execute, At, Goto, Call, Fail, StepVars, ProcessInv, TypeInv,
    NoServer, WithServer, Over, OverAdb, Tunnelling, Linked, Early, Streams
<1>15. CASE Listed
  BY <1>15 DEF Listed, At, Call, StepVars, Goto, ProcessInv, TypeInv, NoServer,
    WithServer, Over, OverAdb, Tunnelling, Linked, Early, Streams
<1>16. CASE Observe
  BY <1>16 DEF Observe, At, Call, Goto, ProcessInv, TypeInv, NoServer, WithServer,
    Over, OverAdb, Tunnelling, Linked, Early, Streams
<1>17. CASE TunnelClosed
  BY <1>17 DEF TunnelClosed, Call, Done, Fail, StepVars, Goto, Ok, Ko, At,
    ProcessInv, TypeInv, NoServer, WithServer, Over, OverAdb, Tunnelling, Linked,
    Early, Streams
<1>18. CASE ConnectTo
  <2>1. UNCHANGED <<opt, proc, observer>>
    BY <1>18, ConnectToLeads DEF StepVars
  <2>2. WithServer /\ ~opt.wifi /\ ~NoServer' /\ ~Over' /\ pc'.step # "execute" /\ pc'.step \notin Tunnelling
    BY <1>18, <2>1, ConnectToLeads DEF NoServer, WithServer, Linked, Over, Early, Streams,
                                      OverAdb, Tunnelling, At, ProcessInv
  <2> QED BY <2>1, <2>2 DEF ProcessInv
<1>19. CASE ReadInfo
  BY <1>19 DEF ReadInfo, At, Phase, Call, Watch, Failed, SocketVars, InfoSocket,
    Goto, Fail, Close, FailedStreams, Sockets, Streams, ProcessInv, TypeInv,
    NoServer, WithServer, Over, OverAdb, Tunnelling, Linked, Early
<1>20. CASE Post
  BY <1>20 DEF Post, Call, EndVars, Goto, ProcessInv, TypeInv, NoServer, WithServer,
    Over, OverAdb, Tunnelling, Linked, Early, At, Streams
<1>21. CASE InterruptSockets
  BY <1>21 DEF InterruptSockets, At, Call, EndVars, WaitedForStop, Sockets, Goto,
    Streams, ProcessInv, TypeInv, NoServer, WithServer, Over, OverAdb, Tunnelling,
    Linked, Early
<1>22. CASE Watchdog
  BY <1>22 DEF Watchdog, At, Call, EndVars, Killed, Goto, ProcessInv, TypeInv,
    NoServer, WithServer, Over, OverAdb, Tunnelling, Linked, Early, Streams
<1>23. CASE Terminate
  BY <1>23 DEF Terminate, At, Call, EndVars, Goto, ProcessInv, TypeInv, NoServer,
    WithServer, Over, OverAdb, Tunnelling, Linked, Early, Streams
<1>24. CASE JoinObserver
  BY <1>24 DEF JoinObserver, At, Call, Fail, EndVars, Goto, ProcessInv, TypeInv,
    NoServer, WithServer, Over, OverAdb, Tunnelling, Linked, Early, Streams
<1>25. CASE AdbKilled
  BY <1>25 DEF AdbKilled, Call, Done, EndVars, Goto, Ok, Ko, At, ProcessInv,
    TypeInv, NoServer, WithServer, Over, OverAdb, Tunnelling, Linked, Early, Streams
<1>26. CASE Return
  BY <1>26 DEF Return, At, Call, EndVars, Goto, ProcessInv, TypeInv, NoServer,
    WithServer, Over, OverAdb, Tunnelling, Linked, Early, Streams
<1>27. CASE CommandEnds
  BY <1>27 DEF CommandEnds, Rest, ProcessInv, TypeInv, NoServer, WithServer, Over,
    OverAdb, Tunnelling, Linked, Early, At, Streams
<1>28. CASE ReceivedInfo
  BY <1>28 DEF ReceivedInfo, At, Call, SocketVars, InfoSocket, Unregister, Goto,
    Watch, ProcessInv, TypeInv, NoServer, WithServer, Over, OverAdb, Tunnelling,
    Linked, Early, Streams
<1>29. CASE Observed
  BY <1>29 DEF Observed, EndVars, ProcessInv, TypeInv, NoServer, WithServer, Over,
    OverAdb, Tunnelling, Linked, Early, At, Streams
<1>30. CASE OnTerminated
  BY <1>30 DEF OnTerminated, Interrupt, ProcessInv, TypeInv, NoServer, WithServer,
    Over, OverAdb, Tunnelling, Linked, Early, At, Streams
<1>31. CASE AwaitServer
  BY <1>31 DEF AwaitServer, MainVars, ProcessInv, TypeInv, NoServer, WithServer,
    Over, OverAdb, Tunnelling, Linked, Early, At, Streams
<1>32. CASE Stop
  BY <1>32 DEF Stop, Interrupt, MainVars, ProcessInv, TypeInv, NoServer, WithServer,
    Over, OverAdb, Tunnelling, Linked, Early, At, Streams
<1>33. CASE Join
  BY <1>33 DEF Join, MainVars, ProcessInv, TypeInv, NoServer, WithServer, Over,
    OverAdb, Tunnelling, Linked, Early, At, Streams
<1>34. CASE Destroy
  BY <1>34 DEF Destroy, Close, MainVars, Destroyed, Sockets, Streams, ProcessInv,
    TypeInv, NoServer, WithServer, Over, OverAdb, Tunnelling, Linked, Early, At
<1>35. CASE ProcessDies
  BY <1>35 DEF ProcessDies, EndVars, ProcessInv, TypeInv, NoServer, WithServer,
    Over, OverAdb, Tunnelling, Linked, Early, At, Streams
<1>36. CASE Quit
  BY <1>36 DEF Quit, MainVars, ProcessInv, TypeInv, NoServer, WithServer, Over,
    OverAdb, Tunnelling, Linked, Early, At, Streams
<1>37. CASE ReaderEnds
  BY <1>37 DEF ReaderEnds, MainVars, ProcessInv, TypeInv, NoServer, WithServer,
    Over, OverAdb, Tunnelling, Linked, Early, At, Streams
<1>38. CASE Dials
  <2>1. UNCHANGED <<opt, proc, observer>>
    BY <1>38, DialLeads DEF SocketVars
  <2>2. IF opt.wifi THEN NoServer /\ (NoServer' \/ Over') ELSE WithServer /\ WithServer'
    BY <1>38, <2>1, DialLeads DEF NoServer, WithServer, Over, Linked, At
  <2>3. Over' => ~NoServer' /\ ~WithServer'
    BY <2>1 DEF Over, NoServer, WithServer, Linked, Early, At, Streams
  <2>4. NoServer' => ~WithServer' /\ opt.wifi
    BY <1>38, <2>1, DialLeads DEF NoServer, WithServer, Linked, Early, At, Streams
  <2>5. pc'.step # "execute" /\ pc'.step \notin Tunnelling /\ (pc'.step \in OverAdb => ~opt.wifi)
    BY <1>38, <2>1, DialLeads DEF OverAdb, Tunnelling, Streams
  <2>6. Over' => opt.wifi
    BY <1>38, <2>1, DialLeads DEF Over, Streams
  <2> QED BY <2>1, <2>2, <2>3, <2>4, <2>5, <2>6 DEF ProcessInv
<1>39. CASE UNCHANGED vars
  BY <1>39 DEF vars, ProcessInv, NoServer, WithServer, Over, OverAdb, Tunnelling, Linked, Early, At
<1> QED BY <1>1, <1>2, <1>3, <1>4, <1>5, <1>6, <1>7, <1>8, <1>9, <1>10, <1>11,
           <1>12, <1>13, <1>14, <1>15, <1>16, <1>17, <1>18, <1>19, <1>20, <1>21,
           <1>22, <1>23, <1>24, <1>25, <1>26, <1>27, <1>28, <1>29, <1>30, <1>31,
           <1>32, <1>33, <1>34, <1>35, <1>36, <1>37, <1>38, <1>39
        DEF Next, Thread, Answers, Observer, Main, Dials

(* What is registered is open, so that an interruption wakes the thread. *)
LEMMA RegisteredAlive ==
  ASSUME LinkInv, intr.socket # "none"
  PROVE  intr.socket \in Sockets /\ Alive(intr.socket)
<1>1. Blocked /\ pc.step \in Streams \cup {"info"} /\ intr.socket = Registered
  BY DEF LinkInv, CommandInv
<1>2. CASE pc.phase = "accepting"
  <2>1. pc.step \in Streams
    BY <1>1, <1>2 DEF LinkInv, TypeInv, PcTyped, PhasesOf, Commands, Piped, Streams
  <2>2. tunnel.enabled /\ ~tunnel.forward
    BY <1>2, <2>1 DEF LinkInv, TunnelInv, Tunnelled
  <2> QED BY <1>1, <1>2, <2>2 DEF LinkInv, TunnelInv, Registered, Sockets
<1>3. CASE pc.phase # "accepting" /\ pc.step = "info"
  BY <1>1, <1>3, DialledFacts DEF LinkInv, TypeInv, SocketInv, Served, Optional, Registered, Sockets
<1>4. CASE pc.phase # "accepting" /\ pc.step \in Streams
  <2>1. pc.step # "info"
    BY <1>4 DEF Streams
  <2>2. pc.phase \in {"connecting", "receiving"} /\ intr.socket = pc.step
    BY <1>1, <1>4, <2>1 DEF Blocked, Registered
  <2> QED BY <1>4, <2>2 DEF LinkInv, SocketInv, Sockets
<1> QED BY <1>1, <1>2, <1>3, <1>4

LEMMA InterruptKeeps ==
  ASSUME LinkInv, Interrupt
  PROVE  \A s \in Sockets : sock'[s] = sock[s] \/ (Alive(s) /\ sock'[s] = "interrupted")
<1> SUFFICES ASSUME NEW s \in Sockets
             PROVE  sock'[s] = sock[s] \/ (Alive(s) /\ sock'[s] = "interrupted")
  OBVIOUS
<1>1. sock'[s] = sock[s] \/ (s = intr.socket /\ sock'[s] = "interrupted")
  BY InterruptIs DEF LinkInv
<1>2. "none" \notin Sockets
  BY DEF Sockets, Streams
<1> QED BY <1>1, <1>2, RegisteredAlive

(* The tunnel is left alone by the steps that neither open nor close it. *)
LEMMA TunnelStays ==
  ASSUME TunnelInv, UNCHANGED tunnel, Tunnelled' <=> Tunnelled,
         sock'.listen = sock.listen \/ (Alive("listen") /\ sock'.listen = "interrupted"),
         pc'.step \in Early => pc.step \in Early,
         pc'.step \in Streams /\ pc'.phase \in {"accept", "accepting"}
           => ~opt'.wifi /\ ~tunnel'.forward
  PROVE  TunnelInv'
BY DEF TunnelInv, Alive

(* The tunnel and its socket, through every step. *)
LEMMA TunnelStep == LinkInv /\ [Next]_vars => TunnelInv'
<1> SUFFICES ASSUME LinkInv, [Next]_vars PROVE TunnelInv'
  OBVIOUS
<1> USE DEF LinkInv
<1>1. CASE Spawn
  BY <1>1 DEF Spawn, Phase, Rest, Piped, Commands, Goto, TunnelInv, Tunnelled,
    Early, Alive, Streams, TypeInv
<1>2. CASE ReadOutput
  BY <1>2 DEF ReadOutput, Phase, Watch, Rest, Commands, Goto, Piped, TunnelInv,
    Tunnelled, Early, Alive, Streams, TypeInv
<1>3. CASE CheckInterrupted
  BY <1>3 DEF CheckInterrupted, Phase, Rest, Commands, Goto, Piped, TunnelInv,
    Tunnelled, Early, Alive, Streams, TypeInv
<1>4. CASE Check
  BY <1>4 DEF Check, Phase, Watch, Rest, Waited, Commands, Goto, Piped, TunnelInv,
    Tunnelled, Early, Alive, Streams, TypeInv
<1>5. CASE ServerStarted
  BY <1>5 DEF ServerStarted, Call, Ko, Done, Fail, Selecting, Goto, At, Ok,
    StepVars, TunnelInv, Tunnelled, Early, Alive, Streams, TypeInv
<1>6. CASE DevicesListed
  <2>1. opt' = opt /\ tunnel' = tunnel /\ sock' = sock
    BY <1>6, SelectLeads DEF Selecting, StepVars
  <2>2. pc.step \in Early /\ ~Tunnelled /\ ~Tunnelled' /\ pc'.phase = "begin"
    BY <1>6, <2>1, SelectLeads DEF Tunnelled, Early, Streams
  <2> QED BY <2>1, <2>2, TunnelStays
<1>7. CASE SwitchToTcpip
  BY <1>7 DEF SwitchToTcpip, Call, Ok, Ko, Done, Fail, Selecting, Goto, At,
    StepVars, TunnelInv, Tunnelled, Early, Alive, Streams, TypeInv
<1>8. CASE ConnectTcpip
  <2>1. opt' = opt /\ tunnel' = tunnel /\ sock' = sock
    BY <1>8, SelectLeads DEF Selecting, StepVars
  <2>2. pc.step \in Early /\ ~Tunnelled /\ ~Tunnelled' /\ pc'.phase = "begin"
    BY <1>8, <2>1, SelectLeads DEF Tunnelled, Early, Streams
  <2> QED BY <2>1, <2>2, TunnelStays
<1>9. CASE Pushed
  BY <1>9 DEF Pushed, Call, Ko, Done, Fail, StepVars, Forward, Goto, At, Ok,
    TunnelInv, Tunnelled, Early, Alive, Streams, TypeInv
<1>10. CASE Reversed
  BY <1>10 DEF Reversed, Call, Ko, Done, StepVars, Forward, Goto, At, Ok, TunnelInv,
    Tunnelled, Early, Alive, Streams, TypeInv
<1>11. CASE Listen
  <2>1. ~opt.list /\ pc.step = "listen" /\ UNCHANGED opt
    BY <1>11 DEF Listen, At, StepVars, ProcessInv, Tunnelling
  <2>2. sock.listen = "none" /\ ~tunnel.enabled /\ ~Tunnelled
    BY <2>1 DEF TunnelInv, Tunnelled, Early, Streams
  <2>3. CASE tunnel' = [enabled |-> TRUE, forward |-> FALSE]
    <3>1. sock' = [sock EXCEPT !.listen = "open"] /\ pc'.step = "execute"
      BY <1>11, <2>2, <2>3 DEF Listen, Call, Goto
    <3>2. sock'.listen = "open"
      BY <3>1 DEF TypeInv, Sockets
    <3> QED BY <2>1, <2>3, <3>1, <3>2 DEF TunnelInv, Tunnelled, Early, Alive, Streams
  <2>4. CASE tunnel' # [enabled |-> TRUE, forward |-> FALSE]
    <3>1. UNCHANGED <<sock, tunnel>> /\ pc'.step \in {"forward", "unreverse"}
      BY <1>11, <2>4 DEF Listen, Forward, Call, Goto
    <3>2. ~Tunnelled' /\ pc'.step \notin Streams
      BY <3>1 DEF Tunnelled, Streams
    <3> QED BY <2>1, <2>2, <3>1, <3>2, TunnelStays DEF Early
  <2> QED BY <2>3, <2>4
<1>12. CASE Unreversed
  BY <1>12 DEF Unreversed, Call, Done, StepVars, Forward, Goto, Ok, Ko, At,
    TunnelInv, Tunnelled, Early, Alive, Streams, TypeInv
<1>13. CASE Forwarded
  <2>1. ~opt.list /\ pc.step = "forward" /\ UNCHANGED <<opt, sock>>
    BY <1>13 DEF Forwarded, Done, Ok, Ko, At, StepVars, ProcessInv, Tunnelling
  <2>2. sock.listen = "none" /\ ~tunnel.enabled
    BY <2>1 DEF TunnelInv, Tunnelled, Early, Streams
  <2>3. CASE Ok("forward")
    <3>1. tunnel' = [enabled |-> TRUE, forward |-> TRUE] /\ pc'.step = "execute"
      BY <1>13, <2>3 DEF Forwarded, Ok, Ko, At, Call, Goto
    <3> QED BY <2>1, <2>2, <3>1 DEF TunnelInv, Tunnelled, Early, Alive, Streams
  <2>4. CASE ~Ok("forward")
    <3>1. tunnel' = [tunnel EXCEPT !.forward = TRUE]
          /\ pc'.step \in {"forward", "kill_adb_fail", "failed"}
      BY <1>13, <2>4 DEF Forwarded, Ok, Ko, At, Fail, Call, Goto
    <3>2. ~tunnel'.enabled /\ ~Tunnelled' /\ pc'.step \notin Streams
      BY <2>2, <3>1 DEF TypeInv, Tunnelled, Streams
    <3> QED BY <2>1, <2>2, <3>2 DEF TunnelInv, Alive
  <2> QED BY <2>3, <2>4
<1>14. CASE Execute
  BY <1>14 DEF Execute, At, Goto, Call, Fail, StepVars, TunnelInv, Tunnelled, Early,
    Alive, Streams, TypeInv
<1>15. CASE Listed
  <2>1. opt.list /\ pc.step = "execute" /\ pc'.step = "return" /\ UNCHANGED <<opt, sock, tunnel>>
    BY <1>15 DEF Listed, At, Call, Goto, StepVars, ProcessInv
  <2> QED BY <2>1, TunnelStays DEF Tunnelled, Early, Streams
<1>16. CASE Observe
  <2>1. ~opt.list /\ pc.step = "execute" /\ pc'.step \in {"connect_to", "untunnel_abort"}
        /\ UNCHANGED <<opt, sock, tunnel>>
    BY <1>16 DEF Observe, At, Call, Goto, ProcessInv
  <2> QED BY <2>1, TunnelStays DEF Tunnelled, Early, Streams
<1>17. CASE TunnelClosed
  BY <1>17 DEF TunnelClosed, Call, Done, Fail, StepVars, Goto, Ok, Ko, At,
    TunnelInv, Tunnelled, Early, Alive, Streams, TypeInv
<1>18. CASE ConnectTo
  <2>1. UNCHANGED <<opt, tunnel, sock>> /\ pc.step = "connect_to"
    BY <1>18, ConnectToLeads DEF StepVars
  <2>2. Tunnelled /\ Tunnelled' /\ pc'.step \notin Early
    BY <1>18, <2>1, ConnectToLeads DEF Tunnelled, Early, Streams, ProcessInv, OverAdb
  <2>3. pc'.phase \in {"accept", "accepting"} => ~opt.wifi /\ ~tunnel.forward
    BY <1>18, ConnectToLeads
  <2> QED BY <2>1, <2>2, <2>3, TunnelStays
<1>19. CASE ReadInfo
  BY <1>19 DEF ReadInfo, At, Phase, Call, Watch, Failed, SocketVars, InfoSocket,
    Goto, Fail, Close, FailedStreams, Sockets, Streams, TunnelInv, Tunnelled, Early,
    Alive, TypeInv
<1>20. CASE Post
  BY <1>20 DEF Post, Call, EndVars, Goto, TunnelInv, Tunnelled, Early, Alive,
    Streams, TypeInv
<1>21. CASE InterruptSockets
  BY <1>21 DEF InterruptSockets, At, Call, EndVars, WaitedForStop, Sockets, Goto,
    Streams, TunnelInv, Tunnelled, Early, Alive, TypeInv
<1>22. CASE Watchdog
  BY <1>22 DEF Watchdog, At, Call, EndVars, Killed, Goto, TunnelInv, Tunnelled,
    Early, Alive, Streams, TypeInv
<1>23. CASE Terminate
  BY <1>23 DEF Terminate, At, Call, EndVars, Goto, TunnelInv, Tunnelled, Early,
    Alive, Streams, TypeInv
<1>24. CASE JoinObserver
  BY <1>24 DEF JoinObserver, At, Call, Fail, EndVars, Goto, TunnelInv, Tunnelled,
    Early, Alive, Streams, TypeInv
<1>25. CASE AdbKilled
  BY <1>25 DEF AdbKilled, Call, Done, EndVars, Goto, Ok, Ko, At, TunnelInv,
    Tunnelled, Early, Alive, Streams, TypeInv
<1>26. CASE Return
  BY <1>26 DEF Return, At, Call, EndVars, Goto, TunnelInv, Tunnelled, Early, Alive,
    Streams, TypeInv
<1>27. CASE CommandEnds
  BY <1>27 DEF CommandEnds, Rest, TunnelInv, Tunnelled, Early, Alive, Streams,
    TypeInv
<1>28. CASE ReceivedInfo
  BY <1>28 DEF ReceivedInfo, At, Call, SocketVars, InfoSocket, Unregister, Goto,
    Watch, TunnelInv, Tunnelled, Early, Alive, Streams, TypeInv
<1>29. CASE Observed
  BY <1>29 DEF Observed, EndVars, TunnelInv, Tunnelled, Early, Alive, Streams,
    TypeInv
<1>30. CASE OnTerminated
  <2>1. Interrupt /\ UNCHANGED <<opt, pc, tunnel>>
    BY <1>30 DEF OnTerminated
  <2>2. Tunnelled' <=> Tunnelled
    BY <2>1 DEF Tunnelled
  <2>3. sock'.listen = sock.listen \/ (Alive("listen") /\ sock'.listen = "interrupted")
    BY <2>1, InterruptKeeps DEF Sockets
  <2> QED BY <2>1, <2>2, <2>3, TunnelStays DEF TunnelInv
<1>31. CASE AwaitServer
  BY <1>31 DEF AwaitServer, MainVars, TunnelInv, Tunnelled, Early, Alive, Streams,
    TypeInv
<1>32. CASE Stop
  <2>1. Interrupt /\ UNCHANGED <<opt, pc, tunnel>>
    BY <1>32 DEF Stop, MainVars
  <2>2. Tunnelled' <=> Tunnelled
    BY <2>1 DEF Tunnelled
  <2>3. sock'.listen = sock.listen \/ (Alive("listen") /\ sock'.listen = "interrupted")
    BY <2>1, InterruptKeeps DEF Sockets
  <2> QED BY <2>1, <2>2, <2>3, TunnelStays DEF TunnelInv
<1>33. CASE Join
  BY <1>33 DEF Join, MainVars, TunnelInv, Tunnelled, Early, Alive, Streams, TypeInv
<1>34. CASE Destroy
  BY <1>34 DEF Destroy, Close, MainVars, Destroyed, Sockets, Streams, TunnelInv,
    Tunnelled, Early, Alive, TypeInv
<1>35. CASE ProcessDies
  BY <1>35 DEF ProcessDies, EndVars, TunnelInv, Tunnelled, Early, Alive, Streams,
    TypeInv
<1>36. CASE Quit
  BY <1>36 DEF Quit, MainVars, TunnelInv, Tunnelled, Early, Alive, Streams, TypeInv
<1>37. CASE ReaderEnds
  BY <1>37 DEF ReaderEnds, MainVars, TunnelInv, Tunnelled, Early, Alive, Streams,
    TypeInv
<1>38. CASE Dials
  <2>1. opt' = opt /\ tunnel' = tunnel /\ pc.step \in Streams \cup {"info"}
    BY <1>38, DialLeads DEF SocketVars
  <2>2. sock'.listen = sock.listen
    BY <1>38, DialIs, FailedIs DEF Stays, GetsOn
  <2>3. pc'.step \notin Early
    BY <1>38, DialLeads DEF Early, Streams
  <2>4. Tunnelled <=> ~opt.wifi /\ pc.step \in Streams
    BY <2>1 DEF Tunnelled, Streams
  <2>5. CASE Failed
    <3>1. /\ pc'.step \in {"untunnel_fail", "terminate", "kill_adb_fail", "failed"}
          /\ opt.wifi <=> pc'.step \in {"kill_adb_fail", "failed"}
          /\ pc'.step \in {"untunnel_fail", "terminate"} =>
               (pc'.step = "untunnel_fail" <=> tunnel.enabled)
      BY <2>5, FailedIs
    <3>2. Tunnelled' <=> pc'.step = "untunnel_fail"
      BY <3>1 DEF Tunnelled, Streams
    <3>3. Tunnelled <=> tunnel.enabled
      BY DEF TunnelInv
    <3>4. pc'.step \notin Streams
      BY <3>1 DEF Streams
    <3> QED BY <2>1, <2>2, <2>3, <2>4, <3>1, <3>2, <3>3, <3>4, TunnelStays
  <2>6. CASE GetsOn
    <3>1. CASE \E t \in Dialled : pc' = [step |-> t, phase |-> How(FALSE)]
      <4>1. pc'.step \in Streams /\ pc'.phase = How(FALSE)
        BY <3>1, DialledFacts DEF TypeInv
      <4>2. Tunnelled' <=> ~opt.wifi
        BY <2>1, <4>1 DEF Tunnelled, Streams
      <4>3. pc'.phase # "accepting" /\ (pc'.phase = "accept" => ~opt.wifi /\ ~tunnel.forward)
        BY <4>1 DEF How
      <4> QED BY <2>1, <2>2, <2>3, <2>4, <2>6, <4>2, <4>3, TunnelStays DEF GetsOn
    <3>2. CASE pc' = [step |-> IF opt.wifi THEN "info" ELSE "untunnel", phase |-> "begin"]
      <4>1. Tunnelled' <=> ~opt.wifi
        BY <3>2 DEF Tunnelled, Streams
      <4>2. pc'.step \notin Streams
        BY <3>2 DEF Streams
      <4> QED BY <2>1, <2>2, <2>3, <2>4, <2>6, <4>1, <4>2, TunnelStays DEF GetsOn
    <3> QED BY <2>6, <3>1, <3>2, NextStreamIs DEF GetsOn, TypeInv
  <2>7. CASE Stays
    <3>1. Tunnelled' <=> Tunnelled
      BY <2>1, <2>7 DEF Stays, Tunnelled
    <3>2. pc'.phase \in {"accept", "accepting"} => pc.phase = "accept"
      BY <2>7 DEF Stays
    <3>3. pc'.phase \in {"accept", "accepting"} => ~opt'.wifi /\ ~tunnel'.forward
      BY <2>1, <2>7, <3>2 DEF TunnelInv, Stays
    <3> QED BY <2>1, <2>2, <2>3, <3>1, <3>3, TunnelStays
  <2> QED BY <1>38, <2>5, <2>6, <2>7, DialIs
<1>39. CASE UNCHANGED vars
  BY <1>39 DEF vars, TunnelInv, Tunnelled, Early, Alive
<1> QED BY <1>1, <1>2, <1>3, <1>4, <1>5, <1>6, <1>7, <1>8, <1>9, <1>10, <1>11,
           <1>12, <1>13, <1>14, <1>15, <1>16, <1>17, <1>18, <1>19, <1>20, <1>21,
           <1>22, <1>23, <1>24, <1>25, <1>26, <1>27, <1>28, <1>29, <1>30, <1>31,
           <1>32, <1>33, <1>34, <1>35, <1>36, <1>37, <1>38, <1>39
        DEF Next, Thread, Answers, Observer, Main, Dials

(* Before the end, what is the server's is open. *)
LEMMA OwnedAlive ==
  ASSUME TypeInv, MainInv, SocketInv, pc.step # "end"
  PROVE  main # "done" /\ \A s \in owned : Alive(s)
BY DEF MainInv, SocketInv

LEMMA NothingYet ==
  ASSUME TypeInv, MainInv, SocketInv,
         pc.step \in Early \cup {"execute", "untunnel_abort", "connect_to"}
  PROVE  owned = {} /\ (\A s \in Streams : sock[s] = "none" /\ ~Alive(s)) /\ main # "done"
         /\ posted = <<>>
<1>1. pc.step # "end" /\ posted = <<>>
  BY DEF Early, MainInv
<1>2. \A s \in Streams : sock[s] = "none" /\ ~Alive(s)
  BY DEF SocketInv, Alive
<1> QED BY <1>1, <1>2, OwnedAlive DEF TypeInv

(* The steps that change no socket but to interrupt it. *)
LEMMA SocketsStay ==
  ASSUME TypeInv, SocketInv, UNCHANGED <<opt, pc, owned, posted>>,
         main = "done" <=> main' = "done",
         \A s \in Streams : sock'[s] = sock[s] \/ (Alive(s) /\ sock'[s] = "interrupted")
  PROVE  SocketInv'
<1>1. \A s \in Streams : /\ Alive(s)' <=> Alive(s)
                         /\ Served(s)' <=> Served(s)
                         /\ sock'[s] = "none" <=> sock[s] = "none"
  BY DEF Alive, Served
<1>2. Undone' <=> Undone
  BY DEF Undone
<1>3. Dialled' = Dialled /\ Needed' = Needed /\ Dialled \subseteq Streams
  BY DialledFacts DEF Dialled, Needed, TypeInv
<1> QED BY <1>1, <1>2, <1>3 DEF SocketInv, TypeInv

(* An adb command that is under way. *)
LEMMA CommandSockets ==
  ASSUME TypeInv, SocketInv, pc.step \in Commands, pc'.step = pc.step,
         UNCHANGED <<opt, sock, owned, posted, main>>
  PROVE  SocketInv'
<1>1. Undone' <=> Undone
  BY DEF Undone
<1>2. pc.step \notin Streams
  BY DEF Commands, Piped, Streams
<1> QED BY <1>1, <1>2 DEF SocketInv, Served, Alive, Dialled, Needed

(* A failure leaves nothing open. *)
LEMMA FailedSockets ==
  ASSUME TypeInv, SocketInv, Failed, posted = <<>>, main # "done", UNCHANGED <<opt, posted, main>>
  PROVE  SocketInv'
<1>1. pc'.step \in {"untunnel_fail", "terminate", "kill_adb_fail", "failed"}
  BY FailedIs
<1>2. owned' = {} /\ \A s \in Streams : ~Alive(s)' /\ (sock[s] = "none" => sock'[s] = "none")
  BY FailedIs DEF Alive
<1>3. Dialled' = Dialled
  BY DEF Dialled, Needed
<1> QED BY <1>1, <1>2, <1>3 DEF SocketInv, Early, Streams

(* The thread stays with a stream. *)
LEMMA StaySockets ==
  ASSUME TypeInv, SocketInv, pc.step \in Streams, pc'.step = pc.step, posted = <<>>, main # "done",
         UNCHANGED <<opt, owned, posted, main>>,
         \A s \in Streams \ {pc.step} : sock'[s] = sock[s],
         pc'.phase \in {"connecting", "receiving"} => Alive(pc.step)'
  PROVE  SocketInv'
<1>1. Dialled' = Dialled /\ Dialled \subseteq Streams
  BY DialledFacts DEF Dialled, Needed, TypeInv
<1>2. /\ pc.step \in Dialled /\ pc.step \notin owned
      /\ \A s \in Dialled : /\ Place[s] < Place[pc.step] => Served(s)
                            /\ Place[s] > Place[pc.step] => sock[s] = "none"
  BY DEF SocketInv
<1>3. Place[pc.step] \in Nat
  BY DEF Place, Streams
<1>4. \A s \in Streams \ {pc.step} : (Alive(s)' <=> Alive(s)) /\ (Served(s)' <=> Served(s))
  BY DEF Alive, Served
<1>5. \A s \in Dialled : /\ Place[s] < Place[pc.step] => Served(s)'
                         /\ Place[s] > Place[pc.step] => sock'[s] = "none"
  BY <1>1, <1>2, <1>3, <1>4
<1>6. pc.step \notin {"connect_to", "execute", "untunnel_abort", "untunnel", "info", "connected"} \cup Early
      /\ ~Undone'
  BY DEF Streams, Early, Undone
<1> QED BY <1>1, <1>2, <1>4, <1>5, <1>6 DEF SocketInv, TypeInv

(* A stream is done, and the next one comes. *)
LEMMA NextSockets ==
  ASSUME TypeInv, SocketInv, NEW q \in Streams, pc.step = q, NextStream(q), posted = <<>>, main # "done",
         UNCHANGED <<opt, posted, main>>,
         \A s \in Streams \ {q} : sock'[s] = sock[s],
         owned' \in {owned, owned \cup {q}}, Served(q)',
         ~opt.wifi => owned' = owned,
         q \in owned' => Alive(q)'
  PROVE  SocketInv'
<1>1. Dialled' = Dialled /\ Dialled \subseteq Streams
  BY DialledFacts DEF Dialled, Needed, TypeInv
<1>2. /\ q \in Dialled /\ q \notin owned
      /\ \A s \in Dialled : /\ Place[s] < Place[q] => Served(s)
                            /\ Place[s] > Place[q] => sock[s] = "none"
  BY DEF SocketInv
<1>3. \A s \in Streams : Place[s] \in Nat /\ \A t \in Streams : Place[s] = Place[t] => s = t
  BY DEF Place, Streams
<1>4. \A s \in Streams \ {q} : (Alive(s)' <=> Alive(s)) /\ (Served(s) => Served(s)')
  BY DEF Alive, Served
<1>5. \A s \in Dialled : Place[s] <= Place[q] => Served(s)'
  BY <1>1, <1>2, <1>3, <1>4
<1>6. \A s \in owned' : Alive(s)'
  BY <1>4 DEF SocketInv, TypeInv
<1>7. \A s \in Streams : sock'[s] # "none" => s \in Dialled
  BY <1>2 DEF SocketInv
<1>8. ~opt.wifi => owned' = {}
  BY DEF SocketInv
<1>9. CASE \E t \in Dialled : /\ pc' = [step |-> t, phase |-> How(FALSE)]
                             /\ Place[q] < Place[t]
                             /\ \A u \in Dialled : Place[u] <= Place[q] \/ Place[t] <= Place[u]
  <2>1. PICK t \in Dialled : /\ pc' = [step |-> t, phase |-> How(FALSE)]
                            /\ Place[q] < Place[t]
                            /\ \A u \in Dialled : Place[u] <= Place[q] \/ Place[t] <= Place[u]
    BY <1>9
  <2>2. t # q /\ sock[t] = "none" /\ t \notin owned'
    <3>1. t # q /\ sock[t] = "none"
      BY <1>1, <1>2, <1>3, <2>1
    <3> QED BY <1>1, <1>4, <1>6, <3>1 DEF Alive
  <2>3. pc'.step = t /\ pc'.phase = How(FALSE)
    BY <2>1
  <2>4. pc'.phase \notin {"connecting", "receiving"}
    BY <2>3 DEF How
  <2>5. \A s \in Dialled : /\ Place[s] < Place[t] => Served(s)'
                           /\ Place[s] > Place[t] => sock'[s] = "none"
    BY <1>1, <1>2, <1>3, <1>5, <2>1
  <2>6. t \in Streams /\ ~Undone' /\ pc'.step \notin Early \cup {"connect_to", "execute", "untunnel_abort", "untunnel", "info", "connected"}
    BY <1>1, <2>3 DEF Undone, Streams, Early
  <2> QED BY <1>1, <1>6, <1>7, <1>8, <2>2, <2>3, <2>4, <2>5, <2>6 DEF SocketInv
<1>10. CASE /\ pc' = [step |-> IF opt.wifi THEN "info" ELSE "untunnel", phase |-> "begin"]
            /\ \A u \in Dialled : Place[u] <= Place[q]
  <2>1. \A s \in Dialled : Served(s)'
    BY <1>5, <1>10
  <2>2. pc'.step \in {"info", "untunnel"} /\ ~Undone' /\ pc'.step \notin Streams \cup Early
    BY <1>10 DEF Undone, Streams, Early
  <2> QED BY <1>1, <1>6, <1>7, <1>8, <2>1, <2>2 DEF SocketInv
<1> QED BY <1>9, <1>10, NextStreamIs DEF TypeInv

(* The first stream. *)
LEMMA FirstSockets ==
  ASSUME TypeInv, MainInv, SocketInv, pc.step \in Early \cup {"connect_to"},
         pc'.step = FirstDialled, pc'.phase \in {"accept", "begin"},
         UNCHANGED <<opt, sock, owned, posted, main>>
  PROVE  SocketInv'
<1>1. owned = {} /\ (\A s \in Streams : sock[s] = "none" /\ ~Alive(s)) /\ main # "done"
      /\ posted = <<>>
  BY NothingYet
<1>2. FirstDialled \in Dialled /\ (\A t \in Dialled : Place[FirstDialled] <= Place[t])
      /\ Dialled \subseteq Streams /\ Dialled' = Dialled
  BY DialledFacts DEF TypeInv, Dialled, Needed
<1>3. \A s \in Streams : Place[s] \in Nat
  BY DEF Place, Streams
<1>4. pc'.step \notin Early \cup {"connect_to", "execute", "untunnel_abort", "untunnel", "info", "connected"}
      /\ ~Undone'
  BY <1>1, <1>2 DEF Undone, Streams, Early
<1>5. \A s \in Dialled : ~(Place[s] < Place[FirstDialled])
  BY <1>2, <1>3
<1> QED BY <1>1, <1>2, <1>4, <1>5 DEF SocketInv, Alive

(* The sockets, through every step. *)
LEMMA SocketStep == LinkInv /\ [Next]_vars => SocketInv'
<1> SUFFICES ASSUME LinkInv, [Next]_vars PROVE SocketInv'
  OBVIOUS
<1> USE DEF LinkInv
<1>1. CASE Spawn
  <2>1. pc' = [step |-> pc.step, phase |-> pc'.phase] /\ pc.step \in Commands
        /\ UNCHANGED <<opt, sock, owned, posted, main>>
    BY <1>1 DEF Spawn, Phase, Goto, Rest
  <2> QED BY <2>1, CommandSockets
<1>2. CASE ReadOutput
  <2>1. pc.step \in Commands /\ UNCHANGED <<opt, sock, owned, posted, main>>
    BY <1>2 DEF ReadOutput, Rest
  <2>2. \E phase \in CommandPhases : Phase(phase)
    BY <1>2 DEF ReadOutput, CommandPhases
  <2>3. pc'.step = pc.step
    BY <2>2 DEF Phase, Goto
  <2> QED BY <2>1, <2>3, CommandSockets
<1>3. CASE CheckInterrupted
  <2>1. pc' = [step |-> pc.step, phase |-> pc'.phase] /\ pc.step \in Commands
        /\ UNCHANGED <<opt, sock, owned, posted, main>>
    BY <1>3 DEF CheckInterrupted, Phase, Goto, Rest
  <2> QED BY <2>1, CommandSockets
<1>4. CASE Check
  <2>1. pc.step \in Commands /\ UNCHANGED <<opt, sock, owned, posted, main>>
    BY <1>4 DEF Check, Rest
  <2>2. \E phase \in CommandPhases : Phase(phase)
    BY <1>4 DEF Check, CommandPhases
  <2>3. pc'.step = pc.step
    BY <2>2 DEF Phase, Goto
  <2> QED BY <2>1, <2>3, CommandSockets
<1>5. CASE ServerStarted
  BY <1>5 DEF ServerStarted, Call, Ko, Done, Fail, Selecting, Goto, At, Ok,
    StepVars, SocketInv, TypeInv, MainInv, Early, Served, Undone, Alive, Dialled,
    Needed, Streams
<1>6. CASE DevicesListed
  <2>1. pc.step \in Early /\ UNCHANGED <<opt, sock, owned, posted, main>>
    BY <1>6, SelectLeads DEF Selecting, StepVars, Early
  <2>2. CASE pc'.step \in Streams
    BY <1>6, <2>1, <2>2, FirstSockets, SelectLeads
  <2>3. CASE pc'.step \in {"push", "ip", "connect", "kill_adb_fail", "failed"}
    BY <2>1, <2>3, NothingYet DEF SocketInv, Alive, Early, Streams
  <2> QED BY <1>6, <2>2, <2>3, SelectLeads
<1>7. CASE SwitchToTcpip
  BY <1>7 DEF SwitchToTcpip, Call, Ok, Ko, Done, Fail, Selecting, Goto, At,
    StepVars, SocketInv, TypeInv, MainInv, Early, Served, Undone, Alive, Dialled,
    Needed, Streams
<1>8. CASE ConnectTcpip
  <2>1. pc.step \in Early /\ UNCHANGED <<opt, sock, owned, posted, main>>
    BY <1>8, SelectLeads DEF Selecting, StepVars, Early
  <2>2. CASE pc'.step \in Streams
    BY <1>8, <2>1, <2>2, FirstSockets, SelectLeads
  <2>3. CASE pc'.step \in {"push", "ip", "connect", "kill_adb_fail", "failed"}
    BY <2>1, <2>3, NothingYet DEF SocketInv, Alive, Early, Streams
  <2> QED BY <1>8, <2>2, <2>3, SelectLeads
<1>9. CASE Pushed
  BY <1>9 DEF Pushed, Call, Ko, Done, Fail, StepVars, Forward, Goto, At, Ok,
    SocketInv, TypeInv, MainInv, Early, Served, Undone, Alive, Dialled, Needed,
    Streams
<1>10. CASE Reversed
  BY <1>10 DEF Reversed, Call, Ko, Done, StepVars, Forward, Goto, At, Ok, SocketInv,
    TypeInv, MainInv, Early, Served, Undone, Alive, Dialled, Needed, Streams
<1>11. CASE Listen
  <2>1. pc.step = "listen" /\ pc'.step \in {"execute", "forward", "unreverse"}
        /\ UNCHANGED <<opt, owned, posted, main>>
    BY <1>11 DEF Listen, At, Call, Goto, Forward, StepVars
  <2>2. \A s \in Streams : sock'[s] = sock[s]
    BY <1>11 DEF Listen, Streams, Sockets, TypeInv
  <2>3. /\ owned = {} /\ posted = <<>> /\ main # "done"
        /\ \A s \in Streams : sock[s] = "none" /\ ~Alive(s)
    BY <2>1, NothingYet DEF Early
  <2> QED BY <2>1, <2>2, <2>3 DEF SocketInv, Alive, Undone, Streams, Early
<1>12. CASE Unreversed
  BY <1>12 DEF Unreversed, Call, Done, StepVars, Forward, Goto, Ok, Ko, At,
    SocketInv, TypeInv, MainInv, Early, Served, Undone, Alive, Dialled, Needed,
    Streams
<1>13. CASE Forwarded
  BY <1>13 DEF Forwarded, Call, Ok, Ko, Done, Fail, StepVars, Goto, At, SocketInv,
    TypeInv, MainInv, Early, Served, Undone, Alive, Dialled, Needed, Streams
<1>14. CASE Execute
  BY <1>14 DEF Execute, At, Goto, Call, Fail, StepVars, SocketInv, TypeInv, MainInv,
    Early, Served, Undone, Alive, Dialled, Needed, Streams
<1>15. CASE Listed
  <2>1. pc.step = "execute" /\ pc'.step = "return" /\ posted' = Append(posted, "listed")
        /\ UNCHANGED <<opt, sock, owned, main>>
    BY <1>15 DEF Listed, At, Call, Goto, StepVars
  <2>2. /\ owned = {} /\ posted = <<>> /\ main # "done"
        /\ \A s \in Streams : sock[s] = "none" /\ ~Alive(s)
    BY <2>1, NothingYet
  <2>3. posted' = <<"listed">>
    BY <2>1, <2>2
  <2> QED BY <2>1, <2>2, <2>3 DEF SocketInv, Alive, Streams, Early
<1>16. CASE Observe
  BY <1>16 DEF Observe, At, Call, Goto, SocketInv, TypeInv, MainInv, Early, Served,
    Undone, Alive, Dialled, Needed, Streams
<1>17. CASE TunnelClosed
  <2>1. /\ \/ pc.step = "untunnel" /\ pc'.step = "info"
           \/ pc.step = "untunnel_fail" /\ pc'.step = "terminate"
           \/ pc.step = "untunnel_abort" /\ pc'.step \in {"kill_adb_fail", "failed"}
        /\ UNCHANGED <<opt, owned, posted, main>>
    BY <1>17 DEF TunnelClosed, Done, Ok, Ko, At, Call, Fail, Goto, StepVars
  <2>2. \A s \in Streams : sock'[s] = sock[s]
    BY <1>17 DEF TunnelClosed, Streams, Sockets, TypeInv
  <2>3. posted = <<>> /\ pc.step \notin Streams \cup Early /\ pc'.step \notin Streams \cup Early
    BY <2>1 DEF MainInv, Streams, Early
  <2>4. Dialled' = Dialled /\ Dialled \subseteq Streams
    BY <2>1, DialledFacts DEF Dialled, Needed, TypeInv
  <2>5. \A s \in Streams : (Alive(s)' <=> Alive(s)) /\ (Served(s)' <=> Served(s))
    BY <2>1, <2>2 DEF Alive, Served
  <2>6. CASE pc.step = "untunnel"
    <3>1. ~Undone'
      BY <2>1, <2>3, <2>6 DEF Undone
    <3> QED BY <2>1, <2>2, <2>3, <2>4, <2>5, <2>6, <3>1 DEF SocketInv, TypeInv
  <2>7. CASE pc.step = "untunnel_fail"
    <3>1. Undone /\ pc'.step = "terminate"
      BY <2>1, <2>7 DEF Undone
    <3> QED BY <2>1, <2>2, <2>3, <2>4, <2>5, <3>1 DEF SocketInv, TypeInv
  <2>8. CASE pc.step = "untunnel_abort"
    <3>1. /\ owned = {} /\ main # "done"
          /\ \A s \in Streams : sock[s] = "none" /\ ~Alive(s)
      BY <2>8, NothingYet
    <3> QED BY <2>1, <2>2, <2>3, <2>4, <2>5, <2>8, <3>1 DEF SocketInv
  <2> QED BY <2>1, <2>6, <2>7, <2>8
<1>18. CASE ConnectTo
  BY <1>18, FirstSockets, ConnectToLeads DEF StepVars
<1>19. CASE ReadInfo
  <2>1. pc.step = "info" /\ UNCHANGED <<opt, posted, main>>
    BY <1>19 DEF ReadInfo, At, SocketVars
  <2>2. posted = <<>> /\ main # "done"
    BY <2>1, OwnedAlive DEF MainInv
  <2>3. CASE Failed
    BY <2>1, <2>2, <2>3, FailedSockets
  <2>4. CASE ~Failed /\ pc'.step = "info"
    <3>1. UNCHANGED <<sock, owned>> /\ ~Undone'
      BY <1>19, <2>1, <2>2, <2>4 DEF ReadInfo, Call, Goto, Undone
    <3> QED BY <2>1, <2>2, <2>4, <3>1 DEF SocketInv, Served, Alive, Dialled, Needed, Streams, Early
  <2>5. CASE ~Failed /\ pc'.step # "info"
    <3>1. opt.wifi /\ pc'.step = "connected" /\ UNCHANGED <<sock, owned>>
      BY <1>19, <2>1, <2>5 DEF ReadInfo, Watch, Phase, Call, Goto
    <3>2. Needed \subseteq owned /\ \A s \in Streams : Alive(s) => s \in owned
      <4>1. \A s \in Dialled : Served(s)
        BY <2>1 DEF SocketInv
      <4>2. \A s \in Streams : Alive(s) => s \in Dialled
        BY DEF SocketInv, Alive
      <4>3. Needed \subseteq Dialled /\ Needed \cap Optional = {}
        BY DialledFacts DEF TypeInv
      <4> QED BY <3>1, <4>1, <4>2, <4>3 DEF Served
    <3>3. ~Undone' /\ pc'.step \notin Streams \cup Early
      BY <2>1, <2>2, <3>1 DEF Undone, Streams, Early
    <3> QED BY <2>1, <2>2, <3>1, <3>2, <3>3 DEF SocketInv, Alive, Dialled, Needed
  <2> QED BY <2>3, <2>4, <2>5
<1>20. CASE Post
  <2>1. pc.step \in {"connected", "failed"} /\ posted' = Append(posted, pc.step)
        /\ pc' = [step |-> IF pc.step = "connected" THEN "wait" ELSE "return", phase |-> "begin"]
        /\ UNCHANGED <<opt, sock, owned, main>>
    BY <1>20 DEF Post, Call, Goto, EndVars
  <2>2. posted = <<>> /\ main # "done"
    BY <2>1, OwnedAlive DEF MainInv
  <2>3. posted' = <<pc.step>> /\ pc'.step \in {"wait", "return"}
    BY <2>1, <2>2
  <2>4. \A s \in Streams : Alive(s)' <=> Alive(s)
    BY <2>1 DEF Alive
  <2>5. CASE pc.step = "connected"
    <3>1. ~Undone'
      BY <2>1, <2>3, <2>5 DEF Undone
    <3> QED BY <2>1, <2>2, <2>3, <2>4, <2>5, <3>1 DEF SocketInv, Dialled, Needed, Streams, Early, TypeInv
  <2>6. CASE pc.step = "failed"
    <3>1. Undone
      BY <2>6 DEF Undone
    <3> QED BY <2>1, <2>2, <2>3, <2>4, <2>6, <3>1 DEF SocketInv, Dialled, Needed, Streams, Early, TypeInv
  <2> QED BY <2>1, <2>5, <2>6
<1>21. CASE InterruptSockets
  BY <1>21 DEF InterruptSockets, At, Call, EndVars, WaitedForStop, Sockets, Goto,
    Streams, SocketInv, TypeInv, MainInv, Early, Served, Undone, Alive, Dialled,
    Needed
<1>22. CASE Watchdog
  BY <1>22 DEF Watchdog, At, Call, EndVars, Killed, Goto, SocketInv, TypeInv,
    MainInv, Early, Served, Undone, Alive, Dialled, Needed, Streams
<1>23. CASE Terminate
  BY <1>23 DEF Terminate, At, Call, EndVars, Goto, SocketInv, TypeInv, MainInv,
    Early, Served, Undone, Alive, Dialled, Needed, Streams
<1>24. CASE JoinObserver
  BY <1>24 DEF JoinObserver, At, Call, Fail, EndVars, Goto, SocketInv, TypeInv,
    MainInv, Early, Served, Undone, Alive, Dialled, Needed, Streams
<1>25. CASE AdbKilled
  BY <1>25 DEF AdbKilled, Call, Done, EndVars, Goto, Ok, Ko, At, SocketInv, TypeInv,
    MainInv, Early, Served, Undone, Alive, Dialled, Needed, Streams
<1>26. CASE Return
  BY <1>26 DEF Return, At, Call, EndVars, Goto, SocketInv, TypeInv, MainInv, Early,
    Served, Undone, Alive, Dialled, Needed, Streams
<1>27. CASE CommandEnds
  BY <1>27, SocketsStay DEF CommandEnds, Rest
<1>28. CASE ReceivedInfo
  <2>1. pc.step = "info" /\ pc'.step = "connected" /\ owned' = owned \cup Needed
        /\ UNCHANGED <<opt, posted, main, sock>>
    BY <1>28 DEF ReceivedInfo, At, Call, Goto, SocketVars
  <2>2. posted = <<>> /\ main # "done" /\ \A s \in owned : Alive(s)
    BY <2>1, OwnedAlive DEF MainInv
  <2>3. Needed \subseteq Dialled /\ Needed \cap Optional = {} /\ (~opt.wifi => Dialled = Needed)
    BY DialledFacts DEF TypeInv
  <2>4. \A s \in Dialled : Served(s)
    BY <2>1 DEF SocketInv
  <2>5. \A s \in Streams : Alive(s) => s \in owned'
    <3>1. \A s \in Streams : Alive(s) => s \in Dialled
      BY DEF SocketInv, Alive
    <3> QED BY <2>1, <2>3, <2>4, <3>1 DEF Served
  <2>6. \A s \in owned' : Alive(s)
    BY <2>1, <2>2, <2>3, <2>4 DEF Served
  <2>7. ~Undone' /\ pc'.step \notin Streams \cup Early
    BY <2>1, <2>2 DEF Undone, Streams, Early
  <2> QED BY <2>1, <2>2, <2>5, <2>6, <2>7 DEF SocketInv, Alive, Dialled, Needed
<1>29. CASE Observed
  BY <1>29, SocketsStay DEF Observed, EndVars
<1>30. CASE OnTerminated
  <2>1. Interrupt /\ UNCHANGED <<opt, pc, owned, posted>> /\ (main = "done" <=> main' = "done")
    BY <1>30 DEF OnTerminated
  <2>2. \A s \in Streams : sock'[s] = sock[s] \/ (Alive(s) /\ sock'[s] = "interrupted")
    BY <2>1, InterruptKeeps DEF Sockets
  <2> QED BY <2>1, <2>2, SocketsStay
<1>31. CASE AwaitServer
  BY <1>31, SocketsStay DEF AwaitServer, MainVars
<1>32. CASE Stop
  <2>1. Interrupt /\ UNCHANGED <<opt, pc, owned, posted>> /\ (main = "done" <=> main' = "done")
    BY <1>32 DEF Stop, MainVars
  <2>2. \A s \in Streams : sock'[s] = sock[s] \/ (Alive(s) /\ sock'[s] = "interrupted")
    BY <2>1, InterruptKeeps DEF Sockets
  <2> QED BY <2>1, <2>2, SocketsStay
<1>33. CASE Join
  BY <1>33, SocketsStay DEF Join, MainVars
<1>34. CASE Destroy
  BY <1>34 DEF Destroy, Close, MainVars, Destroyed, Sockets, Streams, SocketInv,
    TypeInv, MainInv, Early, Served, Undone, Alive, Dialled, Needed
<1>35. CASE ProcessDies
  BY <1>35, SocketsStay DEF ProcessDies, EndVars
<1>36. CASE Quit
  BY <1>36, SocketsStay DEF Quit, MainVars
<1>37. CASE ReaderEnds
  BY <1>37, SocketsStay DEF ReaderEnds, MainVars
<1>38. CASE Dials
  <2>1. UNCHANGED <<opt, posted, main>> /\ pc.step \in Streams \cup {"info"}
    BY <1>38, DialIs DEF SocketVars
  <2>2. posted = <<>> /\ pc.step # "end"
    BY <2>1 DEF MainInv, Streams
  <2>3. main # "done" /\ sock \in [Sockets -> {"none", "open", "interrupted", "closed"}]
        /\ Streams \subseteq Sockets /\ \A s \in owned : Alive(s)
    BY <2>2, OwnedAlive DEF TypeInv, Sockets
  <2>4. pc.phase \in {"accept", "accepting", "begin", "connecting", "connect", "shut", "sleep"}
          => (pc.step = "info" /\ pc.phase = "begin") \/ pc.step \in Streams
    BY <2>1 DEF TypeInv, PcTyped, PhasesOf, Commands, Piped, Streams
  <2>5. CASE Failed
    BY <2>1, <2>2, <2>3, <2>5, FailedSockets
  <2>6. CASE Register /\ ~Failed
    <3>1. pc.step \in Streams /\ owned' = owned
      BY <2>6 DEF Register
    <3>2. CASE pc.phase = "accept"
      <4>1. sock' = sock /\ pc' = [step |-> pc.step, phase |-> "accepting"]
        BY <2>6, <3>2 DEF Register, Phase, Goto
      <4> QED BY <2>1, <2>2, <2>3, <3>1, <4>1, StaySockets
    <3>3. CASE pc.phase # "accept"
      <4>1. sock' = [sock EXCEPT ![pc.step] = "open"] /\ pc'.step = pc.step
        BY <2>6, <3>3 DEF Register, Phase, Goto
      <4>2. Alive(pc.step)' /\ \A s \in Streams \ {pc.step} : sock'[s] = sock[s]
        BY <2>3, <3>1, <4>1 DEF Alive
      <4> QED BY <2>1, <2>2, <2>3, <3>1, <4>1, <4>2, StaySockets
    <3> QED BY <3>2, <3>3
  <2>7. CASE (Woken \/ Refused) /\ ~Failed
    <3>1. Blocked /\ NoAnswer
      BY <2>7 DEF Woken, Refused
    <3>2. pc.step \in Streams /\ pc' = [step |-> pc.step, phase |-> "shut"] /\ UNCHANGED <<sock, owned>>
      BY <2>1, <2>7, <3>1 DEF NoAnswer, Phase, Goto
    <3> QED BY <2>1, <2>2, <2>3, <3>2, StaySockets
  <2>8. ASSUME pc.step \in Streams
        PROVE  /\ \A s \in Streams \ {pc.step} : Close({pc.step})[s] = sock[s]
               /\ Close({pc.step})[pc.step] \notin {"open", "interrupted"}
    BY <2>3, <2>8, CloseIs DEF Alive, TypeInv
  <2>9. ASSUME GiveUp, ~Failed, pc.step \in Streams PROVE SocketInv'
    <3>1. opt.wifi /\ pc.step \in Optional /\ NextStream(pc.step) /\ sock' = Close({pc.step})
          /\ owned' = owned
      BY <2>9 DEF GiveUp
    <3>2. PICK q \in Streams : q = pc.step
      BY <2>9
    <3>3. Served(q)' /\ q \notin owned
      BY <2>1, <2>8, <2>9, <3>1, <3>2 DEF Served, Alive, SocketInv, Optional
    <3> QED BY <2>1, <2>2, <2>3, <2>8, <2>9, <3>1, <3>2, <3>3, NextSockets
  <2>10. CASE Shut /\ ~Failed
    <3>1. pc.step \in Streams
      BY <2>4, <2>10 DEF Shut
    <3>2. CASE GiveUp
      BY <2>9, <2>10, <3>1, <3>2
    <3>3. CASE ~GiveUp
      <4>1. sock' = Close({pc.step}) /\ pc' = [step |-> pc.step, phase |-> "sleep"] /\ owned' = owned
        BY <2>10, <3>3 DEF Shut, Phase, Goto
      <4> QED BY <2>1, <2>2, <2>3, <2>8, <3>1, <4>1, StaySockets
    <3> QED BY <3>2, <3>3
  <2>11. CASE Sleep /\ ~Failed
    <3>1. pc.step \in Streams
      BY <2>4, <2>11 DEF Sleep
    <3>2. CASE GiveUp
      BY <2>9, <2>11, <3>1, <3>2
    <3>3. CASE ~GiveUp
      <4>1. pc' = [step |-> pc.step, phase |-> "begin"] /\ UNCHANGED <<sock, owned>>
        BY <2>11, <3>3 DEF Sleep, Phase, Goto
      <4> QED BY <2>1, <2>2, <2>3, <3>1, <4>1, StaySockets
    <3> QED BY <3>2, <3>3
  <2>12. CASE Accepted
    <3>1. pc.step \in Streams /\ sock' = [sock EXCEPT ![pc.step] = "open"] /\ owned' = owned
          /\ NextStream(pc.step) /\ pc.phase = "accepting"
      BY <2>4, <2>12 DEF Accepted
    <3>2. ~opt.wifi /\ pc.step \notin owned
      BY <3>1 DEF TunnelInv, SocketInv
    <3>3. sock'[pc.step] = "open" /\ \A s \in Streams \ {pc.step} : sock'[s] = sock[s]
      BY <2>3, <3>1
    <3>4. PICK q \in Streams : q = pc.step
      BY <3>1
    <3>5. Served(q)'
      BY <2>1, <3>2, <3>3, <3>4 DEF Served, Alive
    <3> QED BY <2>1, <2>2, <2>3, <3>1, <3>2, <3>3, <3>4, <3>5, NextSockets
  <2>13. CASE Connected
    <3>1. pc.step \in Streams /\ sock[pc.step] = "open" /\ UNCHANGED <<sock, owned>>
      BY <2>4, <2>13 DEF Connected
    <3>2. CASE Retried(pc.step)
      <4>1. pc'.step = pc.step
        BY <2>13, <3>2 DEF Connected, Phase, Goto
      <4> QED BY <2>1, <2>2, <2>3, <3>1, <4>1, StaySockets DEF Alive
    <3>3. CASE ~Retried(pc.step)
      <4>1. NextStream(pc.step) /\ ~opt.wifi
        BY <2>13, <3>3 DEF Connected, Retried
      <4>2. PICK q \in Streams : q = pc.step
        BY <3>1
      <4>3. Served(q)' /\ Alive(q)'
        BY <2>1, <3>1, <4>1, <4>2 DEF Served, Alive
      <4> QED BY <2>1, <2>2, <2>3, <3>1, <4>1, <4>2, <4>3, NextSockets
    <3> QED BY <3>2, <3>3
  <2>14. CASE ReceivedByte
    <3>1. pc.step \in Streams /\ sock[pc.step] = "open" /\ UNCHANGED sock /\ NextStream(pc.step)
      BY <2>14 DEF ReceivedByte
    <3>2. owned' = IF opt.wifi THEN owned \cup {pc.step} ELSE owned
      BY <2>14 DEF ReceivedByte
    <3>3. PICK q \in Streams : q = pc.step
      BY <3>1
    <3>4. Served(q)' /\ Alive(q)'
      BY <2>1, <3>1, <3>2, <3>3 DEF Served, Alive
    <3>5. owned' \in {owned, owned \cup {q}} /\ (~opt.wifi => owned' = owned)
      BY <3>2, <3>3
    <3> QED BY <2>1, <2>2, <2>3, <3>1, <3>3, <3>4, <3>5, NextSockets
  <2> QED BY <1>38, <2>5, <2>6, <2>7, <2>10, <2>11, <2>12, <2>13, <2>14 DEF Dials
<1>39. CASE UNCHANGED vars
  BY <1>39 DEF vars, SocketInv, Early, Served, Undone, Alive, Dialled, Needed
<1> QED BY <1>1, <1>2, <1>3, <1>4, <1>5, <1>6, <1>7, <1>8, <1>9, <1>10, <1>11,
           <1>12, <1>13, <1>14, <1>15, <1>16, <1>17, <1>18, <1>19, <1>20, <1>21,
           <1>22, <1>23, <1>24, <1>25, <1>26, <1>27, <1>28, <1>29, <1>30, <1>31,
           <1>32, <1>33, <1>34, <1>35, <1>36, <1>37, <1>38, <1>39
        DEF Next, Thread, Answers, Observer, Main, Dials

-----------------------------------------------------------------------------
LEMMA InitLinkInv == Init => LinkInv
<1> SUFFICES ASSUME Init PROVE LinkInv
  OBVIOUS
<1>1. pc.step = "start-server" /\ pc.phase = "begin" /\ pc.step \notin Streams
  BY DEF Init, Streams
<1>2. PcTyped
  <2>1. "start-server" \in Commands /\ "begin" \in CommandPhases
    BY DEF Commands, CommandPhases
  <2>2. "begin" \in PhasesOf("start-server")
    BY <2>1 DEF PhasesOf, CommandPhases, Commands, Piped, Streams
  <2>3. pc \in [step : Steps, phase : Phases]
    BY <2>1 DEF Init, Steps, Phases
  <2> QED BY <1>1, <2>2, <2>3 DEF PcTyped
<1>3. TypeInv
  BY <1>2 DEF Init, TypeInv, Sockets
<1>4. CommandInv
  BY <1>1 DEF Init, CommandInv
<1>5. MainInv
  BY <1>1 DEF Init, MainInv
<1>6. ProcessInv
  BY <1>1 DEF Init, ProcessInv, Tunnelling, OverAdb, WithServer, Over, Linked
<1>7. TunnelInv
  BY <1>1 DEF Init, TunnelInv, Tunnelled, Alive, Sockets
<1>8. SocketInv
  BY <1>1 DEF Init, SocketInv, Undone, Alive, Sockets
<1> QED BY <1>3, <1>4, <1>5, <1>6, <1>7, <1>8 DEF LinkInv

(* The server thread, its observer, the main thread and the readers keep LinkInv,
   in whatever order they and adb, the device and its peers take their steps:
   what is registered with the interruptor, the sockets and the server process
   are, at every step, what the thread takes them for. *)
THEOREM LinkInvariant == Spec => []LinkInv
<1>1. LinkInv /\ [Next]_vars => LinkInv'
  BY TypeStep, CommandStep, MainStep, ProcessStep, TunnelStep, SocketStep DEF LinkInv
<1> QED BY InitLinkInv, <1>1, PTL DEF Spec

(* sc_intr_interrupt (intr.c) hits a process that has not been reaped or a socket
   that has not been closed, never both, and finds nothing registered at the
   end. *)
THEOREM InterruptsAreSafe == Spec => []InterruptIsSafe
<1>1. LinkInv => InterruptIsSafe
  <2> SUFFICES ASSUME LinkInv PROVE InterruptIsSafe
    OBVIOUS
  <2>1. intr.process => command \in {"running", "ok", "failed"} /\ intr.socket = "none"
    BY DEF LinkInv, TypeInv, CommandInv
  <2>2. intr.socket # "none" => sock[intr.socket] \in {"open", "interrupted"}
    BY RegisteredAlive DEF Alive
  <2>3. ASSUME main = "done" PROVE ~intr.process /\ intr.socket = "none"
    <3>1. pc.step = "end"
      BY <2>3 DEF LinkInv, MainInv
    <3> QED BY <3>1 DEF LinkInv, CommandInv, Commands, Piped, Streams
  <2> QED BY <2>1, <2>2, <2>3 DEF InterruptIsSafe
<1> QED BY <1>1, LinkInvariant, PTL

(* What on_connected and on_connection_failed tell the main thread is true: the
   streams it reads are the server's and open until it destroys the server, or
   nothing is open. *)
THEOREM StreamsAreAnnounced == Spec => []AnnouncedStreams
<1>1. LinkInv => AnnouncedStreams
  <2> SUFFICES ASSUME LinkInv PROVE AnnouncedStreams
    OBVIOUS
  <2>1. \A e \in {"connected", "failed"} : e \in Range(posted) => posted = <<e>>
    BY DEF LinkInv, TypeInv, Range
  <2>2. ASSUME "connected" \in Range(posted)
        PROVE  /\ Needed \subseteq owned
               /\ main # "done" => \A s \in owned : sock[s] \in {"open", "interrupted"}
    BY <2>1, <2>2 DEF LinkInv, SocketInv, Alive
  <2>3. ASSUME "failed" \in Range(posted) PROVE \A s \in Sockets : sock[s] \in {"none", "closed"}
    <3>1. posted = <<"failed">>
      BY <2>1, <2>3
    <3>2. \A s \in Streams : ~Alive(s)
      BY <3>1 DEF LinkInv, SocketInv, Undone
    <3>3. pc.step \in {"wait", "watchdog", "join_observer", "kill_adb", "return", "end"}
      BY <3>1 DEF LinkInv, MainInv
    <3>4. ~Alive("listen")
      BY <3>3 DEF LinkInv, TunnelInv, Tunnelled, Streams
    <3> QED BY <3>2, <3>4 DEF LinkInv, TypeInv, Alive, Sockets
  <2> QED BY <2>2, <2>3 DEF AnnouncedStreams
<1> QED BY <1>1, LinkInvariant, PTL

(* When sc_server_destroy has returned, no socket is open, the server process is
   reaped, its observer joined, the tunnel closed, and nobody reads. *)
THEOREM NothingIsLeftOpen == Spec => []NothingLeft
<1>1. LinkInv => NothingLeft
  <2> SUFFICES ASSUME LinkInv, main = "done" PROVE NothingLeft
    BY DEF NothingLeft
  <2>1. pc.step = "end" /\ readers = {}
    BY DEF LinkInv, MainInv, TypeInv
  <2>2. ~tunnel.enabled /\ ~Alive("listen")
    BY <2>1 DEF LinkInv, TunnelInv, Tunnelled, Streams
  <2>3. \A s \in Sockets : sock[s] \in {"none", "closed"}
    BY <2>2 DEF LinkInv, SocketInv, TypeInv, Alive, Sockets
  <2>4. proc \in {"none", "reaped"} /\ observer \in {"none", "joined"}
    BY <2>1 DEF LinkInv, ProcessInv, Over
  <2> QED BY <2>1, <2>2, <2>3, <2>4 DEF NothingLeft
<1> QED BY <1>1, LinkInvariant, PTL

-----------------------------------------------------------------------------
(* What the rest of the client sees of the thread does not change, but in four of
   its steps. *)
Quiet == UNCHANGED <<posted, stopped>> /\ (pc'.step = "end" <=> pc.step = "end")

LEMMA QuietSteps ==
  LinkInv /\ [Next]_vars => Quiet \/ Post \/ Listed \/ Stop \/ Return
<1> SUFFICES ASSUME LinkInv, [Next]_vars PROVE Quiet \/ Post \/ Listed \/ Stop \/ Return
  OBVIOUS
<1> USE DEF LinkInv
<1>1. CASE Spawn \/ ReadOutput \/ CheckInterrupted \/ Check
  <2>1. UNCHANGED <<posted, stopped>>
    BY <1>1 DEF Spawn, ReadOutput, CheckInterrupted, Check, Rest
  <2>2. \E phase \in CommandPhases : Phase(phase)
    BY <1>1 DEF Spawn, ReadOutput, CheckInterrupted, Check, CommandPhases
  <2>3. pc'.step = pc.step
    BY <2>2 DEF Phase, Goto
  <2> QED BY <2>1, <2>3 DEF Quiet
<1>2. CASE ServerStarted
  BY <1>2 DEF ServerStarted, Call, Ko, Done, Fail, Selecting, Goto, At, Ok,
    StepVars, Quiet
<1>3. CASE DevicesListed
  BY <1>3, SelectLeads DEF Selecting, StepVars, Quiet, Streams
<1>4. CASE SwitchToTcpip
  BY <1>4 DEF SwitchToTcpip, Call, Ok, Ko, Done, Fail, Selecting, Goto, At,
    StepVars, Quiet
<1>5. CASE ConnectTcpip
  BY <1>5, SelectLeads DEF Selecting, StepVars, Quiet, Streams
<1>6. CASE Pushed
  BY <1>6 DEF Pushed, Call, Ko, Done, Fail, StepVars, Forward, Goto, At, Ok, Quiet
<1>7. CASE Reversed
  BY <1>7 DEF Reversed, Call, Ko, Done, StepVars, Forward, Goto, At, Ok, Quiet
<1>8. CASE Listen
  BY <1>8 DEF Listen, At, Call, StepVars, Forward, Goto, Quiet
<1>9. CASE Unreversed
  BY <1>9 DEF Unreversed, Call, Done, StepVars, Forward, Goto, Ok, Ko, At, Quiet
<1>10. CASE Forwarded
  BY <1>10 DEF Forwarded, Call, Ok, Ko, Done, Fail, StepVars, Goto, At, Quiet
<1>11. CASE Execute
  BY <1>11 DEF Execute, At, Goto, Call, Fail, StepVars, Quiet
<1>12. CASE Observe
  BY <1>12 DEF Observe, At, Call, Goto, Quiet
<1>13. CASE TunnelClosed
  BY <1>13 DEF TunnelClosed, Call, Done, Fail, StepVars, Goto, Ok, Ko, At, Quiet
<1>14. CASE ConnectTo
  BY <1>14, ConnectToLeads DEF StepVars, Quiet, Streams
<1>15. CASE ReadInfo
  <2>1. UNCHANGED <<posted, stopped>> /\ pc.step = "info"
    BY <1>15 DEF ReadInfo, At, SocketVars
  <2>2. CASE Failed
    BY <2>1, <2>2, FailedIs DEF Quiet
  <2>3. CASE ~Failed
    BY <1>15, <2>1, <2>3 DEF ReadInfo, Watch, Phase, Call, Goto, Quiet
  <2> QED BY <2>2, <2>3
<1>16. CASE InterruptSockets
  BY <1>16 DEF InterruptSockets, At, Call, EndVars, WaitedForStop, Goto, Quiet
<1>17. CASE Watchdog
  BY <1>17 DEF Watchdog, At, Call, EndVars, Killed, Goto, Quiet
<1>18. CASE Terminate
  BY <1>18 DEF Terminate, At, Call, EndVars, Goto, Quiet
<1>19. CASE JoinObserver
  BY <1>19 DEF JoinObserver, At, Call, Fail, EndVars, Goto, Quiet
<1>20. CASE AdbKilled
  BY <1>20 DEF AdbKilled, Call, Done, EndVars, Goto, Ok, Ko, At, Quiet
<1>21. CASE CommandEnds
  BY <1>21 DEF CommandEnds, Rest, Quiet
<1>22. CASE ReceivedInfo
  BY <1>22 DEF ReceivedInfo, At, Call, SocketVars, InfoSocket, Unregister, Goto,
    Quiet
<1>23. CASE Observed
  BY <1>23 DEF Observed, EndVars, Quiet
<1>24. CASE OnTerminated
  BY <1>24 DEF OnTerminated, Quiet
<1>25. CASE AwaitServer
  BY <1>25 DEF AwaitServer, MainVars, Quiet
<1>26. CASE Join
  BY <1>26 DEF Join, MainVars, Quiet
<1>27. CASE Destroy
  BY <1>27 DEF Destroy, MainVars, Destroyed, Quiet
<1>28. CASE ProcessDies
  BY <1>28 DEF ProcessDies, EndVars, Quiet
<1>29. CASE Quit
  BY <1>29 DEF Quit, MainVars, Quiet
<1>30. CASE ReaderEnds
  BY <1>30 DEF ReaderEnds, MainVars, Quiet
<1>31. CASE Dials
  BY <1>31, DialLeads DEF SocketVars, Quiet, Streams
<1>32. CASE UNCHANGED vars
  BY <1>32 DEF vars, Quiet
<1> QED BY <1>1, <1>2, <1>3, <1>4, <1>5, <1>6, <1>7, <1>8, <1>9, <1>10, <1>11,
           <1>12, <1>13, <1>14, <1>15, <1>16, <1>17, <1>18, <1>19, <1>20, <1>21,
           <1>22, <1>23, <1>24, <1>25, <1>26, <1>27, <1>28, <1>29, <1>30, <1>31,
           <1>32
        DEF Next, Thread, Answers, Observer, Main, Dials

LEMMA PromiseStep == LinkInv /\ [Next]_vars => [Promise!Next]_(Promise!vars)
<1> SUFFICES ASSUME LinkInv, [Next]_vars PROVE [Promise!Next]_(Promise!vars)
  OBVIOUS
<1> USE DEF LinkInv
<1>1. CASE Quiet
  BY <1>1 DEF Quiet, Promise!vars
<1>2. CASE Post
  <2>1. /\ pc.step \in {"connected", "failed"} /\ posted' = Append(posted, pc.step)
        /\ pc'.step \in {"wait", "return"} /\ stopped' = stopped
    BY <1>2 DEF Post, Call, Goto, EndVars
  <2>2. posted = <<>>
    BY <2>1 DEF MainInv
  <2>3. posted' = <<pc.step>> /\ posted' # <<>> /\ posted'[1] = pc.step
    BY <2>1, <2>2
  <2>4. Promise!Connect \/ Promise!Fail
    BY <2>1, <2>2, <2>3 DEF Promise!Connect, Promise!Fail
  <2> QED BY <2>4 DEF Promise!Next
<1>3. CASE Listed
  <2>1. /\ pc.step = "execute" /\ posted' = Append(posted, "listed")
        /\ pc'.step = "return" /\ stopped' = stopped
    BY <1>3 DEF Listed, At, Call, Goto, StepVars
  <2>2. posted = <<>>
    BY <2>1 DEF MainInv
  <2>3. posted' # <<>> /\ posted'[1] = "listed"
    BY <2>1, <2>2
  <2>4. Promise!List
    BY <2>1, <2>2, <2>3 DEF Promise!List
  <2> QED BY <2>4 DEF Promise!Next
<1>4. CASE Stop
  <2>1. stopped' = TRUE /\ ~stopped /\ UNCHANGED <<pc, posted>>
    BY <1>4 DEF Stop, MainVars, MainInv
  <2>2. Promise!Stop
    BY <2>1 DEF Promise!Stop
  <2> QED BY <2>2 DEF Promise!Next
<1>5. CASE Return
  <2>1. pc.step = "return" /\ pc'.step = "end" /\ UNCHANGED <<posted, stopped>>
    BY <1>5 DEF Return, At, Call, Goto, EndVars
  <2>2. posted # <<>> /\ (posted = <<"connected">> => stopped)
    BY <2>1 DEF MainInv
  <2>3. posted[1] \in {"failed", "listed"} \/ (posted[1] = "connected" /\ stopped)
    BY <2>2 DEF TypeInv
  <2>4. Promise!End
    BY <2>1, <2>2, <2>3 DEF Promise!End
  <2> QED BY <2>4 DEF Promise!Next
<1> QED BY <1>1, <1>2, <1>3, <1>4, <1>5, QuietSteps

(* The server thread does no more than the rest of the client counts on
   (ServerThread): it says once that it is connected, has listed or has failed,
   and ends only then, after a connection only once it is stopped. *)
THEOREM LinkKeepsToPromise == Spec => Promise!Safety
<1>1. Init => Promise!Init
  BY DEF Init, Promise!Init
<1> QED BY <1>1, PromiseStep, LinkInvariant, PTL DEF Spec, Promise!Safety
=============================================================================
