----------------------------- MODULE ViewerFeed -----------------------------
(***************************************************************************)
(* How the screen reaches the viewers: the Hub's event loop, its broadcast *)
(* channel, the two queues and pumps of every WebSocket client (hub.go),   *)
(* and the decoder of the remote viewer page (static/app.js), on top of    *)
(* the screen sessions of ScreenHub.                                       *)
(*                                                                         *)
(* SetScreenSession queues its event while it holds displayMu and          *)
(* controlMu; "waiting" is the event it still has to queue, and nothing    *)
(* that needs those locks happens meanwhile.  A pump's write and the       *)
(* page's handling of the message are one step: writes to a client are     *)
(* serialised and arrive in order.  Messages are status snapshots (only    *)
(* whether the screen is on), session events and screen_init replies.      *)
(***************************************************************************)
EXTENDS ScreenHub, SequencesExt

CONSTANTS
  Clients,        \* WebSocket connections of the remote page
  Publishers,     \* goroutines that publish a status
  NoClient,
  BroadcastCap,   \* capacity of Hub.broadcast (256 in the code)
  SendCap,        \* capacity of Client.send (256)
  BinCap,         \* capacity of Client.sendBin (64)
  Kinds,          \* kinds of access units the phone sends
  MaxAsks         \* bound: screen_init requests on their way

ASSUME FeedAssumption ==
  /\ NoClient \notin Clients
  /\ {BroadcastCap, SendCap, BinCap, MaxAsks} \subseteq Nat \ {0}
  /\ Kinds \subseteq {"config", "key", "delta"}
  /\ Routes = {} /\ Viewers = {}   \* control is checked in ScreenHub

VARIABLES
  broadcast,   \* Hub.broadcast
  waiting,     \* sequence of at most one: the event SetScreenSession queues
  pub,         \* the status snapshot each publisher has taken
  run,         \* Hub.Run: "loop", "stop" (Stop was called) or "stopped"
  adding,      \* the client Run has received from Hub.register
  slow,        \* clients Run has dropped and is about to tear down
  clients,     \* Hub.clients
  phase,       \* HandleWebSocket: "none", "register", "greet", "up"
  closed,      \* clients whose closed channel is closed
  leaving,     \* clients whose teardown has yet to call removeClient
  text,        \* Client.send
  bin,         \* Client.sendBin
  asks,        \* screen_init requests the read pump has not answered
  page,        \* the remote page of each client
  encoder,     \* what the phone has sent since its last header
  published,   \* history: every session event queued, in order
  taken,       \* history: how many of them Run has taken
  heard        \* history: the events each page got, and where it came in

runVars  == <<run, adding, slow, clients>>
closing  == <<closed, leaving>>
feedVars == <<broadcast, waiting, pub, runVars, phase, closing, text, bin,
              asks, page, encoder, published, taken, heard>>
vars     == <<hubVars, feedVars>>

-----------------------------------------------------------------------------
(* Messages and the page.                                                  *)

NoStamp == <<0, 0>>

Status(on)     == [kind |-> "status", on |-> on, id |-> NoStamp, replay |-> EmptyReplay]
Session(id)    == [kind |-> "session", on |-> FALSE, id |-> id, replay |-> EmptyReplay]
InitReply(e)   == [kind |-> "init", on |-> FALSE, id |-> Stamp, replay |-> e]
Frame(kind, s) == [kind |-> kind, id |-> s]

(* screenActive and screenInitRequested of app.js; its decoder, which sends *)
(* nothing back to the hub, is left out.                                   *)
BlankPage == [on |-> FALSE, asked |-> FALSE]

(* updateConnectionStatus: the first status with the screen on asks for    *)
(* screen_init, one with the screen off forgets that it has been asked.    *)
OnText(p, m) ==
  IF m.kind # "status" THEN p
  ELSE IF m.on THEN [on |-> TRUE, asked |-> TRUE] ELSE BlankPage

Asks(p, m) == m.kind = "status" /\ m.on /\ ~p.asked

-----------------------------------------------------------------------------

Init ==
  /\ HubInit
  /\ broadcast = <<>>
  /\ waiting = <<>>
  /\ pub = [p \in Publishers |-> "idle"]
  /\ run = "loop"
  /\ adding = NoClient
  /\ slow = {}
  /\ clients = {}
  /\ phase = [c \in Clients |-> "none"]
  /\ closed = {}
  /\ leaving = {}
  /\ text = [c \in Clients |-> <<>>]
  /\ bin = [c \in Clients |-> <<>>]
  /\ asks = [c \in Clients |-> 0]
  /\ page = [c \in Clients |-> BlankPage]
  /\ encoder = "none"
  /\ published = <<>>
  /\ taken = 0
  /\ heard = [c \in Clients |-> [from |-> 0, ids |-> <<>>]]

LocksFree == waiting = <<>>

(* enqueueText and enqueueBin: nothing for a closed client or a full queue. *)
Enqueue(q, c, m, cap) == IF c \notin closed /\ Len(q[c]) < cap
                         THEN [q EXCEPT ![c] = Append(@, m)] ELSE q

-----------------------------------------------------------------------------
(* The screen worker and the controller.                                   *)

SessionBegins ==
  /\ LocksFree
  /\ BeginScreenSession(FALSE)
  /\ encoder' = "none"
  /\ UNCHANGED <<broadcast, waiting, pub, runVars, phase, closing, text, bin,
                 asks, page, published, taken, heard>>

SessionEnds(g) ==
  /\ LocksFree
  /\ EndScreenSessionDetach(g)
  /\ UNCHANGED feedVars

SessionEnded ==
  /\ LocksFree
  /\ EndScreenSessionRestore(FALSE)
  /\ UNCHANGED feedVars

HeaderAccepted(g) ==
  /\ LocksFree
  /\ SetScreenSession(g, FALSE)
  /\ waiting' = <<Session(<<g, headers + 1>>)>>
  /\ encoder' = "header"
  /\ UNCHANGED <<broadcast, pub, runVars, phase, closing, text, bin, asks, page,
                 published, taken, heard>>

(* BroadcastEvent: blocks, with the locks held, until there is room. *)
HeaderQueued ==
  /\ waiting # <<>>
  /\ Len(broadcast) < BroadcastCap
  /\ broadcast' = broadcast \o waiting
  /\ published' = Append(published, waiting[1].id)
  /\ waiting' = <<>>
  /\ UNCHANGED <<hubVars, pub, runVars, phase, closing, text, bin, asks, page,
                 encoder, taken, heard>>

(* The encoder of the phone: its configuration, a key frame, the others. *)
NextKinds == CASE encoder = "none"   -> {}
               [] encoder = "header" -> {"config"}
               [] encoder = "config" -> {"key"}
               [] encoder = "key"    -> {"key", "delta"}

(* A worker that has been replaced may still deliver a frame it had read;  *)
(* BroadcastScreenFrame refuses it.                                        *)
FrameArrives(g, kind) ==
  /\ LocksFree
  /\ kind \in IF g = screenGeneration THEN NextKinds ELSE Kinds
  /\ BroadcastScreenFrame(g, kind = "config", kind = "key", TRUE)
  /\ bin' = [c \in Clients |->
               IF c \in clients
               THEN Enqueue(bin, c, Frame(kind, <<g, headers>>), BinCap)[c]
               ELSE bin[c]]
  /\ encoder' = IF kind = "delta" THEN encoder ELSE kind
  /\ UNCHANGED <<broadcast, waiting, pub, runVars, phase, closing, text, asks,
                 page, published, taken, heard>>

(* publishCanonicalStatus: a snapshot, and then, with no lock, the queue. *)
TakeSnapshot(p) ==
  /\ pub[p] = "idle"
  /\ pub' = [pub EXCEPT ![p] = IF screenActive THEN "on" ELSE "off"]
  /\ UNCHANGED <<hubVars, broadcast, waiting, runVars, phase, closing, text, bin,
                 asks, page, encoder, published, taken, heard>>

QueueStatus(p) ==
  /\ pub[p] # "idle"
  /\ Len(broadcast) < BroadcastCap
  /\ broadcast' = Append(broadcast, Status(pub[p] = "on"))
  /\ pub' = [pub EXCEPT ![p] = "idle"]
  /\ UNCHANGED <<hubVars, waiting, runVars, phase, closing, text, bin, asks,
                 page, encoder, published, taken, heard>>

-----------------------------------------------------------------------------
(* Hub.Run.                                                                *)

RunFree == adding = NoClient /\ slow = {}

RunReceives(c) ==
  /\ run \in {"loop", "stop"} /\ RunFree
  /\ phase[c] = "register"
  /\ adding' = c
  /\ phase' = [phase EXCEPT ![c] = "greet"]
  /\ UNCHANGED <<hubVars, broadcast, waiting, pub, run, slow, clients, closing,
                 text, bin, asks, page, encoder, published, taken, heard>>

AddForgets ==   \* mutant: a client received after Stop is not torn down
  /\ adding # NoClient
  /\ clients' = IF run = "stop" THEN clients ELSE clients \cup {adding}
  /\ heard' = [heard EXCEPT ![adding].from = taken]
  /\ adding' = NoClient
  /\ UNCHANGED <<hubVars, broadcast, waiting, pub, run, slow, phase, closing,
                 text, bin, asks, page, encoder, published, taken>>

RunAdds ==
  /\ adding # NoClient
  /\ IF run = "stop"
     THEN closed' = closed \cup {adding} /\ UNCHANGED clients
     ELSE clients' = clients \cup {adding} /\ UNCHANGED closed
  /\ heard' = [heard EXCEPT ![adding].from = taken]
  /\ adding' = NoClient
  /\ UNCHANGED <<hubVars, broadcast, waiting, pub, run, slow, phase, leaving,
                 text, bin, asks, page, encoder, published, taken>>

(* Sending to a client whose closed channel is closed, or removing it, is  *)
(* the choice of the select; a full queue drops the client.                *)
Full(c) == Len(text[c]) >= SendCap

CountTaken == taken' = IF broadcast[1].kind = "session" THEN taken + 1 ELSE taken

RunSkips ==   \* mutant: a full queue loses the message, not the client
  /\ run \in {"loop", "stop"} /\ RunFree
  /\ broadcast # <<>>
  /\ text' = [c \in Clients |-> IF c \in clients /\ ~Full(c)
                                THEN Append(text[c], broadcast[1]) ELSE text[c]]
  /\ broadcast' = Tail(broadcast)
  /\ CountTaken
  /\ UNCHANGED <<hubVars, waiting, pub, runVars, phase, closing, bin, asks, page,
                 encoder, published, heard>>

RunBlocks ==   \* mutant: waits for room in every queue
  /\ run \in {"loop", "stop"} /\ RunFree
  /\ broadcast # <<>>
  /\ \A c \in clients : ~Full(c)
  /\ text' = [c \in Clients |-> IF c \in clients
                                THEN Append(text[c], broadcast[1]) ELSE text[c]]
  /\ broadcast' = Tail(broadcast)
  /\ CountTaken
  /\ UNCHANGED <<hubVars, waiting, pub, runVars, phase, closing, bin, asks, page,
                 encoder, published, heard>>

RunBroadcasts ==
  /\ run \in {"loop", "stop"} /\ RunFree
  /\ broadcast # <<>>
  /\ \E gone \in SUBSET (clients \cap closed) :
       /\ \A c \in clients \cap closed : Full(c) => c \in gone
       /\ slow' = {c \in clients \ closed : Full(c)}
       /\ clients' = clients \ (gone \cup slow')
       /\ text' = [c \in Clients |-> IF c \in clients'
                                     THEN Append(text[c], broadcast[1])
                                     ELSE text[c]]
  /\ broadcast' = Tail(broadcast)
  /\ CountTaken
  /\ UNCHANGED <<hubVars, waiting, pub, run, adding, phase, closing, bin, asks,
                 page, encoder, published, heard>>

RunTearsDown ==
  /\ slow # {}
  /\ closed' = closed \cup slow
  /\ slow' = {}
  /\ UNCHANGED <<hubVars, broadcast, waiting, pub, run, adding, clients, phase,
                 leaving, text, bin, asks, page, encoder, published, taken, heard>>

Stop ==
  /\ run = "loop"
  /\ run' = "stop"
  /\ UNCHANGED <<hubVars, broadcast, waiting, pub, adding, slow, clients, phase,
                 closing, text, bin, asks, page, encoder, published, taken, heard>>

RunStops ==
  /\ run = "stop" /\ RunFree
  /\ run' = "stopped"
  /\ closed' = closed \cup clients
  /\ clients' = {}
  /\ UNCHANGED <<hubVars, broadcast, waiting, pub, adding, slow, phase, leaving,
                 text, bin, asks, page, encoder, published, taken, heard>>

-----------------------------------------------------------------------------
(* One WebSocket client: HandleWebSocket, its pumps, the page.             *)

Upgrade(c) ==
  /\ phase[c] = "none"
  /\ phase' = [phase EXCEPT ![c] = "register"]
  /\ UNCHANGED <<hubVars, broadcast, waiting, pub, runVars, closing, text, bin,
                 asks, page, encoder, published, taken, heard>>

(* The first status: snapshotStatus, and then enqueueText. *)
Snapshot(c) ==
  /\ phase[c] = "greet"
  /\ phase' = [phase EXCEPT ![c] = IF screenActive THEN "on" ELSE "off"]
  /\ UNCHANGED <<hubVars, broadcast, waiting, pub, runVars, closing, text, bin,
                 asks, page, encoder, published, taken, heard>>

Greet(c) ==
  /\ phase[c] \in {"on", "off"}
  /\ text' = Enqueue(text, c, Status(phase[c] = "on"), SendCap)
  /\ phase' = [phase EXCEPT ![c] = "up"]
  /\ UNCHANGED <<hubVars, broadcast, waiting, pub, runVars, closing, bin, asks,
                 page, encoder, published, taken, heard>>

Connected(c) == phase[c] = "up" /\ c \notin closed

TextPump(c) ==
  LET m == text[c][1] IN
  /\ Connected(c) /\ text[c] # <<>>
  /\ Asks(page[c], m) => asks[c] < MaxAsks
  /\ page' = [page EXCEPT ![c] = OnText(@, m)]
  /\ asks' = [asks EXCEPT ![c] = IF Asks(page[c], m) THEN @ + 1 ELSE @]
  /\ heard' = IF m.kind = "session"
              THEN [heard EXCEPT ![c].ids = Append(@, m.id)] ELSE heard
  /\ text' = [text EXCEPT ![c] = Tail(@)]
  /\ UNCHANGED <<hubVars, broadcast, waiting, pub, runVars, phase, closing, bin,
                 encoder, published, taken>>

BinaryPump(c) ==
  /\ Connected(c) /\ bin[c] # <<>>
  /\ bin' = [bin EXCEPT ![c] = Tail(@)]
  /\ UNCHANGED <<hubVars, broadcast, waiting, pub, runVars, phase, closing, text,
                 asks, page, encoder, published, taken, heard>>

(* readPump on screen_init: screenInitMessage under the hub's mu. *)
AnswerInit(c) ==
  /\ Connected(c) /\ asks[c] > 0
  /\ text' = Enqueue(text, c, InitReply(replay), SendCap)
  /\ asks' = [asks EXCEPT ![c] = @ - 1]
  /\ UNCHANGED <<hubVars, broadcast, waiting, pub, runVars, phase, closing, bin,
                 page, encoder, published, taken, heard>>

(* A read or a write fails: teardown, whose removeClient may come before   *)
(* Run has added the client.                                               *)
Teardown(c) ==
  /\ Connected(c)
  /\ closed' = closed \cup {c}
  /\ leaving' = leaving \cup {c}
  /\ UNCHANGED <<hubVars, broadcast, waiting, pub, runVars, phase, text, bin,
                 asks, page, encoder, published, taken, heard>>

Removes(c) ==
  /\ c \in leaving
  /\ leaving' = leaving \ {c}
  /\ clients' = clients \ {c}
  /\ UNCHANGED <<hubVars, broadcast, waiting, pub, run, adding, slow, phase,
                 closed, text, bin, asks, page, encoder, published, taken, heard>>

Stopped == run = "stopped" /\ UNCHANGED vars

RunContinues == \/ \E c \in Clients : RunReceives(c)
                \/ RunAdds \/ RunBroadcasts \/ RunTearsDown

Next ==
  \/ SessionBegins \/ SessionEnded \/ HeaderQueued
  \/ \E g \in Generations : SessionEnds(g) \/ HeaderAccepted(g)
  \/ \E g \in Generations, kind \in Kinds : FrameArrives(g, kind)
  \/ \E p \in Publishers : TakeSnapshot(p) \/ QueueStatus(p)
  \/ RunContinues \/ Stop \/ RunStops \/ Stopped
  \/ \E c \in Clients : \/ Upgrade(c) \/ Snapshot(c) \/ Greet(c)
                        \/ TextPump(c) \/ BinaryPump(c) \/ AnswerInit(c)
                        \/ Teardown(c) \/ Removes(c)

Spec == Init /\ [][Next]_vars

(* Only the hub's own goroutines are fair: a viewer need never read.  The  *)
(* goroutines blocked on a channel are served in turn, so one that waits   *)
(* for room gets it when there is room again and again.                    *)
FairSpec == Spec /\ WF_vars(RunContinues) /\ SF_vars(HeaderQueued)

-----------------------------------------------------------------------------
(* Properties.                                                             *)

Messages == [kind : {"status", "session", "init"}, on : BOOLEAN, id : Stamps,
             replay : ReplayType]

TypeOK ==
  /\ broadcast \in Seq([kind : {"status", "session"}, on : BOOLEAN,
                        id : Stamps, replay : {EmptyReplay}])
  /\ Len(broadcast) <= BroadcastCap
  /\ Len(waiting) <= 1
  /\ pub \in [Publishers -> {"idle", "on", "off"}]
  /\ run \in {"loop", "stop", "stopped"}
  /\ adding \in Clients \cup {NoClient}
  /\ slow \subseteq Clients
  /\ clients \subseteq Clients
  /\ phase \in [Clients -> {"none", "register", "greet", "on", "off", "up"}]
  /\ leaving \subseteq closed
  /\ closed \subseteq Clients
  /\ \A c \in Clients : /\ Len(text[c]) <= SendCap
                        /\ \A i \in DOMAIN text[c] : text[c][i] \in Messages
                        /\ Len(bin[c]) <= BinCap
  /\ asks \in [Clients -> 0 .. MaxAsks]
  /\ page \in [Clients -> [on : BOOLEAN, asked : BOOLEAN]]
  /\ encoder \in {"none", "header", "config", "key"}
  /\ HubTypeOK

Before(a, b)  == a[1] < b[1] \/ (a[1] = b[1] /\ a[2] <= b[2])
Earlier(a, b) == Before(a, b) /\ a # b

(* The session events among the messages of a queue, each after those it   *)
(* must follow.                                                            *)
Events(q)  == {q[i].id : i \in {j \in DOMAIN q : q[j].kind = "session"}}
InOrder(q) == \A i, j \in DOMAIN q :
  i < j /\ q[i].kind = "session" /\ q[j].kind = "session" => Earlier(q[i].id, q[j].id)

(* A viewer that stays connected gets every session event accepted since   *)
(* it was registered, once, in the order in which the phone sent the       *)
(* headers, however many goroutines publish and however slow other viewers *)
(* are; a viewer whose queue is full is disconnected instead.              *)
EveryEventInOrder ==
  \A c \in clients \ closed :
    LET ids == heard[c].ids
        got == Range(ids) IN
    /\ got \cup Events(text[c]) \cup Events(broadcast)
         = {published[i] : i \in heard[c].from + 1 .. Len(published)}
    /\ \A i, j \in DOMAIN ids : i < j => Earlier(ids[i], ids[j])
    /\ InOrder(text[c]) /\ InOrder(broadcast)
    /\ \A a \in got : \A b \in Events(text[c]) \cup Events(broadcast) : Earlier(a, b)
    /\ \A a \in Events(text[c]) : \A b \in Events(broadcast) : Earlier(a, b)

(* The frames waiting for a viewer are in the order of their sessions: no  *)
(* frame of a replaced worker gets in behind those of the new session.     *)
FramesInOrder ==
  \A c \in Clients : \A i, j \in DOMAIN bin[c] :
    i <= j => Before(bin[c][i].id, bin[c][j].id)

(* What a viewer gets, text and binary, is complete and in order.          *)
MessagesInOrder == TypeOK /\ EveryEventInOrder /\ FramesInOrder

(* When the hub's loop has ended, everyone whom it ever received from      *)
(* Hub.register has been closed: those it had added, one it received when  *)
(* Stop had been called, one it had found slow and taken out of clients    *)
(* before it got to its teardown.  Not among them is a client whose        *)
(* registration was never received ("register": blocked in the send on the *)
(* unbuffered channel, hub.go:603); see StopReleasesRegistering.           *)
ReceivedByRun == {c \in Clients : phase[c] \notin {"none", "register"}}

StopClosesEveryone == run = "stopped" => clients = {} /\ ReceivedByRun \subseteq closed

(* No viewer, however slow, keeps SetScreenSession waiting for room in the *)
(* broadcast channel with displayMu and controlMu held.                    *)
HeaderIsQueued == waiting # <<>> ~> (waiting = <<>> \/ run = "stopped")

(* Two promises that do not hold (README, Known deviations).  Stop "stops  *)
(* the hub event loop and tears down all active clients" (hub.go:212):     *)
(* none is left behind in HandleWebSocket, waiting for a loop that is no   *)
(* longer there to receive it, with nobody to close its connection.        *)
StopReleasesRegistering ==
  run = "stopped" => \A c \in Clients : phase[c] # "register"

(* And of the page:                                                        *)
(* screen_init is one message "so session metadata is processed before its *)
(* cached SPS/PPS and IDR frame, regardless of the separate live           *)
(* text/binary WebSocket writers" (app.js:1771): the event of the session  *)
(* whose decoder setup a reply carries is not still to come behind it,     *)
(* where it would reset the decoder that the reply has configured.         *)
SessionBeforeCachedFrames ==
  \A c \in clients \ closed : \A i \in DOMAIN text[c] :
    text[c][i].kind = "init" /\ text[c][i].replay.configs # <<>> =>
      text[c][i].id \notin Events(SubSeq(text[c], i + 1, Len(text[c])) \o broadcast)
=============================================================================
